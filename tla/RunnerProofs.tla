------------------------------ MODULE RunnerProofs ------------------------------
(***************************************************************************)
(* Proofs about Runner, for any scripts, workers, quanta and lengths.      *)
(*                                                                         *)
(* The inductive invariant is the conjunction of what MCRunner checks: a   *)
(* worker's step moves one script between the queue and its hands, and     *)
(* each push wakes a worker, so each part needs the others' types only.    *)
(***************************************************************************)
EXTENDS Runner, TLAPS

WorkerState == [at : {"loop", "wait", "exec", "line", "ran"},
                script : Scripts \cup {NoScript}, exec : Nat, q : Quanta]

IInv == TypeOK /\ OnePlacePerScript /\ NoLostWakeup /\ QuantumIsRespected

\* What _addToReadyQueue does: s is last in the queue, at most one thread that waited
\* does not any more, and some thread does not wait.
LEMMA PushHasEffect ==
  ASSUME NEW s \in Scripts, ready \in Seq(Scripts),
         NEW workers \in [Workers -> WorkerState],
         _addToReadyQueue(s, workers)
  PROVE  /\ ready' \in Seq(Scripts) /\ Len(ready') = Len(ready) + 1
         /\ \A i \in 1 .. Len(ready) : ready'[i] = ready[i]
         /\ ready'[Len(ready) + 1] = s
         /\ worker' \in [Workers -> WorkerState]
         /\ \A w \in Workers : \/ worker'[w] = workers[w]
                               \/ /\ workers[w].at = "wait" /\ worker'[w].at = "loop"
                                  /\ worker'[w].script = workers[w].script
                                  /\ worker'[w].exec = workers[w].exec
                                  /\ worker'[w].q = workers[w].q
         /\ \E w \in Workers : worker'[w].at # "wait"
<1>1. ready' = Append(ready, s)
  BY DEF _addToReadyQueue
<1>2. /\ ready' \in Seq(Scripts) /\ Len(ready') = Len(ready) + 1
      /\ \A i \in 1 .. Len(ready) : ready'[i] = ready[i]
      /\ ready'[Len(ready) + 1] = s
  BY <1>1
<1>3. CASE Waiting(workers) = {} /\ worker' = workers
  <2>1. \A w \in Workers : workers[w].at # "wait"
    BY <1>3 DEF Waiting
  <2>2. PICK w \in Workers : TRUE
    BY RunnerAssumption
  <2> QED
    BY <1>2, <1>3, <2>1, <2>2
<1>4. ASSUME NEW v \in Workers, workers[v].at = "wait",
             worker' = [workers EXCEPT ![v].at = "loop"]
      PROVE  /\ worker' \in [Workers -> WorkerState]
             /\ \A w \in Workers : \/ worker'[w] = workers[w]
                               \/ /\ workers[w].at = "wait" /\ worker'[w].at = "loop"
                                  /\ worker'[w].script = workers[w].script
                                  /\ worker'[w].exec = workers[w].exec
                                  /\ worker'[w].q = workers[w].q
             /\ \E w \in Workers : worker'[w].at # "wait"
  <2>1. workers[v] \in WorkerState
    OBVIOUS
  <2>2. worker'[v] = [workers[v] EXCEPT !.at = "loop"]
    BY <1>4
  <2>3. \A w \in Workers : w # v => worker'[w] = workers[w]
    BY <1>4
  <2>4. worker'[v] \in WorkerState /\ worker'[v].at = "loop" /\ worker'[v].script = workers[v].script
        /\ worker'[v].exec = workers[v].exec /\ worker'[v].q = workers[v].q
    BY <2>1, <2>2 DEF WorkerState
  <2>5. worker' \in [Workers -> WorkerState]
    BY <1>4, <2>4, <2>3
  <2> QED
    BY <1>4, <2>3, <2>4, <2>5
<1> QED
  BY <1>2, <1>3, <1>4 DEF _addToReadyQueue, Waiting

\* The queue is empty and no worker holds a script.
LEMMA InitIInv == Init => IInv
<1> SUFFICES ASSUME Init PROVE IInv
  OBVIOUS
<1>1. TypeOK
  BY RunnerAssumption DEF Init, TypeOK
<1>2. OnePlacePerScript
  BY DEF Init, OnePlacePerScript, Queued
<1>3. NoLostWakeup /\ QuantumIsRespected
  BY DEF Init, NoLostWakeup, QuantumIsRespected
<1> QED
  BY <1>1, <1>2, <1>3 DEF IInv

\* A push preserves the invariant when s is in no other place, has lines left or none at
\* all, and the caller left the workers well formed.
LEMMA PushPreserves ==
  ASSUME IInv, NEW s \in Scripts, NEW workers \in [Workers -> WorkerState],
         _addToReadyQueue(s, workers),
         ~Queued(s), quantum' = quantum,
         task' \in [Scripts -> [lines : 0 .. MaxLines, ip : 0 .. MaxLines]],
         \A r \in Scripts : r # s => task'[r] = task[r],
         task'[s].ip < task'[s].lines \/ task'[s].lines = 0,
         \A w \in Workers : (workers[w].script = NoScript) <=> (workers[w].at \in {"loop", "wait"}),
         \A w \in Workers : workers[w].script = worker[w].script \/ workers[w].script = NoScript,
         \A w \in Workers : workers[w].script # s,
         \A w \in Workers : (workers[w].script # NoScript /\ workers[w].q # 0)
                              => workers[w].exec < workers[w].q
  PROVE  IInv'
<1>1. ready \in Seq(Scripts) /\ quantum \in Quanta /\ NoScript \notin Scripts
  BY RunnerAssumption DEF IInv, TypeOK
<1>2. /\ ready' \in Seq(Scripts) /\ Len(ready') = Len(ready) + 1
      /\ \A i \in 1 .. Len(ready) : ready'[i] = ready[i]
      /\ ready'[Len(ready) + 1] = s
      /\ worker' \in [Workers -> WorkerState]
      /\ \A w \in Workers : \/ worker'[w] = workers[w]
                               \/ /\ workers[w].at = "wait" /\ worker'[w].at = "loop"
                                  /\ worker'[w].script = workers[w].script
                                  /\ worker'[w].exec = workers[w].exec
                                  /\ worker'[w].q = workers[w].q
      /\ \E w \in Workers : worker'[w].at # "wait"
  BY <1>1, PushHasEffect
<1>3. \A w \in Workers : worker'[w].script = workers[w].script /\ worker'[w].exec = workers[w].exec
                         /\ worker'[w].q = workers[w].q
  BY <1>2
<1>4. ASSUME NEW i \in 1 .. Len(ready) PROVE ready[i] \in Scripts /\ ready[i] # s
  <2>1. ready[i] \in Scripts
    BY <1>1
  <2>2. ready[i] # s
    BY DEF Queued
  <2> QED
    BY <2>1, <2>2
<1>5. Len(ready) \in Nat
  BY <1>1
<1>6. ASSUME NEW i \in 1 .. Len(ready') PROVE i \in 1 .. Len(ready) \/ i = Len(ready) + 1
  BY <1>2, <1>5
<1>7. TypeOK'
  <2>1. \A w \in Workers : (worker'[w].script = NoScript) <=> (worker'[w].at \in {"loop", "wait"})
    BY <1>2
  <2> QED
    BY <1>1, <1>2, <2>1 DEF TypeOK, WorkerState
<1>8. OnePlacePerScript'
  <2>1. \A i, j \in 1 .. Len(ready) : ready[i] = ready[j] => i = j
    BY DEF IInv, OnePlacePerScript
  <2>3. ASSUME NEW i \in 1 .. Len(ready'), NEW j \in 1 .. Len(ready'), ready'[i] = ready'[j]
        PROVE  i = j
    <3>1. CASE i \in 1 .. Len(ready) /\ j \in 1 .. Len(ready)
      BY <1>2, <2>1, <2>3, <3>1
    <3>2. CASE i \in 1 .. Len(ready) /\ j = Len(ready) + 1
      BY <1>2, <1>4, <2>3, <3>2
    <3>3. CASE i = Len(ready) + 1 /\ j \in 1 .. Len(ready)
      BY <1>2, <1>4, <2>3, <3>3
    <3> QED
      BY <1>6, <3>1, <3>2, <3>3
  <2>4. ASSUME NEW w \in Workers, NEW i \in 1 .. Len(ready') PROVE ready'[i] # worker'[w].script
    <3>1. \A k \in 1 .. Len(ready) : ready[k] # worker[w].script
      BY DEF IInv, OnePlacePerScript, Queued
    <3>2. workers[w].script = worker[w].script \/ workers[w].script = NoScript
      OBVIOUS
    <3>3. CASE i = Len(ready) + 1
      BY <1>2, <1>3, <3>3
    <3>4. CASE i \in 1 .. Len(ready)
      <4>1. ready'[i] = ready[i] /\ ready[i] # NoScript
        BY <1>1, <1>2, <1>4, <3>4
      <4> QED
        BY <1>3, <3>1, <3>2, <3>4, <4>1
    <3> QED
      BY <1>6, <3>3, <3>4
  <2>5. \A v, w \in Workers :
          (worker'[v].script = worker'[w].script /\ worker'[v].script # NoScript) => v = w
    BY <1>3 DEF IInv, OnePlacePerScript
  <2> QED
    BY <2>3, <2>4, <2>5 DEF OnePlacePerScript, Queued
<1>9. NoLostWakeup'
  BY <1>2 DEF NoLostWakeup
<1>10. QuantumIsRespected'
  <2>2. \A i \in 1 .. Len(ready) : task[ready[i]].ip < task[ready[i]].lines \/ task[ready[i]].lines = 0
    BY DEF IInv, QuantumIsRespected
  <2>3. ASSUME NEW i \in 1 .. Len(ready')
        PROVE  task'[ready'[i]].ip < task'[ready'[i]].lines \/ task'[ready'[i]].lines = 0
    <3>1. CASE i \in 1 .. Len(ready)
      <4>1. ready'[i] = ready[i] /\ task'[ready[i]] = task[ready[i]]
        BY <1>2, <1>4, <3>1
      <4> QED
        BY <2>2, <3>1, <4>1
    <3>2. CASE i = Len(ready) + 1
      BY <1>2, <3>2
    <3> QED
      BY <1>6, <3>1, <3>2
  <2>4. \A w \in Workers : (worker'[w].script # NoScript /\ worker'[w].q # 0)
                             => worker'[w].exec < worker'[w].q
    BY <1>3
  <2> QED
    BY <2>3, <2>4 DEF QuantumIsRespected
<1> QED
  BY <1>7, <1>8, <1>9, <1>10 DEF IInv

\* Taking the first script: it was in the queue only, and is with one worker after.
LEMMA PopPreserves ==
  ASSUME IInv, NEW w \in Workers, Pop(w)
  PROVE  IInv'
<1>1. /\ ready \in Seq(Scripts) /\ ready # <<>> /\ worker \in [Workers -> WorkerState]
      /\ quantum \in Quanta /\ Quanta \subseteq Nat /\ NoScript \notin Scripts
  BY RunnerAssumption DEF IInv, TypeOK, Pop, WorkerState
<1>2. worker' = [worker EXCEPT ![w] = [at |-> "exec", script |-> Head(ready), exec |-> 0, q |-> quantum]]
  BY DEF Pop
<1>3. ready' = Tail(ready) /\ task' = task /\ quantum' = quantum
  BY DEF Pop
<1>4. /\ ready' \in Seq(Scripts) /\ Len(ready) \in Nat /\ Len(ready') = Len(ready) - 1
      /\ Head(ready) = ready[1] /\ Head(ready) \in Scripts
  BY <1>1, <1>3
<1>5. ASSUME NEW i \in 1 .. Len(ready')
      PROVE  ready'[i] = ready[i + 1] /\ i + 1 \in 1 .. Len(ready)
  BY <1>1, <1>3, <1>4
<1>6. /\ worker'[w] = [at |-> "exec", script |-> ready[1], exec |-> 0, q |-> quantum]
      /\ \A v \in Workers : v # w => worker'[v] = worker[v]
  BY <1>1, <1>2, <1>4
<1>7. 1 \in 1 .. Len(ready)
  BY <1>1
<1>8. \A i, j \in 1 .. Len(ready) : ready[i] = ready[j] => i = j
  BY DEF IInv, OnePlacePerScript
<1>9. \A v \in Workers, i \in 1 .. Len(ready) : ready[i] # worker[v].script
  BY DEF IInv, OnePlacePerScript, Queued
<1>10. TypeOK'
  <2>1. worker'[w] \in WorkerState
    BY <1>1, <1>4, <1>6 DEF WorkerState
  <2>2. worker' \in [Workers -> WorkerState]
    BY <1>1, <1>2, <1>6, <2>1
  <2>3. worker'[w].script # NoScript /\ worker'[w].at = "exec"
    BY <1>1, <1>4, <1>6
  <2>4. \A v \in Workers : (worker[v].script = NoScript) <=> (worker[v].at \in {"loop", "wait"})
    BY DEF IInv, TypeOK
  <2>5. \A v \in Workers : (worker'[v].script = NoScript) <=> (worker'[v].at \in {"loop", "wait"})
    BY <1>6, <2>3, <2>4
  <2> QED
    BY <1>1, <1>3, <1>4, <2>2, <2>5 DEF IInv, TypeOK, WorkerState
<1>11. OnePlacePerScript'
  <2>1. \A i, j \in 1 .. Len(ready') : ready'[i] = ready'[j] => i = j
    <3> TAKE i, j \in 1 .. Len(ready')
    <3> HAVE ready'[i] = ready'[j]
    <3>1. i + 1 = j + 1
      BY <1>5, <1>8
    <3> QED
      BY <1>4, <3>1
  <2>2. ASSUME NEW v \in Workers, NEW i \in 1 .. Len(ready') PROVE ready'[i] # worker'[v].script
    <3>1. CASE v = w
      <4>1. i + 1 # 1
        BY <1>4
      <4> QED
        BY <1>5, <1>6, <1>7, <1>8, <3>1, <4>1
    <3>2. CASE v # w
      BY <1>5, <1>6, <1>9, <3>2
    <3> QED
      BY <3>1, <3>2
  <2>3. ASSUME NEW v \in Workers, NEW u \in Workers,
               worker'[v].script = worker'[u].script, worker'[v].script # NoScript
        PROVE  v = u
    <3>1. CASE v # w /\ u # w
      BY <1>6, <2>3, <3>1 DEF IInv, OnePlacePerScript
    <3>2. CASE v = w /\ u # w
      BY <1>6, <1>7, <1>9, <2>3, <3>2
    <3>3. CASE v # w /\ u = w
      BY <1>6, <1>7, <1>9, <2>3, <3>3
    <3> QED
      BY <3>1, <3>2, <3>3
  <2> QED
    BY <2>1, <2>2, <2>3 DEF OnePlacePerScript, Queued
<1>12. NoLostWakeup'
  BY <1>6 DEF NoLostWakeup
<1>13. QuantumIsRespected'
  <2>1. ASSUME NEW v \in Workers, worker'[v].script # NoScript, worker'[v].q # 0
        PROVE  worker'[v].exec < worker'[v].q
    BY <1>1, <1>6, <2>1 DEF IInv, QuantumIsRespected
  <2>2. ASSUME NEW i \in 1 .. Len(ready')
        PROVE  task'[ready'[i]].ip < task'[ready'[i]].lines \/ task'[ready'[i]].lines = 0
    BY <1>3, <1>5 DEF IInv, QuantumIsRespected
  <2> QED
    BY <2>1, <2>2 DEF QuantumIsRespected
<1> QED
  BY <1>10, <1>11, <1>12, <1>13 DEF IInv

\* A step that changes the state of one worker only, not its script or to none, keeps
\* the parts about the queue; the others it has to show.
LEMMA WorkerStepPreserves ==
  ASSUME IInv, NEW w \in Workers, NEW new \in WorkerState,
         worker' = [worker EXCEPT ![w] = new],
         ready' = ready, quantum' = quantum,
         task' \in [Scripts -> [lines : 0 .. MaxLines, ip : 0 .. MaxLines]],
         \A s \in Scripts : s # worker[w].script => task'[s] = task[s],
         new.script = worker[w].script \/ new.script = NoScript,
         (new.script = NoScript) <=> (new.at \in {"loop", "wait"}),
         new.at # "wait" \/ ready = <<>>,
         (new.script # NoScript /\ new.q # 0) => new.exec < new.q
  PROVE  IInv'
<1>1. /\ ready \in Seq(Scripts) /\ worker \in [Workers -> WorkerState] /\ quantum \in Quanta
      /\ NoScript \notin Scripts
  BY RunnerAssumption DEF IInv, TypeOK, WorkerState
<1>2. worker'[w] = new /\ \A v \in Workers : v # w => worker'[v] = worker[v]
  BY <1>1
<1>3. TypeOK'
  <2>1. worker' \in [Workers -> WorkerState]
    BY <1>1
  <2>2. \A v \in Workers : (worker'[v].script = NoScript) <=> (worker'[v].at \in {"loop", "wait"})
    BY <1>2 DEF IInv, TypeOK
  <2> QED
    BY <1>1, <2>1, <2>2 DEF TypeOK, WorkerState
<1>4. ASSUME NEW i \in 1 .. Len(ready) PROVE ready[i] \in Scripts
  BY <1>1
<1>5. \A v \in Workers, i \in 1 .. Len(ready) : ready[i] # worker[v].script
  BY DEF IInv, OnePlacePerScript, Queued
<1>6. OnePlacePerScript'
  <2>1. \A i, j \in 1 .. Len(ready') : ready'[i] = ready'[j] => i = j
    BY DEF IInv, OnePlacePerScript
  <2>2. \A v \in Workers, i \in 1 .. Len(ready) : ready[i] # worker'[v].script
    BY <1>1, <1>2, <1>4, <1>5
  <2>3. \A v, u \in Workers :
          (worker'[v].script = worker'[u].script /\ worker'[v].script # NoScript) => v = u
    BY <1>2 DEF IInv, OnePlacePerScript
  <2> QED
    BY <2>1, <2>2, <2>3 DEF OnePlacePerScript, Queued
<1>7. NoLostWakeup'
  BY <1>2 DEF IInv, NoLostWakeup
<1>8. QuantumIsRespected'
  <2>1. \A v \in Workers : (worker'[v].script # NoScript /\ worker'[v].q # 0) => worker'[v].exec < worker'[v].q
    BY <1>2 DEF IInv, QuantumIsRespected
  <2>2. ASSUME NEW i \in 1 .. Len(ready)
        PROVE  task'[ready[i]].ip < task'[ready[i]].lines \/ task'[ready[i]].lines = 0
    <3>1. task'[ready[i]] = task[ready[i]]
      BY <1>4, <1>5
    <3> QED
      BY <3>1 DEF IInv, QuantumIsRespected
  <2> QED
    BY <2>1, <2>2 DEF QuantumIsRespected
<1> QED
  BY <1>3, <1>6, <1>7, <1>8 DEF IInv

\* Each step of the planner preserves the invariant.
LEMMA NextPreserves == IInv /\ [Next]_vars => IInv'
<1> SUFFICES ASSUME IInv, [Next]_vars PROVE IInv'
  OBVIOUS
<1>1. /\ ready \in Seq(Scripts) /\ worker \in [Workers -> WorkerState]
      /\ task \in [Scripts -> [lines : 0 .. MaxLines, ip : 0 .. MaxLines]]
      /\ quantum \in Quanta /\ Quanta \subseteq Nat /\ MaxLines \in Nat /\ NoScript \notin Scripts
  BY RunnerAssumption DEF IInv, TypeOK, WorkerState
<1>2. \A w \in Workers : (worker[w].script = NoScript) <=> (worker[w].at \in {"loop", "wait"})
  BY DEF IInv, TypeOK
<1>3. \A w \in Workers : (worker[w].script # NoScript /\ worker[w].q # 0)
                           => worker[w].exec < worker[w].q
  BY DEF IInv, QuantumIsRespected
<1>4. CASE UNCHANGED vars
  BY <1>4 DEF vars, IInv, TypeOK, OnePlacePerScript, NoLostWakeup, QuantumIsRespected, Queued
<1>5. CASE Reload
  BY <1>5, <1>1 DEF Reload, IInv, TypeOK, OnePlacePerScript, NoLostWakeup, QuantumIsRespected, Queued
<1>6. ASSUME NEW s \in Scripts, NEW lines \in 0 .. MaxLines, Runner_AddScript(s, lines)
      PROVE  IInv'
  <2>1. ~Queued(s) /\ (\A w \in Workers : worker[w].script # s)
    BY <1>6 DEF Runner_AddScript, Free, Held
  <2>2. _addToReadyQueue(s, worker) /\ quantum' = quantum
    BY <1>6 DEF Runner_AddScript
  <2>3. task' = [task EXCEPT ![s] = [lines |-> lines, ip |-> 0]]
    BY <1>6 DEF Runner_AddScript
  <2>4. /\ task' \in [Scripts -> [lines : 0 .. MaxLines, ip : 0 .. MaxLines]]
        /\ \A r \in Scripts : r # s => task'[r] = task[r]
        /\ task'[s].ip < task'[s].lines \/ task'[s].lines = 0
    BY <1>1, <2>3
  <2> QED
    BY <1>1, <1>2, <1>3, <2>1, <2>2, <2>4, PushPreserves
<1>7. ASSUME NEW w \in Workers, Pop(w) PROVE IInv'
  BY <1>7, PopPreserves
<1>8. ASSUME NEW w \in Workers, CondWait(w) \/ SpuriousWakeup(w) PROVE IInv'
  <2> DEFINE new == [worker[w] EXCEPT !.at = IF worker[w].at = "loop" THEN "wait" ELSE "loop"]
  <2>1. /\ worker[w] \in WorkerState /\ worker[w].at \in {"loop", "wait"}
        /\ worker[w].at = "loop" => ready = <<>>
    BY <1>1, <1>8 DEF CondWait, SpuriousWakeup
  <2>2. worker' = [worker EXCEPT ![w] = new] /\ ready' = ready /\ quantum' = quantum /\ task' = task
    BY <1>8, <1>1 DEF CondWait, SpuriousWakeup
  <2>3. /\ new \in WorkerState /\ new.script = worker[w].script /\ new.at \in {"loop", "wait"}
        /\ new.at = "wait" => ready = <<>>
    BY <2>1 DEF WorkerState
  <2>4. new.script = NoScript
    BY <1>2, <2>1, <2>3
  <2> HIDE DEF new
  <2> QED
    BY <1>1, <2>2, <2>3, <2>4, WorkerStepPreserves
<1>9. ASSUME NEW w \in Workers, Fetch(w) PROVE IInv'
  <2> DEFINE s == worker[w].script
             new == [worker[w] EXCEPT !.at = "line"]
  <2>1. worker[w] \in WorkerState /\ worker[w].at = "exec" /\ s \in Scripts
    <3>1. worker[w] \in WorkerState /\ worker[w].at = "exec"
      BY <1>1, <1>9 DEF Fetch
    <3>2. s # NoScript
      BY <1>2, <3>1
    <3> QED
      BY <3>1, <3>2 DEF WorkerState
  <2>2. worker' = [worker EXCEPT ![w] = new] /\ ready' = ready /\ quantum' = quantum
    BY <1>9, <1>1 DEF Fetch
  <2>3. task' = [task EXCEPT ![s].ip = @ + 1] /\ task[s].ip < task[s].lines
    BY <1>9 DEF Fetch
  <2>4. /\ task' \in [Scripts -> [lines : 0 .. MaxLines, ip : 0 .. MaxLines]]
        /\ \A r \in Scripts : r # s => task'[r] = task[r]
    <3> HIDE DEF s
    <3>1. task[s] \in [lines : 0 .. MaxLines, ip : 0 .. MaxLines]
      BY <1>1, <2>1
    <3>2. [task[s] EXCEPT !.ip = @ + 1] \in [lines : 0 .. MaxLines, ip : 0 .. MaxLines]
      <4>1. task[s].ip \in 0 .. MaxLines /\ task[s].lines \in 0 .. MaxLines
        BY <3>1
      <4>2. task[s].ip < task[s].lines
        BY <2>3
      <4>3. task[s].ip + 1 \in 0 .. MaxLines
        BY <4>1, <4>2, RunnerAssumption
      <4>4. [task[s] EXCEPT !.ip = @ + 1] = [lines |-> task[s].lines, ip |-> task[s].ip + 1]
        BY <3>1
      <4> QED
        BY <4>1, <4>3, <4>4
    <3>3. task' = [task EXCEPT ![s] = [task[s] EXCEPT !.ip = @ + 1]]
      BY <2>3
    <3> QED
      BY <1>1, <2>1, <3>2, <3>3
  <2>5. /\ new \in WorkerState /\ new.script = s /\ new.at = "line"
        /\ new.exec = worker[w].exec /\ new.q = worker[w].q
    BY <2>1 DEF WorkerState
  <2>6. s # NoScript
    BY <1>1, <2>1
  <2>7. new.q # 0 => new.exec < new.q
    BY <1>3, <2>5, <2>6
  <2> HIDE DEF new
  <2> QED
    BY <1>1, <2>2, <2>4, <2>5, <2>6, <2>7, WorkerStepPreserves
<1>10. ASSUME NEW w \in Workers, Exit(w) PROVE IInv'
  <2> DEFINE new == [at |-> "loop", script |-> NoScript, exec |-> 0, q |-> worker[w].q]
  <2>1. worker' = [worker EXCEPT ![w] = new] /\ ready' = ready /\ quantum' = quantum /\ task' = task
    BY <1>10 DEF Exit, Idle
  <2>2. new \in WorkerState
    BY <1>1 DEF WorkerState
  <2>3. new.script = NoScript /\ new.at = "loop"
    OBVIOUS
  <2> HIDE DEF new
  <2> QED
    BY <1>1, <2>1, <2>2, <2>3, WorkerStepPreserves
<1>11. ASSUME NEW w \in Workers, NextLine(w) PROVE IInv'
  <2> DEFINE new == [at |-> "exec", script |-> worker[w].script,
                     exec |-> worker[w].exec + 1, q |-> worker[w].q]
  <2>1. /\ worker[w] \in WorkerState /\ worker[w].at \in {"line", "ran"}
        /\ worker[w].exec + 1 # worker[w].q
    BY <1>1, <1>11 DEF NextLine
  <2>2. worker' = [worker EXCEPT ![w] = new] /\ ready' = ready /\ quantum' = quantum /\ task' = task
    BY <1>11, <1>1 DEF NextLine
  <2>3. worker[w].script # NoScript
    BY <1>2, <2>1
  <2>4. /\ worker[w].exec \in Nat /\ worker[w].exec + 1 \in Nat
        /\ worker[w].q \in Nat /\ worker[w].q \in Quanta
    <3>1. worker[w].exec \in Nat /\ worker[w].q \in Quanta
      BY <2>1 DEF WorkerState
    <3>2. worker[w].q \in Nat
      BY <1>1, <3>1
    <3> QED
      BY <3>1, <3>2
  <2>5. /\ new \in WorkerState /\ new.script = worker[w].script /\ new.at = "exec"
        /\ new.exec = worker[w].exec + 1 /\ new.q = worker[w].q
    BY <2>1, <2>4 DEF WorkerState
  <2>6. new.q # 0 => new.exec < new.q
    BY <1>3, <2>1, <2>3, <2>4, <2>5
  <2> HIDE DEF new
  <2> QED
    BY <1>1, <2>2, <2>3, <2>5, <2>6, WorkerStepPreserves
<1>12. ASSUME NEW w \in Workers, Preempt(w) PROVE IInv'
  <2> DEFINE s == worker[w].script
             workers == Idle(w)
  <2>1. /\ worker[w] \in WorkerState /\ worker[w].at \in {"line", "ran"}
        /\ task[s].ip < task[s].lines
        /\ _addToReadyQueue(s, workers) /\ task' = task /\ quantum' = quantum
    BY <1>1, <1>12 DEF Preempt
  <2>2. s # NoScript
    BY <1>2, <2>1
  <2>3. s \in Scripts
    BY <2>1, <2>2 DEF WorkerState
  <2>4. ~Queued(s)
    BY DEF IInv, OnePlacePerScript
  <2>5. workers[w] = [at |-> "loop", script |-> NoScript, exec |-> 0, q |-> worker[w].q]
        /\ \A v \in Workers : v # w => workers[v] = worker[v]
    BY <1>1 DEF Idle
  <2>6. workers \in [Workers -> WorkerState]
    <3>1. workers[w] \in WorkerState
      BY <2>1, <2>5 DEF WorkerState
    <3> QED
      BY <1>1, <3>1, <2>5 DEF Idle
  <2>7. \A v \in Workers : (workers[v].script = NoScript) <=> (workers[v].at \in {"loop", "wait"})
    BY <1>2, <2>5
  <2>8. \A v \in Workers : workers[v].script = worker[v].script \/ workers[v].script = NoScript
    BY <2>5
  <2>9. \A v \in Workers : workers[v].script # s
    BY <2>2, <2>5 DEF IInv, OnePlacePerScript
  <2>10. \A v \in Workers : (workers[v].script # NoScript /\ workers[v].q # 0)
                              => workers[v].exec < workers[v].q
    BY <1>3, <2>5
  <2> HIDE DEF s, workers
  <2> QED
    BY <1>1, <2>1, <2>3, <2>4, <2>6, <2>7, <2>8, <2>9, <2>10, PushPreserves
<1>13. ASSUME NEW w \in Workers, NEW s \in Scripts, NEW lines \in 0 .. MaxLines,
              HandleRun(w, s, lines)
       PROVE  IInv'
  <2> DEFINE workers == [worker EXCEPT ![w].at = "ran"]
  <2>1. /\ ~Queued(s) /\ (\A v \in Workers : worker[v].script # s) /\ worker[w].at = "line"
        /\ _addToReadyQueue(s, workers) /\ quantum' = quantum
        /\ task' = [task EXCEPT ![s] = [lines |-> lines, ip |-> 0]]
    BY <1>13 DEF HandleRun, Free, Held
  <2>2. /\ task' \in [Scripts -> [lines : 0 .. MaxLines, ip : 0 .. MaxLines]]
        /\ \A r \in Scripts : r # s => task'[r] = task[r]
        /\ task'[s].ip < task'[s].lines \/ task'[s].lines = 0
    BY <1>1, <2>1
  <2>3. worker[w] \in WorkerState
    BY <1>1
  <2>4. /\ workers[w] = [worker[w] EXCEPT !.at = "ran"]
        /\ \A v \in Workers : v # w => workers[v] = worker[v]
    BY <1>1
  <2>5. /\ workers[w] \in WorkerState /\ workers[w].at = "ran"
        /\ workers[w].script = worker[w].script /\ workers[w].exec = worker[w].exec
        /\ workers[w].q = worker[w].q
    BY <2>3, <2>4 DEF WorkerState
  <2>6. workers \in [Workers -> WorkerState]
    BY <1>1, <2>4, <2>5
  <2>7. \A v \in Workers : (workers[v].script = NoScript) <=> (workers[v].at \in {"loop", "wait"})
    BY <1>2, <2>1, <2>4, <2>5
  <2>8. \A v \in Workers : workers[v].script = worker[v].script
    BY <2>4, <2>5
  <2>9. \A v \in Workers : (workers[v].script # NoScript /\ workers[v].q # 0)
                             => workers[v].exec < workers[v].q
    BY <1>3, <2>4, <2>5
  <2>10. \A v \in Workers : workers[v].script # s
    BY <2>1, <2>8
  <2> HIDE DEF workers
  <2> QED
    BY <1>1, <2>1, <2>2, <2>6, <2>7, <2>8, <2>9, <2>10, PushPreserves
<1> QED
  BY <1>4, <1>5, <1>6, <1>7, <1>8, <1>9, <1>10, <1>11, <1>12, <1>13 DEF Next, Work

\* The planner's invariant.
THEOREM RunnerInvariant == Spec => []IInv
  BY InitIInv, NextPreserves, PTL DEF Spec

\* Types of the queue, of the TCBs and of the worker threads.
THEOREM RunnerTypeOK == Spec => []TypeOK
<1>1. IInv => TypeOK
  BY DEF IInv
<1> QED
  BY <1>1, RunnerInvariant, PTL

\* No script is lost to or shared by two workers, nor queued while one runs it.
THEOREM RunnerOnePlacePerScript == Spec => []OnePlacePerScript
<1>1. IInv => OnePlacePerScript
  BY DEF IInv
<1> QED
  BY <1>1, RunnerInvariant, PTL

\* While a script is READY there is a worker awake to take it.
THEOREM RunnerNoLostWakeup == Spec => []NoLostWakeup
<1>1. IInv => NoLostWakeup
  BY DEF IInv
<1> QED
  BY <1>1, RunnerInvariant, PTL

\* No worker goes past its quantum, and what is queued again has lines left.
THEOREM RunnerQuantumIsRespected == Spec => []QuantumIsRespected
<1>1. IInv => QuantumIsRespected
  BY DEF IInv
<1> QED
  BY <1>1, RunnerInvariant, PTL

\* What LinesRunInOrder says of one step.
LineOrder ==
  \A s \in Scripts : ~Free(s) /\ ~Free(s)' =>
    /\ task'[s].lines = task[s].lines
    /\ task'[s].ip \in {task[s].ip, task[s].ip + 1}
    /\ task'[s].ip # task[s].ip => Held(s) /\ Held(s)'

\* Only the creation of a script, which is free then, and the fetch of a line, which is
\* its worker's, change a TCB.
LEMMA StepKeepsOrder == IInv /\ Next => LineOrder
<1> SUFFICES ASSUME IInv, Next PROVE LineOrder
  OBVIOUS
<1>1. /\ worker \in [Workers -> WorkerState] /\ NoScript \notin Scripts
      /\ task \in [Scripts -> [lines : 0 .. MaxLines, ip : 0 .. MaxLines]]
      /\ \A w \in Workers : (worker[w].script = NoScript) <=> (worker[w].at \in {"loop", "wait"})
  BY RunnerAssumption DEF IInv, TypeOK, WorkerState
<1>2. CASE task' = task
  BY <1>1, <1>2 DEF LineOrder
<1>3. ASSUME NEW s \in Scripts, NEW lines \in 0 .. MaxLines, Free(s),
             task' = [task EXCEPT ![s] = [lines |-> lines, ip |-> 0]]
      PROVE  LineOrder
  BY <1>1, <1>3 DEF LineOrder
<1>4. ASSUME NEW w \in Workers, Fetch(w)
      PROVE  LineOrder
  <2> DEFINE s == worker[w].script
  <2>1. s \in Scripts
    BY <1>1, <1>4 DEF Fetch, WorkerState
  <2>2. task' = [task EXCEPT ![s].ip = @ + 1] /\ worker' = [worker EXCEPT ![w].at = "line"]
    BY <1>4 DEF Fetch
  <2>3. ASSUME NEW r \in Scripts, r = s
        PROVE  Held(r) /\ Held(r)'
    BY <1>1, <2>2, <2>3 DEF Held, WorkerState
  <2>4. ASSUME NEW r \in Scripts
        PROVE  /\ task'[r].lines = task[r].lines
               /\ task'[r].ip \in {task[r].ip, task[r].ip + 1}
               /\ task'[r].ip # task[r].ip => r = s
    BY <1>1, <2>1, <2>2
  <2> HIDE DEF s
  <2> QED
    BY <2>3, <2>4 DEF LineOrder
<1>5. ASSUME NEW w \in Workers, Work(w)
      PROVE  LineOrder
  <2>1. CASE Pop(w) \/ CondWait(w) \/ Exit(w) \/ NextLine(w) \/ Preempt(w)
    BY <1>2, <2>1 DEF Pop, CondWait, Exit, NextLine, Preempt
  <2>2. ASSUME NEW s \in Scripts, NEW lines \in 0 .. MaxLines, HandleRun(w, s, lines)
        PROVE  LineOrder
    BY <1>3, <2>2 DEF HandleRun
  <2> QED
    BY <1>4, <1>5, <2>1, <2>2 DEF Work
<1>6. ASSUME NEW s \in Scripts, NEW lines \in 0 .. MaxLines, Runner_AddScript(s, lines)
      PROVE  LineOrder
  BY <1>3, <1>6 DEF Runner_AddScript
<1>7. CASE Reload \/ \E w \in Workers : SpuriousWakeup(w)
  BY <1>2, <1>7 DEF Reload, SpuriousWakeup
<1> QED
  BY <1>5, <1>6, <1>7 DEF Next

\* Workers that hand a script over to each other run its lines in order and each once.
THEOREM RunnerLinesRunInOrder == Spec => LinesRunInOrder
<1>1. IInv /\ [Next]_vars => [LineOrder]_vars
  BY StepKeepsOrder
<1> QED
  BY <1>1, RunnerInvariant, PTL DEF Spec, LinesRunInOrder, LineOrder
=================================================================================
