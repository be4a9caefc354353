-------------------------------- MODULE Runner --------------------------------
(***************************************************************************)
(* The planner of the kernel, Runner.c: a queue of READY scripts under a   *)
(* mutex and a condition variable, and MULTIPROCESAMIENTO worker threads   *)
(* that each run a quantum of lines of the script they took, then put it   *)
(* back.  Commands.c's RUN, a line itself, adds another script.            *)
(*                                                                         *)
(* A script here is a TCB; one that is no longer in use is free, and what  *)
(* is added next may take its place.  What a line does, beyond RUN, is     *)
(* whether it succeeds.                                                    *)
(***************************************************************************)
EXTENDS Naturals, Sequences

CONSTANTS Scripts, Workers,
          NoScript,      \* a worker that has taken none
          Quanta,        \* the values QUANTUM is given; with 0 no script is preempted
          MaxLines       \* bound of the lines of a script

ASSUME RunnerAssumption ==
  NoScript \notin Scripts /\ Workers # {} /\ Quanta \subseteq Nat /\ Quanta # {} /\ MaxLines \in Nat

VARIABLES ready,      \* ReadyQueue
          task,       \* of each TCB, its number of lines and IP
          worker,     \* of each thread, where it is, its tcb, exec and q
          quantum     \* ConfigKernel.QUANTUM
vars == <<ready, task, worker, quantum>>

\* What the ready queue, the tasks of the scripts and the workers hold while Runner.c schedules them; the
\* quantum is whatever ConfigMonitor last read.
TypeOK ==
  /\ ready \in Seq(Scripts)
  /\ task \in [Scripts -> [lines : 0 .. MaxLines, ip : 0 .. MaxLines]]
  /\ worker \in [Workers -> [at : {"loop", "wait", "exec", "line", "ran"},
                             script : Scripts \cup {NoScript}, exec : Nat, q : Quanta]]
  /\ quantum \in Quanta
  /\ \A w \in Workers : (worker[w].script = NoScript) <=> (worker[w].at \in {"loop", "wait"})

Queued(s) == \E i \in 1 .. Len(ready) : ready[i] = s
Held(s)   == \E w \in Workers : worker[w].script = s
Free(s)   == ~Queued(s) /\ ~Held(s)

Waiting(workers) == {w \in Workers : workers[w].at = "wait"}

\* Variant: no signal.
_addToReadyQueue_NoSignal(s, workers) == ready' = Append(ready, s) /\ worker' = workers

\* Variant: the script goes to the front.
_addToReadyQueue_Front(s, workers) ==
  /\ ready' = <<s>> \o ready
  /\ \/ /\ Waiting(workers) = {}
        /\ worker' = workers
     \/ \E v \in Waiting(workers) : worker' = [workers EXCEPT ![v].at = "loop"]

\* _addToReadyQueue, with what its caller made of the workers: the signal wakes one
\* that waits, if any does.
_addToReadyQueue(s, workers) ==
  /\ ready' = Append(ready, s)
  /\ \/ /\ Waiting(workers) = {}
        /\ worker' = workers
     \/ \E v \in Waiting(workers) : worker' = [workers EXCEPT ![v].at = "loop"]

\* Variant: the worker keeps the script it ended.
Idle_KeepsScript(w) == [worker EXCEPT ![w].at = "loop"]

Idle(w) == [worker EXCEPT ![w] = [at |-> "loop", script |-> NoScript, exec |-> 0, q |-> @.q]]

-----------------------------------------------------------------------------
Init ==
  /\ ready = <<>>
  /\ task = [s \in Scripts |-> [lines |-> 0, ip |-> 0]]
  /\ quantum \in Quanta
  /\ worker = [w \in Workers |-> [at |-> "loop", script |-> NoScript, exec |-> 0, q |-> quantum]]

\* Runner_AddScript and _addSingleLine, from the console.
Runner_AddScript(s, lines) ==
  /\ Free(s)
  /\ task' = [task EXCEPT ![s] = [lines |-> lines, ip |-> 0]]
  /\ _addToReadyQueue(s, worker)
  /\ UNCHANGED quantum

Reload == quantum' \in Quanta /\ UNCHANGED <<ready, task, worker>>

\* Variant: the script is read and not removed.
Pop_Peek(w) ==
  /\ worker[w].at = "loop" /\ ready # <<>>
  /\ worker' = [worker EXCEPT ![w] = [at |-> "exec", script |-> Head(ready), exec |-> 0, q |-> quantum]]
  /\ UNCHANGED <<ready, task, quantum>>

Pop(w) ==
  /\ worker[w].at = "loop" /\ ready # <<>>
  /\ worker' = [worker EXCEPT ![w] = [at |-> "exec", script |-> Head(ready), exec |-> 0, q |-> quantum]]
  /\ ready' = Tail(ready)
  /\ UNCHANGED <<task, quantum>>

CondWait(w) ==
  /\ worker[w].at = "loop" /\ ready = <<>>
  /\ worker' = [worker EXCEPT ![w].at = "wait"]
  /\ UNCHANGED <<ready, task, quantum>>

\* pthread_cond_wait may return without a signal.
SpuriousWakeup(w) ==
  /\ worker[w].at = "wait"
  /\ worker' = [worker EXCEPT ![w].at = "loop"]
  /\ UNCHANGED <<ready, task, quantum>>

Fetch(w) ==
  LET s == worker[w].script IN
  /\ worker[w].at = "exec" /\ task[s].ip < task[s].lines
  /\ task' = [task EXCEPT ![s].ip = @ + 1]
  /\ worker' = [worker EXCEPT ![w].at = "line"]
  /\ UNCHANGED <<ready, quantum>>

HandleRun(w, s, lines) ==
  /\ worker[w].at = "line" /\ Free(s)
  /\ task' = [task EXCEPT ![s] = [lines |-> lines, ip |-> 0]]
  /\ _addToReadyQueue(s, [worker EXCEPT ![w].at = "ran"])
  /\ UNCHANGED quantum

\* An empty script, a line that fails, or the last one: the script passes to EXIT.
Exit(w) ==
  LET s == worker[w].script IN
  /\ \/ worker[w].at = "line"
     \/ worker[w].at \in {"exec", "ran"} /\ task[s].ip = task[s].lines
  /\ worker' = Idle(w)
  /\ UNCHANGED <<ready, task, quantum>>

\* Variant: the lines are counted after the comparison.
NextLine_PostIncrement(w) ==
  LET s == worker[w].script IN
  /\ worker[w].at \in {"line", "ran"} /\ task[s].ip < task[s].lines
  /\ worker[w].exec # worker[w].q
  /\ worker' = [worker EXCEPT ![w] = [at |-> "exec", script |-> s, exec |-> @.exec + 1, q |-> @.q]]
  /\ UNCHANGED <<ready, task, quantum>>

NextLine(w) ==
  LET s == worker[w].script IN
  /\ worker[w].at \in {"line", "ran"} /\ task[s].ip < task[s].lines
  /\ worker[w].exec + 1 # worker[w].q
  /\ worker' = [worker EXCEPT ![w] = [at |-> "exec", script |-> s, exec |-> @.exec + 1, q |-> @.q]]
  /\ UNCHANGED <<ready, task, quantum>>

\* Variant: the script starts over when its turn comes.
Preempt_FromStart(w) ==
  LET s == worker[w].script IN
  /\ worker[w].at \in {"line", "ran"} /\ task[s].ip < task[s].lines
  /\ worker[w].exec + 1 = worker[w].q
  /\ _addToReadyQueue(s, Idle(w))
  /\ task' = [task EXCEPT ![s].ip = 0]
  /\ UNCHANGED quantum

Preempt(w) ==
  LET s == worker[w].script IN
  /\ worker[w].at \in {"line", "ran"} /\ task[s].ip < task[s].lines
  /\ worker[w].exec + 1 = worker[w].q
  /\ _addToReadyQueue(s, Idle(w))
  /\ UNCHANGED <<task, quantum>>

Work(w) ==
  \/ Pop(w) \/ CondWait(w) \/ Fetch(w) \/ Exit(w) \/ NextLine(w) \/ Preempt(w)
  \/ \E s \in Scripts, lines \in 0 .. MaxLines : HandleRun(w, s, lines)

Next ==
  \/ \E s \in Scripts, lines \in 0 .. MaxLines : Runner_AddScript(s, lines)
  \/ Reload
  \/ \E w \in Workers : Work(w) \/ SpuriousWakeup(w)

Spec == Init /\ [][Next]_vars

\* A line that started ends, and a thread that wants the mutex gets it.
FairSpec == Spec /\ \A w \in Workers : WF_vars(Work(w))

-----------------------------------------------------------------------------
\* A script is in the queue once, or with one worker, or over: no two workers run it,
\* and none runs one that was deleted.
OnePlacePerScript ==
  /\ \A i, j \in 1 .. Len(ready) : ready[i] = ready[j] => i = j
  /\ \A w \in Workers : ~Queued(worker[w].script)
  /\ \A v, w \in Workers :
       (worker[v].script = worker[w].script /\ worker[v].script # NoScript) => v = w

\* The signal is not lost: while a script is READY not all workers wait.
NoLostWakeup == ready # <<>> => \E w \in Workers : worker[w].at # "wait"

\* A worker has run less than its quantum of the script it goes on with, and a READY
\* script has lines left, unless it never ran.
QuantumIsRespected ==
  /\ \A w \in Workers : (worker[w].script # NoScript /\ worker[w].q # 0) => worker[w].exec < worker[w].q
  /\ \A i \in 1 .. Len(ready) :
       task[ready[i]].ip < task[ready[i]].lines \/ task[ready[i]].lines = 0

\* A worker goes on where the last one left the script: lines run in order, each once.
LinesRunInOrder ==
  [][\A s \in Scripts : ~Free(s) /\ ~Free(s)' =>
       /\ task'[s].lines = task[s].lines
       /\ task'[s].ip \in {task[s].ip, task[s].ip + 1}
       /\ task'[s].ip # task[s].ip => Held(s) /\ Held(s)']_vars

\* A READY script gets a worker and ends, whatever else is added meanwhile.
EveryScriptEnds == \A s \in Scripts : Queued(s) ~> Free(s)
===============================================================================
