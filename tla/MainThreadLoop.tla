---------------------------- MODULE MainThreadLoop ----------------------------
(***************************************************************************)
(* The work loop the application runs on its main thread: class            *)
(* MainThreadLoop of core/opendaq/scheduler.  Works are queued from any    *)
(* thread; one iteration swaps the queue out, executes every work without  *)
(* the mutex and puts the ones that want to be repeated back at the end.   *)
(* stop() is itself a queued work that clears running.                     *)
(***************************************************************************)
EXTENDS Integers, Sequences, FiniteSets

CONSTANTS
    Runners,        \* threads that call run or runIteration
    OneShot,        \* works executed once
    Repetitive,     \* works that say after each execution whether to repeat
    Stop,           \* the work stop() queues
    MaxStops        \* bound: calls of stop

Works == OneShot \cup Repetitive \cup {Stop}

ASSUME LoopAssumption ==
    /\ OneShot \cap Repetitive = {}
    /\ Stop \notin OneShot \cup Repetitive
    /\ MaxStops \in Nat

VARIABLES
    running,        \* the flag of the loop
    workQueue,      \* works waiting for the next iteration
    pc,             \* per thread: "idle", "waiting" or "executing"
    mode,           \* per thread: inside "run" or "runIteration"
    currentWork,    \* per thread: works of this iteration not yet executed
    repeatWork,     \* per thread: executed works that stay in the list
    submitted,      \* history: works handed to scheduleTask, in order
    done,           \* history: works executed for the last time, in order
    stops,          \* history: calls of stop
    asked           \* history, per thread: stop was called during the call it is in

loopVars == <<running, workQueue, pc, mode, currentWork, repeatWork,
              submitted, done, stops, asked>>

LoopInit ==
    /\ running = FALSE /\ workQueue = <<>>
    /\ pc = [t \in Runners |-> "idle"]
    /\ mode = [t \in Runners |-> "run"]
    /\ currentWork = [t \in Runners |-> <<>>]
    /\ repeatWork = [t \in Runners |-> <<>>]
    /\ submitted = <<>> /\ done = <<>> /\ stops = 0
    /\ asked = [t \in Runners |-> FALSE]

InList(w, s) == \E i \in DOMAIN s : s[i] = w

(* Fault: the newest work is executed first.                               *)
ScheduleTaskFirst(w) ==
    /\ ~InList(w, submitted)
    /\ workQueue' = <<w>> \o workQueue
    /\ submitted' = Append(submitted, w)
    /\ UNCHANGED <<running, pc, mode, currentWork, repeatWork, done, stops, asked>>

(* scheduleTask, from any thread; the model submits every work once.       *)
ScheduleTask(w) ==
    /\ ~InList(w, submitted)
    /\ workQueue' = Append(workQueue, w)
    /\ submitted' = Append(submitted, w)
    /\ UNCHANGED <<running, pc, mode, currentWork, repeatWork, done, stops, asked>>

(* stop, from any thread.                                                  *)
RequestStop ==
    /\ stops < MaxStops
    /\ workQueue' = Append(workQueue, Stop)
    /\ stops' = stops + 1
    /\ asked' = [t \in Runners |-> asked[t] \/ pc[t] # "idle"]
    /\ UNCHANGED <<running, pc, mode, currentWork, repeatWork, submitted, done>>

(* run: refused while running; otherwise wait for the loop time.           *)
RunBegin(t) ==
    /\ pc[t] = "idle" /\ ~running
    /\ running' = TRUE
    /\ pc' = [pc EXCEPT ![t] = "waiting"]
    /\ mode' = [mode EXCEPT ![t] = "run"]
    /\ UNCHANGED <<workQueue, currentWork, repeatWork, submitted, done, stops, asked>>

(* Fault: one-shot works stay in the queue.                                *)
SwapQueueRepetitive(t) ==
    /\ currentWork' = [currentWork EXCEPT ![t] = SelectSeq(workQueue, LAMBDA w : w \notin OneShot)]
    /\ workQueue' = SelectSeq(workQueue, LAMBDA w : w \in OneShot)
    /\ pc' = [pc EXCEPT ![t] = "executing"]
    /\ UNCHANGED <<repeatWork, submitted, done, stops, asked>>

(* The start of an iteration: swap the queue and drop the mutex.           *)
SwapQueue(t) ==
    /\ currentWork' = [currentWork EXCEPT ![t] = workQueue]
    /\ workQueue' = <<>>
    /\ pc' = [pc EXCEPT ![t] = "executing"]
    /\ UNCHANGED <<repeatWork, submitted, done, stops, asked>>

(* wait_until times out: its predicate is false, so nothing else ends it.  *)
WaitEnd(t) ==
    /\ pc[t] = "waiting"
    /\ SwapQueue(t)
    /\ UNCHANGED <<running, mode>>

(* runIteration called by the application; refused while running.          *)
RunIterationBegin(t) ==
    /\ pc[t] = "idle" /\ ~running
    /\ running' = TRUE
    /\ mode' = [mode EXCEPT ![t] = "runIteration"]
    /\ SwapQueue(t)

(* executeWork, without the mutex; the stop work takes it for one          *)
(* assignment.                                                             *)
ExecuteWork(t) ==
    /\ pc[t] = "executing" /\ currentWork[t] # <<>>
    /\ LET w == Head(currentWork[t])
       IN /\ currentWork' = [currentWork EXCEPT ![t] = Tail(@)]
          /\ \/ /\ w \in OneShot \cup Repetitive
                /\ done' = Append(done, w)
                /\ UNCHANGED <<running, repeatWork>>
             \/ /\ w \in Repetitive
                /\ repeatWork' = [repeatWork EXCEPT ![t] = Append(@, w)]
                /\ UNCHANGED <<running, done>>
             \/ /\ w = Stop
                /\ running' = FALSE
                /\ UNCHANGED <<done, repeatWork>>
    /\ UNCHANGED <<workQueue, pc, mode, submitted, stops, asked>>

(* Faults: the works queued meanwhile are overwritten; the loop marks      *)
(* itself running again before every round.                                *)
EndIterationOverwriting(t) ==
    /\ pc[t] = "executing" /\ currentWork[t] = <<>>
    /\ workQueue' = repeatWork[t]
    /\ repeatWork' = [repeatWork EXCEPT ![t] = <<>>]
    /\ \/ /\ mode[t] = "run" /\ running
          /\ pc' = [pc EXCEPT ![t] = "waiting"]
          /\ UNCHANGED <<running, asked>>
       \/ /\ ~(mode[t] = "run" /\ running)
          /\ pc' = [pc EXCEPT ![t] = "idle"]
          /\ running' = FALSE
          /\ asked' = [asked EXCEPT ![t] = FALSE]
    /\ UNCHANGED <<mode, currentWork, submitted, done, stops>>
EndIterationRestarting(t) ==
    /\ pc[t] = "executing" /\ currentWork[t] = <<>>
    /\ workQueue' = workQueue \o repeatWork[t]
    /\ repeatWork' = [repeatWork EXCEPT ![t] = <<>>]
    /\ \/ /\ mode[t] = "run"
          /\ pc' = [pc EXCEPT ![t] = "waiting"]
          /\ running' = TRUE /\ UNCHANGED asked
       \/ /\ mode[t] = "runIteration"
          /\ pc' = [pc EXCEPT ![t] = "idle"]
          /\ running' = FALSE
          /\ asked' = [asked EXCEPT ![t] = FALSE]
    /\ UNCHANGED <<mode, currentWork, submitted, done, stops>>

(* The end of an iteration: lock, splice, and go on while running.         *)
EndIteration(t) ==
    /\ pc[t] = "executing" /\ currentWork[t] = <<>>
    /\ workQueue' = workQueue \o repeatWork[t]
    /\ repeatWork' = [repeatWork EXCEPT ![t] = <<>>]
    /\ \/ /\ mode[t] = "run" /\ running
          /\ pc' = [pc EXCEPT ![t] = "waiting"]
          /\ UNCHANGED <<running, asked>>
       \/ /\ ~(mode[t] = "run" /\ running)
          /\ pc' = [pc EXCEPT ![t] = "idle"]
          /\ running' = FALSE
          /\ asked' = [asked EXCEPT ![t] = FALSE]
    /\ UNCHANGED <<mode, currentWork, submitted, done, stops>>

LoopNext ==
    \/ \E w \in OneShot \cup Repetitive : ScheduleTask(w)
    \/ RequestStop
    \/ \E t \in Runners : \/ RunBegin(t) \/ RunIterationBegin(t) \/ WaitEnd(t)
                          \/ ExecuteWork(t) \/ EndIteration(t)

(* The threads run and the wait has a timeout; nobody has to call run,     *)
(* stop or scheduleTask.                                                   *)
LoopFairness ==
    \A t \in Runners : WF_loopVars(WaitEnd(t) \/ ExecuteWork(t) \/ EndIteration(t))
LoopSafe == LoopInit /\ [][LoopNext]_loopVars
LoopSpec == LoopSafe /\ LoopFairness

--------------------------------------------------------------------------------
(* Every variable keeps its type.                                          *)
LoopTypeOK ==
    /\ running \in BOOLEAN
    /\ workQueue \in Seq(Works)
    /\ pc \in [Runners -> {"idle", "waiting", "executing"}]
    /\ mode \in [Runners -> {"run", "runIteration"}]
    /\ currentWork \in [Runners -> Seq(Works)]
    /\ repeatWork \in [Runners -> Seq(Repetitive)]
    /\ submitted \in Seq(Works) /\ done \in Seq(Works)
    /\ stops \in Nat /\ asked \in [Runners -> BOOLEAN]

(* A submitted work is never lost and never there twice, however iterations *)
(* and calls of scheduleTask interleave: it waits, is part of an iteration, *)
(* is kept for the next one or has been executed for the last time.         *)
Places(w) ==
    {<<"queue", i>> : i \in {i \in DOMAIN workQueue : workQueue[i] = w}}
    \cup {<<"done", i>> : i \in {i \in DOMAIN done : done[i] = w}}
    \cup UNION {{<<t, "current", i>> : i \in {i \in DOMAIN currentWork[t] : currentWork[t][i] = w}}
                \cup {<<t, "repeat", i>> : i \in {i \in DOMAIN repeatWork[t] : repeatWork[t][i] = w}}
                : t \in Runners}
WorkInOnePlace ==
    /\ LoopTypeOK
    /\ \A w \in OneShot \cup Repetitive :
           Cardinality(Places(w)) = IF InList(w, submitted) THEN 1 ELSE 0

(* One thread runs the loop: one-shot works are executed in the order in    *)
(* which they were submitted, although every iteration swaps the queue out  *)
(* and splices repeated works back behind the ones that came meanwhile.     *)
(* Read as one list, what is done, what this iteration has left and what    *)
(* waits never puts two of them the other way round.                        *)
Before(a, b, s) == \E i, j \in DOMAIN s : i < j /\ s[i] = a /\ s[j] = b
WorksInOrder ==
    \A t \in Runners : \A a, b \in OneShot :
        Before(a, b, submitted) => Before(a, b, done \o currentWork[t] \o workQueue)

(* A stop that comes while the loop runs ends it, although it is only a    *)
(* work at the end of a queue that may already be swapped out.             *)
StopEndsLoop == \A t \in Runners : asked[t] ~> (pc[t] = "idle")

(* scheduler.h of stopMainLoop: "Has no effect if the loop is not          *)
(* currently running."  So run returns only if stop was called while it    *)
(* was running.  The code queues the stop all the same, and it ends the    *)
(* next run.                                                               *)
RunEndsOnlyWhenAsked ==
    [][\A t \in Runners :
          mode[t] = "run" /\ pc[t] # "idle" /\ pc'[t] = "idle" => asked[t]]_loopVars

(* A work that waits while the loop runs is executed, or the loop ends.    *)
QueuedWorkExecuted ==
    \A w \in OneShot :
        (running /\ InList(w, workQueue)) ~> (InList(w, done) \/ ~running)
================================================================================
