----------------------------- MODULE DecodePool -----------------------------
(***************************************************************************)
(* archive/pipeline/decode.py: the pool of worker processes every decode   *)
(* runs in, with the pump threads that feed it and the caller that drains  *)
(* it (phase2a.compute_features and its like).  The actors are the pumps,  *)
(* the worker processes with the feeder thread behind each one's end of    *)
(* out_q, the parent's collector and reaper threads, and the caller.       *)
(*                                                                         *)
(* Time is left out: an entry of _active may be overdue at any moment, so  *)
(* a slow decode and a hung one both happen, and a late answer races the   *)
(* reaper.  What a decode returns is left out; only that it answers.       *)
(***************************************************************************)
EXTENDS Naturals, Sequences, FiniteSets

CONSTANTS
    TaskCount,      \* how many tasks results(count) is asked for
    Worker,         \* worker indexes
    Pump,           \* pump threads of the ThreadPoolExecutor
    QueueDepth,     \* QUEUE_DEPTH, the bound of _in_q
    MaxDeaths       \* bound: workers that die on their own

ASSUME PoolAssumption ==
    /\ TaskCount \in Nat \ {0} /\ QueueDepth \in Nat \ {0} /\ MaxDeaths \in Nat
    /\ IsFiniteSet(Worker) /\ Worker # {}

Task == 1..TaskCount
NoTask == 0
Nobody == "nobody"
Gone == "gone"          \* the read lock of _in_q died with its holder

VARIABLES
    next,       \* the first task no pump has taken
    pump,       \* the task each pump is reading, or NoTask
    inQ,        \* _in_q: submitted tasks no worker has taken
    readLock,   \* the lock a worker holds while it waits in _in_q.get()
    worker,     \* each process: where it is, its task, its unsent messages
    outQ,       \* _out_q: messages the collector has not read
    active,     \* _active: the task the parent believes each worker holds
    done,       \* _done: tasks that have an answer
    overdue,    \* the reaper's local list, between the lock and the kills
    out,        \* _out: answers the caller has not taken
    told,       \* the answers results() has yielded
    caller,     \* "drain", "leave" (executor exit), "close" or "closed"
    deaths,     \* how many workers died on their own
    blind       \* history: a process ended and took something unseen with it

parent == <<active, done, overdue>>
feeding == <<next, pump>>
poolVars == <<next, pump, inQ, readLock, worker, outQ, active, done, overdue,
              out, told, caller, deaths, blind>>

Fresh == [at |-> "idle", task |-> NoTask, unsent |-> <<>>]
Message == [kind : {"start", "answer"}, from : Worker, task : Task]

PoolInit ==
    /\ next = 1 /\ pump = [p \in Pump |-> NoTask]
    /\ inQ = <<>> /\ readLock = Nobody /\ outQ = <<>>
    /\ worker = [w \in Worker |-> Fresh]
    /\ active = [w \in Worker |-> NoTask] /\ done = {} /\ overdue = {}
    /\ out = <<>> /\ told = <<>> /\ caller = "drain"
    /\ deaths = 0 /\ blind = FALSE

Running == caller # "closed"
Alive(w) == worker[w].at # "dead"

-----------------------------------------------------------------------------
(* The pumps: read one file, then submit its bytes or deliver its failure. *)

PumpTakes(p) ==
    /\ pump[p] = NoTask /\ next <= TaskCount
    /\ pump' = [pump EXCEPT ![p] = next] /\ next' = next + 1
    /\ UNCHANGED <<inQ, readLock, worker, outQ, parent, out, told, caller, deaths, blind>>

\* A mistake: a payload that finds the queue full is let go.
BugDropsWhenFull(p) ==
    /\ pump[p] # NoTask
    /\ inQ' = IF Len(inQ) < QueueDepth THEN Append(inQ, pump[p]) ELSE inQ
    /\ pump' = [pump EXCEPT ![p] = NoTask]
    /\ UNCHANGED <<next, readLock, worker, outQ, parent, out, told, caller, deaths, blind>>

\* submit blocks while QUEUE_DEPTH payloads are in flight.
Submit(p) ==
    /\ pump[p] # NoTask /\ Len(inQ) < QueueDepth
    /\ inQ' = Append(inQ, pump[p]) /\ pump' = [pump EXCEPT ![p] = NoTask]
    /\ UNCHANGED <<next, readLock, worker, outQ, parent, out, told, caller, deaths, blind>>

\* An absent file or a checksum that disagrees never reaches a worker.
Deliver(p) ==
    /\ pump[p] # NoTask
    /\ IF pump[p] \in done
       THEN UNCHANGED <<done, out>>
       ELSE done' = done \union {pump[p]} /\ out' = Append(out, pump[p])
    /\ pump' = [pump EXCEPT ![p] = NoTask]
    /\ UNCHANGED <<next, inQ, readLock, worker, outQ, active, overdue, told, caller, deaths, blind>>

-----------------------------------------------------------------------------
(* The workers.  _in_q.get() waits for a payload with the queue's read     *)
(* lock held, and a message put on _out_q is written by a feeder thread of *)
(* the worker: a process that is killed takes both with it.                *)

WaitForTask(w) ==
    /\ worker[w].at = "idle" /\ readLock = Nobody /\ Running
    /\ readLock' = w /\ worker' = [worker EXCEPT ![w].at = "get"]
    /\ UNCHANGED <<feeding, inQ, outQ, parent, out, told, caller, deaths, blind>>

TakeTask(w) ==
    /\ worker[w].at = "get" /\ inQ # <<>>
    /\ worker' = [worker EXCEPT ![w] =
         [at |-> "busy", task |-> Head(inQ),
          unsent |-> Append(@.unsent, [kind |-> "start", from |-> w, task |-> Head(inQ)])]]
    /\ inQ' = Tail(inQ) /\ readLock' = Nobody
    /\ UNCHANGED <<feeding, outQ, parent, out, told, caller, deaths, blind>>

\* The decode returned or raised, or its output was over the cap.
AnswerTask(w) ==
    /\ worker[w].at = "busy"
    /\ worker' = [worker EXCEPT ![w] =
         [at |-> "idle", task |-> NoTask,
          unsent |-> Append(@.unsent, [kind |-> "answer", from |-> w, task |-> @.task])]]
    /\ UNCHANGED <<feeding, inQ, readLock, outQ, parent, out, told, caller, deaths, blind>>

Feed(w) ==
    /\ worker[w].unsent # <<>>
    /\ outQ' = Append(outQ, Head(worker[w].unsent))
    /\ worker' = [worker EXCEPT ![w].unsent = Tail(@)]
    /\ UNCHANGED <<feeding, inQ, readLock, parent, out, told, caller, deaths, blind>>

\* What ends with a process: the read lock if it held it, and the messages
\* its feeder had not written.
Unsent(w, t) == \E i \in DOMAIN worker[w].unsent : worker[w].unsent[i].task = t
LockAfter(w) == IF readLock = w THEN Gone ELSE readLock

\* A crash of the decoder or the memory cap's last resort.  The reaper will
\* find the task if the collector ever reads its start.
Die(w) ==
    /\ deaths < MaxDeaths /\ Alive(w) /\ Running
    /\ worker' = [worker EXCEPT ![w].at = "dead", ![w].unsent = <<>>]
    /\ readLock' = LockAfter(w) /\ deaths' = deaths + 1
    /\ blind' = (blind \/ readLock = w \/ worker[w].unsent # <<>>)
    /\ UNCHANGED <<feeding, inQ, outQ, parent, out, told, caller>>

-----------------------------------------------------------------------------
(* The parent's two threads.                                               *)

\* A mistake: an answer that comes after the reaper's is passed on.
BugPassesEveryAnswer ==
    /\ outQ # <<>> /\ Running /\ outQ' = Tail(outQ)
    /\ LET m == Head(outQ)
       IN  /\ active' = [active EXCEPT ![m.from] = IF m.kind = "start" THEN m.task ELSE NoTask]
           /\ IF m.kind = "start"
              THEN UNCHANGED <<done, out>>
              ELSE done' = done \union {m.task} /\ out' = Append(out, m.task)
    /\ UNCHANGED <<feeding, inQ, readLock, worker, overdue, told, caller, deaths, blind>>

Collect ==
    /\ outQ # <<>> /\ Running /\ outQ' = Tail(outQ)
    /\ LET m == Head(outQ)
       IN  \/ /\ m.kind = "start"
              /\ active' = [active EXCEPT ![m.from] = m.task]
              /\ UNCHANGED <<done, out>>
           \/ /\ m.kind = "answer"
              /\ active' = [active EXCEPT ![m.from] = NoTask]
              /\ IF m.task \in done
                 THEN UNCHANGED <<done, out>>
                 ELSE done' = done \union {m.task} /\ out' = Append(out, m.task)
    /\ UNCHANGED <<feeding, inQ, readLock, worker, overdue, told, caller, deaths, blind>>

\* Under the lock: the entries past their deadline are taken off the books.
FindOverdue ==
    /\ overdue = {} /\ Running
    /\ \E late \in SUBSET {w \in Worker : active[w] # NoTask} \ {{}} :
         /\ overdue' = {<<w, active[w]>> : w \in late}
         /\ active' = [w \in Worker |-> IF w \in late THEN NoTask ELSE active[w]]
         /\ done' = done \union {active[w] : w \in late}
    /\ UNCHANGED <<feeding, inQ, readLock, worker, outQ, out, told, caller, deaths, blind>>

\* A mistake: only a worker that had to be killed is answered for.
BugAnswersForTheKilled ==
    \E entry \in overdue :
      LET w == entry[1]
      IN  /\ overdue' = overdue \ {entry}
          /\ worker' = [worker EXCEPT ![w] = Fresh]
          /\ readLock' = LockAfter(w)
          /\ out' = IF Alive(w) THEN Append(out, entry[2]) ELSE out
          /\ blind' = (blind \/ readLock = w \/ worker[w].task \notin {NoTask, entry[2]}
                             \/ \E t \in Task \ {entry[2]} : Unsent(w, t))
          /\ UNCHANGED <<feeding, inQ, outQ, active, done, told, caller, deaths>>

\* After the lock: kill whatever that worker is doing now, spawn another in
\* its place and answer for the task.
Replace ==
    \E entry \in overdue :
      LET w == entry[1]
      IN  /\ overdue' = overdue \ {entry}
          /\ worker' = [worker EXCEPT ![w] = Fresh]
          /\ readLock' = LockAfter(w)
          /\ out' = Append(out, entry[2])
          /\ blind' = (blind \/ readLock = w \/ worker[w].task \notin {NoTask, entry[2]}
                             \/ \E t \in Task \ {entry[2]} : Unsent(w, t))
          /\ UNCHANGED <<feeding, inQ, outQ, active, done, told, caller, deaths>>

-----------------------------------------------------------------------------
(* The caller.                                                             *)

\* Takes one answer; the loop's body may raise over it (a full disk).
TakeAnswer ==
    /\ caller = "drain" /\ out # <<>>
    /\ told' = Append(told, Head(out)) /\ out' = Tail(out)
    /\ caller' \in {IF Len(told') = TaskCount THEN "leave" ELSE "drain", "leave"}
    /\ UNCHANGED <<feeding, inQ, readLock, worker, outQ, parent, deaths, blind>>

NobodyLeft == \A w \in Worker : ~Alive(w)

\* RuntimeError("every decode worker died")
GiveUp ==
    /\ caller = "drain" /\ out = <<>> /\ NobodyLeft
    /\ caller' = "leave"
    /\ UNCHANGED <<feeding, inQ, readLock, worker, outQ, parent, out, told, deaths, blind>>

\* The executor's exit waits for every pump and for every queued read.
JoinPumps ==
    /\ caller = "leave" /\ next > TaskCount /\ \A p \in Pump : pump[p] = NoTask
    /\ caller' = "close"
    /\ UNCHANGED <<feeding, inQ, readLock, worker, outQ, parent, out, told, deaths, blind>>

\* BoundedPool.__exit__: stop the threads, ask the workers to end, kill the rest.
Close ==
    /\ caller = "close" /\ caller' = "closed"
    /\ worker' = [w \in Worker |-> [Fresh EXCEPT !.at = "dead"]]
    /\ UNCHANGED <<feeding, inQ, readLock, outQ, parent, out, told, deaths, blind>>

-----------------------------------------------------------------------------
PumpStep(p) == PumpTakes(p) \/ Submit(p) \/ Deliver(p)
WorkerStep(w) == WaitForTask(w) \/ TakeTask(w) \/ AnswerTask(w)
CallerStep == TakeAnswer \/ GiveUp \/ JoinPumps \/ Close

PoolNext ==
    \/ \E p \in Pump : PumpStep(p)
    \/ \E w \in Worker : WorkerStep(w) \/ Feed(w) \/ Die(w)
    \/ Collect \/ FindOverdue \/ Replace
    \/ CallerStep

\* Every thread runs and every process that waits is scheduled.  A decode
\* need not end (AnswerTask has no fairness: F55 is a hang), but the clock
\* moves, so an entry that stays becomes overdue.
PoolFairness ==
    /\ \A p \in Pump : WF_poolVars(PumpStep(p))
    /\ \A w \in Worker : WF_poolVars(WaitForTask(w)) /\ WF_poolVars(TakeTask(w)) /\ WF_poolVars(Feed(w))
    /\ WF_poolVars(Collect) /\ WF_poolVars(FindOverdue) /\ WF_poolVars(Replace)
    /\ WF_poolVars(CallerStep)

PoolSpec == PoolInit /\ [][PoolNext]_poolVars /\ PoolFairness

-----------------------------------------------------------------------------
PoolTypeOK ==
    /\ next \in 1..(TaskCount + 1) /\ pump \in [Pump -> Task \union {NoTask}]
    /\ inQ \in Seq(Task) /\ outQ \in Seq(Message) /\ out \in Seq(Task) /\ told \in Seq(Task)
    /\ readLock \in Worker \union {Nobody, Gone}
    /\ worker \in [Worker -> [at : {"idle", "get", "busy", "dead"},
                              task : Task \union {NoTask}, unsent : Seq(Message)]]
    /\ active \in [Worker -> Task \union {NoTask}] /\ done \subseteq Task
    /\ overdue \subseteq Worker \X Task
    /\ caller \in {"drain", "leave", "close", "closed"}
    /\ deaths \in 0..MaxDeaths /\ blind \in BOOLEAN

\* Two answers for one task would make results(count) stop one task short:
\* whichever of the worker, the reaper and the pump is late says nothing.
OneAnswerEach ==
    LET answers == out \o told
    IN  \A i, j \in DOMAIN answers : answers[i] = answers[j] => i = j

\* Everything an unanswered task can be found in.
Somewhere(t) ==
    \/ t >= next \/ \E p \in Pump : pump[p] = t
    \/ \E i \in DOMAIN inQ : inQ[i] = t
    \/ \E w \in Worker : active[w] = t \/ Unsent(w, t) \/ (Alive(w) /\ worker[w].task = t)
    \/ \E i \in DOMAIN outQ : outQ[i].task = t

\* A task is lost only with a process that ended holding what the parent had
\* not been told: the books of the collector and the reaper cover the rest.
NothingIsForgotten ==
    (~blind /\ Running) => \A t \in Task : t \in done \/ Somewhere(t)

\* The pass ends, hung decodes and dead workers included, unless a process
\* took something unseen with it or none is left.
PassEnds == <>(caller = "closed") \/ <>blind \/ <>NobodyLeft
=============================================================================
