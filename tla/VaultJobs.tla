----------------------------- MODULE VaultJobs -----------------------------
(***************************************************************************)
(* The ledger of background jobs MediaVault's review workers share         *)
(* (archive/v1), each with the row it fills (a materialized view or a      *)
(* profile), the worker's loop over it and the recovery a starting worker  *)
(* does, under the vault's writer lock.                                    *)
(*                                                                         *)
(* A lock left by a dead worker is taken over in one step: two that find   *)
(* it stale at once, which docs/SAFETY_HOLD.md owns to, are left out.      *)
(***************************************************************************)
EXTENDS Naturals, Sequences, FiniteSets

CONSTANTS
    Worker, NoOne,  \* the worker processes that may run, and nobody
    MaxAttempts     \* attempts before a job is given up (3)

ASSUME JobsAssumption == NoOne \notin Worker /\ MaxAttempts \in Nat \ {0}

VARIABLES
    jobs,       \* the ledger, in the order the jobs were made
    worker,     \* each worker: where it is, its job and what it has read
    holder,     \* who holds the writer lock
    budget      \* bounds: the faults and requests a behaviour has left

Start0 == [phase |-> "inventory", cursor |-> 0, kids |-> {}, owed |-> {}]

\* A job and its row: what it is of, the catalog generation, control_state,
\* whether the row is current, what it holds, its counts and, of a backfill, how far it is.
Job(kind, key, gen) ==
    [kind |-> kind, key |-> key, gen |-> gen, status |-> "queued", attempt |-> 0,
     limit |-> MaxAttempts, held |-> FALSE, row |-> "queued", cur |-> TRUE,
     rows |-> {}, tally |-> <<0, 0>>, plan |-> Start0]

Priority ==
    [catalog |-> 30, organization |-> 25, stacks |-> 25, junk |-> 25, view |-> 20,
     calibrate |-> 20, asset |-> 5, backfill |-> 1]

Stage(kind) ==
    CASE kind \in {"catalog", "view"} -> 7
      [] kind = "organization" -> 8
      [] kind = "stacks" -> 9
      [] kind \in {"junk", "calibrate"} -> 10
      [] kind = "backfill" -> 11
      [] OTHER -> 4

Of(js, kind) == {i \in DOMAIN js : js[i].kind = kind}
Spend(what) == budget[what] > 0 /\ budget' = [budget EXCEPT ![what] = @ - 1]

-----------------------------------------------------------------------------
(* One row of the ledger through its life. *)

\* Failed, or found running by a worker that starts: queued again up to the limit.
Requeued(j) ==
    [j EXCEPT !.status = IF j.attempt < j.limit THEN "queued" ELSE "failed",
              !.row = IF j.attempt < j.limit THEN "queued" ELSE "error"]

Running(j) == [j EXCEPT !.status = "running", !.row = "building", !.attempt = @ + 1]
Completed(j) == [j EXCEPT !.status = "completed", !.row = "ready"]

\* What each stage takes on: the junk stage looks at no control, and a backfill
\* counts its first start only.
Claims(j) == j.status = "queued" /\ ~j.held
Takes(j) ==
    CASE j.kind \in {"junk", "calibrate"} -> j.status = "queued"
      [] Stage(j.kind) \in {4, 11} -> Claims(j)
      [] OTHER -> j.status \in {"queued", "failed"} /\ ~j.held

Taken(j) == IF j.kind = "backfill"
            THEN [j EXCEPT !.status = "running", !.attempt = IF @ = 0 THEN 1 ELSE @]
            ELSE Running(j)

\* The junk stage raises where the others return, and so puts the job down as failed.
Refused(j) == IF Stage(j.kind) = 10 /\ j.status # "completed" THEN Requeued(j) ELSE j

-----------------------------------------------------------------------------
(* The worker: its start, its loop, its death. *)

Down == [at |-> "down", job |-> 0, read |-> <<>>]
Idle == [at |-> "idle", job |-> 0, read |-> <<>>]
Step(w, at, read) == worker' = [worker EXCEPT ![w] = [@ EXCEPT !.at = at, !.read = read]]
At(w, at) == worker[w].at = at
Mine(w) == jobs[worker[w].job]

Wake(w) ==
    /\ At(w, "down")
    /\ worker' = [worker EXCEPT ![w] = [at |-> "recover", job |-> 7, read |-> <<>>]]
    /\ UNCHANGED <<jobs, holder, budget>>

\* Stages 7 to 9 go without where the lock is held; 10 and 11 let it end the worker.
Recover(w) ==
    LET stage == worker[w].job
        orphans == {i \in DOMAIN jobs : Stage(jobs[i].kind) = stage /\ jobs[i].status = "running"}
    IN /\ At(w, "recover")
       /\ jobs' = IF holder # NoOne THEN jobs
                  ELSE [i \in DOMAIN jobs |-> IF i \in orphans THEN Requeued(jobs[i]) ELSE jobs[i]]
       /\ worker' = [worker EXCEPT ![w] =
              IF holder # NoOne /\ stage >= 10 THEN Down
              ELSE IF stage = 11 THEN Idle ELSE [@ EXCEPT !.job = stage + 1]]
       /\ UNCHANGED <<holder, budget>>

Waiting == {i \in DOMAIN jobs : jobs[i].status = "queued" /\ ~jobs[i].held}
Before(i, k) == \/ Priority[jobs[i].kind] > Priority[jobs[k].kind]
                \/ Priority[jobs[i].kind] = Priority[jobs[k].kind] /\ i <= k

NextJob(w) ==
    /\ At(w, "idle")
    /\ \E i \in Waiting : /\ \A k \in Waiting : Before(i, k)
                          /\ worker' = [worker EXCEPT ![w] = [Idle EXCEPT !.at = "picked", !.job = i]]
    /\ UNCHANGED <<jobs, holder, budget>>

\* A preprocessing claim first takes back the leases that have run out.
Lapsed(kind) == IF kind = "asset" THEN {k \in Of(jobs, "asset") : jobs[k].status = "running"} ELSE {}

\* The lock is taken and the job marked, or the exception goes back to the loop.
Begin(w) ==
    LET i == worker[w].job
        j == jobs[i]
    IN /\ At(w, "picked")
       /\ IF holder # NoOne
          THEN /\ worker' = [worker EXCEPT ![w] = Idle] /\ UNCHANGED <<jobs, holder>>
          ELSE \E back \in {{}, Lapsed(j.kind)} :
                 LET js == [k \in DOMAIN jobs |-> IF k \in back THEN Requeued(jobs[k]) ELSE jobs[k]]
                 IN IF Takes(js[i])
                    THEN /\ jobs' = [js EXCEPT ![i] = Taken(@)]
                         /\ worker' = [worker EXCEPT ![w].at = "begun"]
                         /\ holder' = w
                    ELSE /\ jobs' = [js EXCEPT ![i] = Refused(@)]
                         /\ worker' = [worker EXCEPT ![w] = Idle]
                         /\ UNCHANGED holder
       /\ UNCHANGED budget

Working(w) == ~(worker[w].at \in {"down", "recover", "idle", "picked"})

\* The end of a run: the ledger as it leaves it, the lock let go.
Leave(w, js) ==
    /\ jobs' = js
    /\ worker' = [worker EXCEPT ![w] = Idle] /\ holder' = NoOne

Fail(w) ==
    /\ Working(w) /\ Spend("fail")
    /\ Leave(w, [jobs EXCEPT ![worker[w].job] = Requeued(@)])

Kill(w) ==
    /\ ~At(w, "down") /\ Spend("kill")
    /\ worker' = [worker EXCEPT ![w] = Down]
    /\ holder' = IF holder = w THEN NoOne ELSE holder
    /\ UNCHANGED jobs
=============================================================================
