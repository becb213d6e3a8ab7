----------------------------- MODULE VaultCopy -----------------------------
(***************************************************************************)
(* The reviewed copy of archive/v1: a preflight, an approval that          *)
(* snapshots the reviewed manifest, an execution it authorizes and the job *)
(* that copies what was approved into the vault, item by item, under the   *)
(* writer lock and a lease; with its pause, resume and cancel, the         *)
(* interruption of it by a rescan, a failure or a death, and its recovery. *)
(*                                                                         *)
(* An asset is known by the content its hashes name and, where a           *)
(* comparison found other bytes behind the same hashes, by those bytes.    *)
(***************************************************************************)
EXTENDS VaultInbox

CONSTANT
    Worlds      \* what may happen: the files, foreign objects, workers and budgets

ASSUME WorldsAssumption ==
    \A world \in Worlds :
        /\ world.files \in [Item -> Content \union {None}] /\ world.up \subseteq Worker
        /\ \A k \in DOMAIN world.foreign : world.foreign[k] \in Content

VARIABLE
    approval    \* the approvals, in the order they were given

vars == <<file, item, batch, jobs, store, asset, approval, worker, holder, budget>>
Rest == <<file, store, asset, holder>>

Key == Content \X (Content \union {None})
Plain(c) == <<c, None>>

-----------------------------------------------------------------------------
(* The approval: what is approved, and what it was approved upon. *)

Eligible(i) ==
    /\ item[i].decision = "include"
    /\ item[i].class = "sidecar" => item[SidecarOf[i]].here /\ item[SidecarOf[i]].decision = "include"

\* Every item decided upon, and what is included of a kind and with a hash to know it by.
Decided ==
    \A i \in Here : /\ item[i].decision # "pending"
                    /\ item[i].decision = "include" => item[i].class \in {"media", "sidecar"} /\ Hashed(item[i])

Row(i) == [obs |-> item[i].obs, decision |-> item[i].decision, by |-> item[i].by,
           hash |-> item[i].hash, ok |-> Eligible(i)]
Snapshot == [i \in Here |-> Row(i)]

\* A preview once made stands until another is asked for, whatever a scan made of its file.
ReviewReady ==
    /\ batch.status \in {"awaiting_review", "failed", "cancelled", "complete"} /\ batch.whole
    /\ \A i \in Here : item[i].decision = "include" /\ item[i].class = "media" => item[i].shown

RequestPreflight ==
    /\ Ask("preflight") /\ jobs' = Enqueued("preflight", 0)
    /\ UNCHANGED <<Rest, item, batch, approval, worker>>

Preflight(w) ==
    LET j == worker[w].job
    IN /\ At(w, "preflight")
       /\ jobs' = IF ReviewReady /\ Decided
                  THEN [jobs EXCEPT ![j].status = "completed", ![j].seen = batch.rev]
                  ELSE Put(j, "failed")
       /\ Go(w, Idle)
       /\ UNCHANGED <<Rest, item, batch, approval, budget>>

Superseded(a) == IF a.status \in {"approved", "authorized"} THEN [a EXCEPT !.status = "invalidated"] ELSE a

\* A mistake: what was copied once is taken as done.
BugKeepsCopied(i, id) ==
    [item[i] EXCEPT !.under = id,
        !.copy = IF @ = "verified" THEN @ ELSE IF Eligible(i) THEN "approved" ELSE "excluded"]

\* What was copied before is to be approved, and copied, again.
Reset(i, id) ==
    [item[i] EXCEPT !.under = id,
        !.copy = IF Eligible(i) THEN "approved"
                 ELSE IF item[i].decision = "exclude" THEN "excluded" ELSE "skipped"]

Approve ==
    LET id == Len(approval) + 1
    IN /\ Ask("approve")
       /\ \E p \in Of("preflight") : jobs[p].status = "completed" /\ jobs[p].seen = batch.rev
       /\ ReviewReady /\ Decided
       /\ approval' = Append([a \in DOMAIN approval |-> Superseded(approval[a])],
                             [status |-> "approved", rev |-> batch.rev, rows |-> Snapshot])
       /\ item' = [i \in Item |-> IF i \in Here THEN Reset(i, id) ELSE item[i]]
       /\ batch' = [batch EXCEPT !.active = id, !.job = 0]
       /\ UNCHANGED <<Rest, jobs, worker>>

\* An approval has one execution, whatever has become of it.
RequestExecute ==
    /\ Ask("execute")
    /\ \E a \in DOMAIN approval :
         /\ ~\E j \in Of("execute") : jobs[j].of = a
         /\ jobs' = Enqueued("execute", a)
    /\ UNCHANGED <<Rest, item, batch, approval, worker>>

StillApproved(a) ==
    /\ approval[a].status \in {"approved", "authorized"}
    /\ batch.active = a /\ batch.rev = approval[a].rev
    /\ Decided /\ Snapshot = approval[a].rows

Authorize(w) ==
    LET j == worker[w].job
        a == jobs[j].of
    IN /\ At(w, "execute")
       /\ IF StillApproved(a)
          THEN /\ jobs' = Append(jobs, Job("copy", a))
               /\ approval' = [approval EXCEPT ![a].status = "authorized"]
               /\ batch' = [batch EXCEPT !.job = Len(jobs) + 1]
               /\ Goto(w, "authorized")
          ELSE /\ jobs' = Put(j, "failed") /\ Go(w, Idle)
               /\ UNCHANGED <<approval, batch>>
       /\ UNCHANGED <<Rest, item, budget>>

EndAuthorize(w) ==
    /\ At(w, "authorized")
    /\ jobs' = Put(worker[w].job, "completed") /\ Go(w, Idle)
    /\ UNCHANGED <<Rest, item, batch, approval, budget>>

-----------------------------------------------------------------------------
(* The copy job: claims, leases, controls. *)

Running == {j \in Of("copy") : jobs[j].status = "running"}

\* A lease that ran out is taken back by the next claim of any copy, the control kept.
Recovered(j) ==
    [j EXCEPT !.status = IF j.attempt < MaxAttempts /\ j.control # "cancel_requested" THEN "queued" ELSE "failed"]

Claimable(j) == j.status = "queued" /\ j.control = "run" /\ j.attempt < MaxAttempts

Claim(w) ==
    LET j == worker[w].job
    IN /\ At(w, "picked") /\ jobs[j].kind = "copy"
       /\ IF holder # None
          THEN Go(w, Idle) /\ UNCHANGED <<jobs, batch, holder>>
          ELSE \E late \in SUBSET Running :
                 LET js == [k \in DOMAIN jobs |-> IF k \in late THEN Recovered(jobs[k]) ELSE jobs[k]]
                 IN /\ batch' = IF late = {} THEN batch ELSE [batch EXCEPT !.status = "interrupted"]
                    /\ IF Claimable(js[j])
                       THEN /\ jobs' = [js EXCEPT ![j].status = "running", ![j].attempt = @ + 1]
                            /\ Goto(w, "claimed") /\ holder' = w
                       ELSE /\ jobs' = js
                            /\ Go(w, Idle) /\ UNCHANGED holder
       /\ UNCHANGED <<file, item, store, asset, approval, budget>>

\* A superseded approval is refused, and its job left as it is.
CheckClaim(w) ==
    /\ At(w, "claimed")
    /\ IF batch.active = jobs[worker[w].job].of
       THEN Goto(w, "checked") /\ UNCHANGED holder
       ELSE Go(w, Idle) /\ holder' = None
    /\ UNCHANGED <<file, item, batch, jobs, store, asset, approval, budget>>

StartCopy(w) ==
    LET a == jobs[worker[w].job].of
    IN /\ At(w, "checked")
       /\ batch' = [batch EXCEPT !.status = "copying"]
       /\ approval' = [approval EXCEPT ![a].status = "consumed"]
       /\ worker' = [worker EXCEPT ![w].at = "copy",
                         ![w].todo = {i \in DOMAIN approval[a].rows : approval[a].rows[i].ok}]
       /\ UNCHANGED <<Rest, item, jobs, budget>>

Copying(w) == worker[w].at \in {"copy", "started", "placed", "fetched", "published", "verify"}

\* A mistake: the lock is kept.
BugHoldsOn(w, status, control, shown) ==
    /\ jobs' = [jobs EXCEPT ![worker[w].job] = [@ EXCEPT !.status = status, !.control = control]]
    /\ batch' = [batch EXCEPT !.status = shown]
    /\ Go(w, Idle)
    /\ UNCHANGED <<file, item, store, asset, approval, holder, budget>>

\* Where a copy ends: its job and its batch put down, the lock let go.
EndCopy(w, status, control, shown) ==
    /\ jobs' = [jobs EXCEPT ![worker[w].job] = [@ EXCEPT !.status = status, !.control = control]]
    /\ batch' = [batch EXCEPT !.status = shown]
    /\ Go(w, Idle) /\ holder' = None
    /\ UNCHANGED <<file, item, store, asset, approval, budget>>

Told(w, control) == jobs[worker[w].job].control = control
Boundary(w) == ~Told(w, "pause_requested") /\ ~Told(w, "cancel_requested")

\* A pause or a cancel is heeded before an item, once its bytes are read and before
\* its publication; what is asked for after that is overruled.
Stopped(w) == worker' = [worker EXCEPT ![w].at = IF Told(w, "pause_requested") THEN "pausing" ELSE "cancelling"]

Heed(w) ==
    \/ At(w, "copy") /\ worker[w].todo # {} /\ ~Boundary(w) /\ Stopped(w) /\ UNCHANGED <<Rest, item, batch, jobs, approval, budget>>
    \/ At(w, "pausing") /\ EndCopy(w, "paused", "paused", "paused")
    \/ At(w, "cancelling") /\ EndCopy(w, "cancelled", "cancelled", "cancelled")

Interrupt(w) ==
    /\ Copying(w) /\ budget["fail"] > 0
    /\ jobs' = [jobs EXCEPT ![worker[w].job] = [@ EXCEPT !.status = "interrupted", !.control = "run"]]
    /\ batch' = [batch EXCEPT !.status = "interrupted"]
    /\ Go(w, Idle) /\ holder' = None
    /\ Spend("fail")
    /\ UNCHANGED <<file, item, store, asset, approval>>

CanControl == batch.job # 0
Controlled(status, control, shown) ==
    /\ jobs' = [jobs EXCEPT ![batch.job].status = status, ![batch.job].control = control]
    /\ batch' = [batch EXCEPT !.status = shown]
    /\ UNCHANGED <<Rest, item, approval, worker>>

Pause ==
    /\ CanControl /\ Spend("pause")
    /\ \/ /\ jobs[batch.job].status = "running" /\ Controlled("running", "pause_requested", batch.status)
       \/ /\ jobs[batch.job].status \in {"queued", "paused", "interrupted"}
          /\ Controlled("paused", "paused", "paused")

Resume ==
    /\ CanControl /\ Spend("resume")
    /\ jobs[batch.job].status = "paused" /\ Controlled("queued", "run", "interrupted")

Cancel ==
    /\ CanControl /\ Spend("cancel")
    /\ \/ /\ jobs[batch.job].status = "running" /\ Controlled("running", "cancel_requested", batch.status)
       \/ /\ jobs[batch.job].status \in {"queued", "paused", "interrupted", "failed"}
          /\ Controlled("cancelled", "cancelled", "cancelled")

-----------------------------------------------------------------------------
(* One item, one step between two commits. *)

Approved(w, i) == approval[jobs[worker[w].job].of].rows[i]
Next1(w) == worker[w].at = "copy" /\ worker[w].todo # {} /\ Boundary(w)
Go1(w, at, i, key) ==
    worker' = [worker EXCEPT ![w] = [@ EXCEPT !.at = at, !.item = i, !.key = key, !.row = item[i]]]
Past(w) ==
    worker' = [worker EXCEPT ![w].at = "copy", ![w].todo = @ \ {First(@)}, ![w].key = None, ![w].row = None]

SkipVerified(w) ==
    /\ Next1(w) /\ item[First(worker[w].todo)].copy = "verified"
    /\ Past(w) /\ UNCHANGED <<Rest, item, batch, jobs, approval, budget>>

\* A mistake: that the claimed approval is the item's is taken for granted.
BugAnyApproval(w, i) ==
    /\ Exists(i) /\ ~Changed(i) /\ Hashed(item[i])
    /\ Approved(w, i).obs = item[i].obs /\ Approved(w, i).decision = item[i].decision

\* Nothing is read of an item whose file, approval, observation or decision is not the approved
\* one, or that has no hashes.
Copyable(w, i) ==
    /\ Exists(i) /\ ~Changed(i) /\ Hashed(item[i])
    /\ item[i].under = jobs[worker[w].job].of
    /\ Approved(w, i).ok
    /\ Approved(w, i).obs = item[i].obs /\ Approved(w, i).decision = item[i].decision

Failed(w, i) ==
    /\ item' = [item EXCEPT ![i].copy = "failed"]
    /\ Past(w)

StartItem(w) ==
    LET i == First(worker[w].todo)
    IN /\ Next1(w) /\ item[i].copy # "verified"
       /\ IF Copyable(w, i)
          THEN /\ item' = [item EXCEPT ![i].copy = "copying"]
               /\ Go1(w, "started", i, None)
          ELSE Failed(w, i)
       /\ UNCHANGED <<Rest, batch, jobs, approval, budget>>

\* Bytes to compare a file with: the verified object, or another file the asset came from.
Others(k, i) == {j \in Item \ {i} : item[j].source = k /\ Exists(j)}
Representative(k, i) ==
    IF asset[k] = "verified" /\ store[k] # None THEN store[k]
    ELSE IF Others(k, i) # {} THEN file[First(Others(k, i))].bytes ELSE None

\* The asset of the first equal bytes; or the one nothing can be compared with;
\* or one told apart by the bytes the file has by now.
AssetOf(i, r) ==
    LET known == {k \in Key : k[1] = r.hash /\ asset[k] # None}
        same == {k \in known : Representative(k, i) = file[i].bytes}
        differ == r.match = "collision" \/ \E k \in known : Representative(k, i) # None
    IN IF same # {} THEN {IF Plain(r.hash) \in same THEN Plain(r.hash) ELSE CHOOSE k \in same : TRUE}
       ELSE IF differ THEN {<<r.hash, file[i].bytes>>}
       ELSE IF known # {} THEN {IF Plain(r.hash) \in known THEN Plain(r.hash) ELSE CHOOSE k \in known : TRUE}
       ELSE {Plain(r.hash)}

\* A file is a source of the asset it was first copied as, whatever it is copied as next.
Place(w) ==
    LET i == worker[w].item
    IN /\ At(w, "started")
       /\ IF Exists(i)
          THEN \E k \in AssetOf(i, worker[w].row) :
                 /\ asset' = [asset EXCEPT ![k] = IF @ = None THEN "missing" ELSE @]
                 /\ item' = [item EXCEPT ![i].source = IF @ = None THEN k ELSE @]
                 /\ worker' = [worker EXCEPT ![w].at = "placed", ![w].key = k]
          ELSE Failed(w, i) /\ UNCHANGED asset
       /\ UNCHANGED <<file, batch, jobs, store, approval, holder, budget>>

\* An object that is there is compared, never overwritten.
Reuse(w) ==
    LET i == worker[w].item
        k == worker[w].key
    IN /\ At(w, "placed") /\ store[k] # None
       /\ IF store[k] = worker[w].row.hash /\ file[i].bytes = store[k]
          THEN Goto(w, "published") /\ UNCHANGED <<item, asset>>
          ELSE asset' = [asset EXCEPT ![k] = "conflict"] /\ Failed(w, i)
       /\ UNCHANGED <<file, batch, jobs, store, approval, holder, budget>>

\* The bytes are read into a partial file and hashed, and the file looked at again.
Fetched(w) == file[worker[w].item].bytes = worker[w].row.hash /\ file[worker[w].item].stamp = worker[w].row.seen

Fetch(w) ==
    LET i == worker[w].item
    IN /\ At(w, "placed") /\ store[worker[w].key] = None
       /\ IF Exists(i) /\ ~Boundary(w) THEN Stopped(w) /\ UNCHANGED item
          ELSE IF Exists(i) /\ Fetched(w) THEN Goto(w, "fetched") /\ UNCHANGED item
          ELSE Failed(w, i)
       /\ UNCHANGED <<Rest, batch, jobs, approval, budget>>

\* The partial file is compared with the file and linked to its final name.
Publish(w) ==
    LET i == worker[w].item
        k == worker[w].key
        c == worker[w].row.hash
    IN /\ At(w, "fetched")
       /\ IF file[i].bytes = c /\ ~Boundary(w) THEN Stopped(w) /\ UNCHANGED <<item, store>>
          ELSE IF file[i].bytes = c /\ store[k] \in {None, c}
          THEN store' = [store EXCEPT ![k] = c] /\ Goto(w, "published") /\ UNCHANGED item
          ELSE Failed(w, i) /\ UNCHANGED store
       /\ UNCHANGED <<file, batch, jobs, asset, approval, holder, budget>>

Book(w) ==
    /\ At(w, "published")
    /\ asset' = [asset EXCEPT ![worker[w].key] = "verified"]
    /\ item' = [item EXCEPT ![worker[w].item].copy = "verified"]
    /\ Past(w)
    /\ UNCHANGED <<file, batch, jobs, store, approval, holder, budget>>

\* Any other error on the way costs the item, not the copy.
FailItem(w) ==
    /\ worker[w].at \in {"started", "placed", "fetched", "published"} /\ Spend("slip")
    /\ Failed(w, worker[w].item)
    /\ UNCHANGED <<Rest, batch, jobs, approval>>

VerifyCopy(w) ==
    /\ At(w, "copy") /\ worker[w].todo = {}
    /\ batch' = [batch EXCEPT !.status = "verifying"]
    /\ Goto(w, "verify")
    /\ UNCHANGED <<Rest, item, jobs, approval, budget>>

\* Failures count among the items still in the manifest.
FailedItems == {i \in Here : item[i].copy = "failed"}
FinishCopy(w) ==
    /\ At(w, "verify")
    /\ IF FailedItems = {} THEN EndCopy(w, "completed", "run", "complete")
                           ELSE EndCopy(w, "failed", "run", "failed")

-----------------------------------------------------------------------------
(* The system. *)

Wake(w) == At(w, "down") /\ Spend("wake") /\ Go(w, Idle) /\ UNCHANGED <<Rest, item, batch, jobs, approval>>

\* The lock of a dead worker is taken over by whoever asks next.
Kill(w) ==
    /\ ~At(w, "down") /\ Spend("kill") /\ Go(w, Down)
    /\ holder' = IF holder = w THEN None ELSE holder
    /\ UNCHANGED <<file, item, batch, jobs, store, asset, approval>>

Copy(w) ==
    \/ Claim(w) \/ CheckClaim(w) \/ StartCopy(w) \/ Heed(w)
    \/ SkipVerified(w) \/ StartItem(w) \/ Place(w) \/ Reuse(w) \/ Fetch(w) \/ Publish(w) \/ Book(w)
    \/ VerifyCopy(w) \/ FinishCopy(w)

Work(w) ==
    \/ (NextJob(w) \/ MarkRunning(w) \/ Scan(w)) /\ UNCHANGED approval
    \/ Preflight(w) \/ Authorize(w) \/ EndAuthorize(w)
    \/ Copy(w)

Request ==
    \/ (RequestScan \/ Decide \/ Edit) /\ UNCHANGED approval
    \/ RequestPreflight \/ Approve \/ RequestExecute
    \/ Pause \/ Resume \/ Cancel

Init ==
    \E world \in Worlds :
        /\ file = [i \in Item |-> [bytes |-> world.files[i], stamp |-> 1]]
        /\ store = [k \in Key |-> IF k \in DOMAIN world.foreign THEN world.foreign[k] ELSE None]
        /\ worker = [w \in Worker |-> IF w \in world.up THEN Idle ELSE Down]
        /\ budget = world.budget
        /\ item = [i \in Item |-> Unseen] /\ asset = [k \in Key |-> None]
        /\ batch = [status |-> "discovered", rev |-> 0, whole |-> FALSE, active |-> 0, job |-> 0]
        /\ jobs = <<>> /\ approval = <<>> /\ holder = None

Next ==
    \/ \E w \in Worker : Work(w) \/ (FailScan(w) /\ UNCHANGED approval) \/ Interrupt(w) \/ FailItem(w)
                         \/ Wake(w) \/ Kill(w)
    \/ Request

Spec == Init /\ [][Next]_vars /\ \A w \in Worker : WF_vars(Work(w))

-----------------------------------------------------------------------------
(* What the copy promises. *)

\* What is approved is told by its observation. An item approved when a scan that failed
\* had left it none is bound to no bytes: another such scan, and others pass for them.
Bound(r) == r.obs # None

\* What a running job of the active approval is copying, as it was approved.
Backed(c) ==
    /\ batch.job # 0 /\ jobs[batch.job].of = batch.active /\ jobs[batch.job].status = "running"
    /\ \E i \in DOMAIN approval[batch.active].rows :
         LET r == approval[batch.active].rows[i]
         IN r.ok /\ (Bound(r) => r.hash = c) /\ item[i].copy = "copying" /\ item[i].under = batch.active

\* Nothing is published over anything, and only the bytes an item had when it was
\* approved, by the job of the approval in force, through edits, rescans, newer
\* approvals and deaths (_copy_item, run_claim).
PublishedAsApproved ==
    [][\A k \in Key : store'[k] # store[k] => store[k] = None /\ store'[k] = k[1] /\ Backed(store'[k])]_vars

\* The vault has the bytes approved for item i, in an object once put down as good; it
\* is in conflict from when another file of the asset changed as it was compared.
Kept(a, i) ==
    LET r == approval[a].rows[i]
    IN Bound(r) => \E k \in Key : k[1] = r.hash /\ store[k] = k[1] /\ asset[k] \in {"verified", "conflict"}

\* A batch shown complete has every approved item that is still in its manifest in the
\* vault with the approved bytes; and so has every item shown as verified meanwhile
\* (_reconcile, run_claim, approve_batch).
CompleteMeansKept ==
    /\ batch.status = "complete" /\ batch.job # 0 /\ jobs[batch.job].status = "completed" =>
         \A i \in Here : LET a == jobs[batch.job].of
                         IN i \in DOMAIN approval[a].rows /\ approval[a].rows[i].ok =>
                               item[i].copy = "verified" /\ Kept(a, i)
    /\ \A i \in Item : item[i].copy = "verified" => Kept(item[i].under, i)

\* How a job may never end: nobody runs, its worker died or turned it down, its pause was
\* asked for as its lease ran out, or a copy nobody may claim any more is before it.
Stranded(j) ==
    \/ \A w \in Worker : At(w, "down")
    \/ jobs[j].status = "running" /\ \A w \in Worker : worker[w].job # j
    \/ jobs[j].status = "queued" /\ jobs[j].control # "run"
    \/ jobs[j].status = "queued" /\ \E k \in Of("copy") : k \in Waiting /\ jobs[k].attempt = MaxAttempts

\* Every job asked for ends, unless it is stranded in one of these ways
\* (run_worker_loop, run_claim, run_stage6_job).
JobsEnd == []<>(\A j \in DOMAIN jobs : jobs[j].status \in {"queued", "running"} => Stranded(j))
=============================================================================
