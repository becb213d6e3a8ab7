----------------------------- MODULE VaultInbox -----------------------------
(***************************************************************************)
(* The inbox of MediaVault (archive/v1) and its manifest: the scan that    *)
(* writes down what lies in a batch's directory, classifies, hashes and    *)
(* matches it, and the decisions a reviewer makes meanwhile and after.     *)
(* People edit and remove the files at any time.                           *)
(*                                                                         *)
(* One batch, one directory. Contents that hash alike are the same. The    *)
(* previews a scan of the whole inbox asks for are taken as made when it   *)
(* ends, and free space as enough.                                         *)
(***************************************************************************)
EXTENDS Naturals, Sequences, FiniteSets

CONSTANTS
    Worker, None,   \* the worker processes, and nobody or nothing
    Item, Content,  \* the files of the batch, 1..n, and what they can hold
    SidecarOf,      \* whose sidecar an item is by its name, or 0
    MaxAttempts     \* attempts before a job is given up (3)

ASSUME InboxAssumption ==
    /\ IsFiniteSet(Item) /\ Item = 1..Cardinality(Item) /\ SidecarOf \in [Item -> Item \union {0}]
    /\ None \notin Worker \union Content \union {"missing", "conflict", "verified"} /\ MaxAttempts \in Nat \ {0}
    /\ {None, "pending", "error", "none"} \intersect Content = {}

VARIABLES
    file,       \* the inbox: what each file holds, None when gone, and its stamp
    item,       \* the manifest's row of each file
    batch,      \* the batch's row
    jobs,       \* the ledger, in the order the jobs were made
    store,      \* the objects at their final names
    asset,      \* object_status of each asset, None where it has no row
    worker,     \* each worker: where it is and what it has read
    holder,     \* who holds the vault's writer lock
    budget      \* bounds: the requests and faults a behaviour has left

Spend(what) == budget[what] > 0 /\ budget' = [budget EXCEPT ![what] = @ - 1]

-----------------------------------------------------------------------------
(* The ledger. A job is of an approval, or, a scan, of all or of what has  *)
(* changed; a preflight leaves the revision it saw.                        *)

AllFiles == 0
OnlyChanged == 1

Job(kind, of) == [kind |-> kind, of |-> of, status |-> "queued", control |-> "run", attempt |-> 0, seen |-> None]
Enqueued(kind, of) == Append(jobs, Job(kind, of))
Of(kind) == {j \in DOMAIN jobs : jobs[j].kind = kind}
Put(j, status) == [jobs EXCEPT ![j].status = status]

Priority == [copy |-> 100, execute |-> 95, scan |-> 90, preflight |-> 80]

Down == [at |-> "down", job |-> 0, todo |-> {}, item |-> 0, row |-> None, key |-> None]
Idle == [Down EXCEPT !.at = "idle"]
At(w, at) == worker[w].at = at
Goto(w, at) == worker' = [worker EXCEPT ![w].at = at]
Go(w, state) == worker' = [worker EXCEPT ![w] = state]
First(S) == CHOOSE i \in S : \A k \in S : i <= k

Waiting == {j \in DOMAIN jobs : jobs[j].status = "queued" /\ jobs[j].control = "run"}
NextJob(w) ==
    /\ At(w, "idle")
    /\ \E j \in Waiting :
         /\ \A k \in Waiting : \/ Priority[jobs[j].kind] > Priority[jobs[k].kind]
                               \/ Priority[jobs[j].kind] = Priority[jobs[k].kind] /\ j <= k
         /\ Go(w, [Idle EXCEPT !.at = "picked", !.job = j])
    /\ UNCHANGED <<file, item, batch, jobs, store, asset, holder, budget>>

\* A job of stage 6 is marked running without the lock, and left where another has it.
MarkRunning(w) ==
    LET j == worker[w].job
    IN /\ At(w, "picked") /\ jobs[j].kind # "copy"
       /\ IF jobs[j].status \in {"queued", "failed", "interrupted"} /\ jobs[j].control = "run"
          THEN /\ jobs' = [jobs EXCEPT ![j].status = "running", ![j].attempt = @ + 1]
               /\ Goto(w, jobs[j].kind)
          ELSE Go(w, Idle) /\ UNCHANGED jobs
       /\ UNCHANGED <<file, item, batch, store, asset, holder, budget>>

\* A patient reviewer asks for the next thing when the workers have nothing left to do.
Ask(what) ==
    /\ Spend(what)
    /\ budget.patient => Waiting = {} /\ \A w \in Worker : worker[w].at \in {"idle", "down"}

-----------------------------------------------------------------------------
(* What the manifest says of a file. *)

Unseen == [here |-> FALSE, seen |-> 0, class |-> "pending", hash |-> "pending", match |-> "pending", obs |-> None,
           decision |-> "pending", by |-> 0, shown |-> FALSE, copy |-> "none", under |-> 0, source |-> None]
Here == {i \in Item : item[i].here}
Exists(i) == file[i].bytes # None
Hashed(r) == r.hash \in Content

Changed(i) == file[i].stamp # item[i].seen

\* A file found is looked at again unless it may be taken as it was; a
\* decision somebody made is kept.
Found(i, reuse) ==
    LET r == item[i]
        settled == r.hash \notin {"pending", "error"} /\ r.match # "pending"
        kept == [r EXCEPT !.here = TRUE, !.seen = file[i].stamp]
    IN IF reuse /\ settled /\ ~Changed(i) THEN kept
       ELSE [kept EXCEPT !.obs = None, !.class = "pending", !.hash = "pending", !.match = "pending",
                         !.decision = IF r.by > 0 THEN @ ELSE "pending"]

Classified(r, class, proposed) ==
    [r EXCEPT !.class = class, !.decision = IF r.by > 0 THEN @ ELSE proposed]

\* A hash counts only if the file was not touched meanwhile.
HashOf(i) == IF Exists(i) /\ ~Changed(i) THEN file[i].bytes ELSE "error"

\* A match is checked byte by byte with the file as it is now.
Matches(i, hashed) ==
    LET c == hashed[i].hash
        known == {k \in DOMAIN asset : k[1] = c /\ asset[k] # None}
        earlier == {k \in Item : k < i /\ hashed[k].here /\ hashed[k].hash = c}
        one == CHOOSE k \in known : TRUE
    IN IF known # {}
       THEN IF asset[one] = "verified" /\ ~(store[one] \in {None, file[i].bytes}) THEN "collision" ELSE "exact"
       ELSE IF earlier # {}
       THEN IF Exists(First(earlier)) /\ file[First(earlier)].bytes # file[i].bytes
            THEN "collision" ELSE "duplicate"
       ELSE "new"

Matched(i, rows) ==
    CASE Hashed(rows[i]) -> Matches(i, rows)
      [] rows[i].hash = "error" -> "error"
      [] OTHER -> rows[i].match

\* The identity of an observation is all of what was seen.
Observation(r) == <<r.seen, r.class, r.hash, r.match>>
Rolled(b) == [b EXCEPT !.rev = @ + 1]

-----------------------------------------------------------------------------
(* The scan, one commit at a time. *)

\* It takes every running job of the batch for one that a scan left behind.
Retaken == [j \in DOMAIN jobs |->
                IF jobs[j].kind \in {"copy", "preflight"} /\ jobs[j].status = "running"
                THEN [jobs[j] EXCEPT !.status = "interrupted"] ELSE jobs[j]]

StartScan(w) ==
    /\ At(w, "scan")
    /\ IF holder # None
       THEN jobs' = Put(worker[w].job, "failed") /\ Go(w, Idle) /\ UNCHANGED <<holder, batch>>
       ELSE /\ holder' = w /\ jobs' = Retaken
            /\ batch' = [batch EXCEPT !.status = "discovering", !.whole = FALSE]
            /\ Goto(w, "discover")
    /\ UNCHANGED <<file, item, store, asset, budget>>

\* Items no longer there leave the manifest only if all of the tree was read.
Discover(w) ==
    LET reuse == jobs[worker[w].job].of = OnlyChanged
    IN /\ At(w, "discover")
       /\ \E unread \in SUBSET {i \in Item : Exists(i)} :
            LET found == {i \in Item : Exists(i)} \ unread
                rows == [i \in Item |-> IF i \in found THEN Found(i, reuse) ELSE item[i]]
            IN /\ IF unread = {} THEN UNCHANGED budget ELSE Spend("unread")
               /\ item' = [i \in Item |-> IF unread = {} /\ i \notin found
                                          THEN [rows[i] EXCEPT !.here = FALSE] ELSE rows[i]]
               /\ batch' = [batch EXCEPT !.status = "hashing", !.whole = (unread = {})]
               /\ worker' = [worker EXCEPT ![w].at = "hash",
                                           ![w].todo = {i \in found : rows[i].class = "pending"}]
       /\ UNCHANGED <<file, jobs, store, asset, holder>>

\* The row is read; its class, the decision it then had and the hash are written.
ReadItem(w) ==
    LET i == First(worker[w].todo)
    IN /\ At(w, "hash") /\ worker[w].todo # {}
       /\ worker' = [worker EXCEPT ![w].at = "classify", ![w].item = i, ![w].row = item[i]]
       /\ UNCHANGED <<file, item, batch, jobs, store, asset, holder, budget>>

HashItem(w) ==
    LET i == worker[w].item
        r == IF SidecarOf[i] = 0
             THEN [Classified(worker[w].row, "media", "include") EXCEPT !.hash = HashOf(i)]
             ELSE [Classified(worker[w].row, "non_media", "exclude") EXCEPT !.hash = "none", !.match = "none"]
    IN /\ At(w, "classify")
       /\ item' = [item EXCEPT ![i] = [@ EXCEPT !.class = r.class, !.decision = r.decision,
                                                !.hash = r.hash, !.match = r.match]]
       /\ worker' = [worker EXCEPT ![w].at = "hash", ![w].todo = @ \ {i}]
       /\ UNCHANGED <<file, batch, jobs, store, asset, holder, budget>>

\* A sidecar counts, and is hashed, when the media it is named for is there.
Associate(w) ==
    LET sidecars == {i \in Here : /\ SidecarOf[i] \in Here /\ item[i].class = "non_media"
                                  /\ item[SidecarOf[i]].class = "media"}
    IN /\ At(w, "hash") /\ worker[w].todo = {}
       /\ item' = [i \in Item |->
              IF i \in sidecars THEN [Classified(item[i], "sidecar", "include") EXCEPT !.hash = HashOf(i)]
              ELSE item[i]]
       /\ batch' = [batch EXCEPT !.status = "matching"]
       /\ Goto(w, "match")
       /\ UNCHANGED <<file, jobs, store, asset, holder, budget>>

Match(w) ==
    /\ At(w, "match")
    /\ item' = [i \in Item |->
           IF i \notin Here THEN item[i]
           ELSE LET r == [item[i] EXCEPT !.match = Matched(i, item)]
                IN [r EXCEPT !.obs = Observation(r)]]
    /\ Goto(w, "settle")
    /\ UNCHANGED <<file, batch, jobs, store, asset, holder, budget>>

\* Previews are made of the media that is to be included, once all of it was found.
Shown(r) == batch.whole /\ r.here /\ r.decision = "include" /\ r.class = "media" /\ Hashed(r)

EndScan(w) ==
    /\ At(w, "settle")
    /\ item' = [i \in Item |-> [item[i] EXCEPT !.shown = @ \/ Shown(item[i])]]
    /\ batch' = [Rolled(batch) EXCEPT !.status = "awaiting_review"]
    /\ jobs' = Put(worker[w].job, "completed")
    /\ Go(w, Idle) /\ holder' = None
    /\ UNCHANGED <<file, store, asset, budget>>

Scanning(w) == worker[w].at \in {"discover", "hash", "classify", "match", "settle"}
FailScan(w) ==
    /\ Scanning(w) /\ Spend("fail")
    /\ batch' = [batch EXCEPT !.status = "failed"]
    /\ jobs' = Put(worker[w].job, "failed")
    /\ Go(w, Idle) /\ holder' = None
    /\ UNCHANGED <<file, item, store, asset>>

-----------------------------------------------------------------------------
(* The reviewer, and the people who own the inbox. *)

RequestScan ==
    /\ \/ Ask("all") /\ jobs' = Enqueued("scan", AllFiles)
       \/ Ask("reuse") /\ jobs' = Enqueued("scan", OnlyChanged)
    /\ UNCHANGED <<file, item, batch, store, asset, worker, holder>>

\* A decision already made is no change; several in one request commit one by one.
Decide ==
    /\ Spend("decide")
    /\ \E i \in Here, d \in {"include", "exclude"} :
         /\ d = "include" => item[i].class \in {"media", "sidecar"}
         /\ ~(item[i].by > 0 /\ item[i].decision = d)
         /\ item' = [item EXCEPT ![i].decision = d, ![i].by = @ + 1]
    /\ batch' = Rolled(batch)
    /\ UNCHANGED <<file, jobs, store, asset, worker, holder>>

Edit ==
    /\ Spend("edit")
    /\ \E i \in Item, c \in Content \union {None} :
         /\ c # file[i].bytes
         /\ file' = [file EXCEPT ![i] = [bytes |-> c, stamp |-> @.stamp + 1]]
    /\ UNCHANGED <<item, batch, jobs, store, asset, worker, holder>>

Scan(w) == StartScan(w) \/ Discover(w) \/ ReadItem(w) \/ HashItem(w) \/ Associate(w) \/ Match(w) \/ EndScan(w)
=============================================================================
