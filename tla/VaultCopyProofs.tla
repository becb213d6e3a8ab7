-------------------------- MODULE VaultCopyProofs --------------------------
(***************************************************************************)
(* What VaultCopy promises of every inbox, every vault and any number of   *)
(* workers, proved: what is published is what was approved, and what is    *)
(* shown as complete is kept. The invariant they rest on says who holds    *)
(* the writer lock, which job copies for the approval in force, and what   *)
(* the manifest's rows know of their files.                                *)
(***************************************************************************)
EXTENDS VaultCopy, SequenceTheorems, FiniteSetTheorems, TLAPS

ScanPlaces == {"discover", "hash", "classify", "match", "settle"}
ItemPlaces == {"started", "placed", "fetched", "published"}
CopyPlaces == {"copy", "verify", "pausing", "cancelling"} \union ItemPlaces
ClaimPlaces == {"claimed", "checked"} \union CopyPlaces
Places == {"down", "idle", "picked", "scan", "preflight", "execute", "authorized"}
              \union ScanPlaces \union ClaimPlaces

Class == {"pending", "media", "non_media", "sidecar"}
MatchOutcome == {"pending", "none", "error", "exact", "duplicate", "collision", "new"}
Decision == {"pending", "include", "exclude"}
CopyStatus == {"none", "approved", "excluded", "skipped", "copying", "verified", "failed"}
JobKind == {"scan", "preflight", "execute", "copy"}
JobStatus == {"queued", "running", "completed", "failed", "interrupted", "paused", "cancelled"}
Control == {"run", "pause_requested", "cancel_requested", "paused", "cancelled"}
ApprovalStatus == {"approved", "authorized", "invalidated", "consumed"}
BatchStatus == {"discovered", "discovering", "hashing", "matching", "awaiting_review", "copying", "verifying",
                "complete", "failed", "interrupted", "paused", "cancelled"}
Hashes == Content \union {"pending", "error", "none"}
Observations == {None} \union (Nat \X Class \X Hashes \X MatchOutcome)

FileRow == [bytes : Content \union {None}, stamp : Nat]
ItemRow == [here : BOOLEAN, seen : Nat, class : Class, hash : Hashes, match : MatchOutcome, obs : Observations,
            decision : Decision, by : Nat, shown : BOOLEAN, copy : CopyStatus, under : Nat,
            source : Key \union {None}]
BatchRow == [status : BatchStatus, rev : Nat, whole : BOOLEAN, active : Nat, job : Nat]
JobRow == [kind : JobKind, of : Nat, status : JobStatus, control : Control, attempt : Nat,
           seen : Nat \union {None}]
ApprovedRow == [obs : Observations, decision : Decision, by : Nat, hash : Hashes, ok : BOOLEAN]
Approval == [status : ApprovalStatus, rev : Nat, rows : UNION {[S -> ApprovedRow] : S \in SUBSET Item}]
WorkerRow == [at : Places, job : Nat, todo : SUBSET Item, item : Nat, row : ItemRow \union {None},
              key : Key \union {None}]

TypeOK ==
    /\ file \in [Item -> FileRow]
    /\ item \in [Item -> ItemRow]
    /\ batch \in BatchRow
    /\ jobs \in Seq(JobRow)
    /\ store \in [Key -> Content \union {None}]
    /\ asset \in [Key -> {None, "missing", "conflict", "verified"}]
    /\ approval \in Seq(Approval)
    /\ worker \in [Worker -> WorkerRow]

\* What a worker has in hand while it classifies or copies an item.
Carrying ==
    \A w \in Worker :
        /\ worker[w].at \in {"classify"} \union ItemPlaces => worker[w].item \in Item /\ worker[w].row \in ItemRow
        /\ worker[w].at \in ItemPlaces \ {"started"} => worker[w].key \in Key

\* Who reads the inbox for the manifest or copies holds the writer lock.
Locks == ScanPlaces \union ClaimPlaces
LockHeld == \A w \in Worker : worker[w].at \in Locks => holder = w

\* A worker is where the kind of its job sends it, and a job that is claimed is running.
JobFits(w) ==
    LET at == worker[w].at
        j == worker[w].job
    IN at \notin {"down", "idle"} =>
         /\ j \in DOMAIN jobs
         /\ at \in {"scan"} \union ScanPlaces => jobs[j].kind = "scan"
         /\ at = "preflight" => jobs[j].kind = "preflight"
         /\ at \in {"execute", "authorized"} => jobs[j].kind = "execute" /\ jobs[j].status = "running"
         /\ at \in ClaimPlaces => jobs[j].kind = "copy" /\ jobs[j].status = "running"

JobsHeld == \A w \in Worker : JobFits(w)

\* An approval is executed once: where there is a copy of it, its execution is over.
Executing == {"execute", "authorized"}
ExecutedOnce ==
    /\ \A e, f \in Of("execute") : jobs[e].of = jobs[f].of => e = f
    /\ \A v, w \in Worker : worker[v].at \in Executing /\ worker[w].at \in Executing
                               /\ worker[v].job = worker[w].job => v = w
    /\ \A j \in Of("copy") : \E e \in Of("execute") : jobs[e].of = jobs[j].of
    /\ \A j \in Of("copy"), e \in Of("execute") : jobs[j].of = jobs[e].of =>
         /\ jobs[e].status \in {"running", "completed"}
         /\ \A w \in Worker : At(w, "execute") => worker[w].job # e

\* The batch's job is the one copy of the approval in force.
CopiedOnce ==
    /\ batch.active \in 0..Len(approval)
    /\ \A j \in Of("copy") \union Of("execute") : jobs[j].of \in DOMAIN approval
    /\ batch.job # 0 => batch.job \in Of("copy") /\ jobs[batch.job].of = batch.active
    /\ \A j \in Of("copy") : jobs[j].of = batch.active => j = batch.job

JobsInv == LockHeld /\ JobsHeld /\ ExecutedOnce /\ CopiedOnce

\* A hash is of the bytes at the stamp seen, and a row is out of the manifest only while
\* its file is gone or has changed.
SeenTruly ==
    \A i \in Item :
        /\ item[i].seen <= file[i].stamp
        /\ item[i].seen = file[i].stamp /\ item[i].hash \in Content => item[i].hash = file[i].bytes
        /\ item[i].obs # None => item[i].obs[1] = item[i].seen
        /\ ~item[i].here => ~Exists(i) \/ Changed(i)

\* The same of what was approved, by the observation it was approved upon.
ApprovedTruly ==
    \A a \in DOMAIN approval : \A i \in DOMAIN approval[a].rows :
        LET r == approval[a].rows[i]
        IN /\ r.ok => r.hash \in Content
           /\ Bound(r) => r.obs[1] <= file[i].stamp
           /\ Bound(r) /\ r.obs[1] = file[i].stamp /\ r.hash \in Content => r.hash = file[i].bytes

\* A row is under an approval that has it, and all that the one in force has is under it.
UnderApproval ==
    /\ \A i \in Item : item[i].under # 0 => item[i].under \in DOMAIN approval
                                            /\ i \in DOMAIN approval[item[i].under].rows
    /\ batch.active # 0 => \A i \in DOMAIN approval[batch.active].rows : item[i].under = batch.active

ManifestInv == SeenTruly /\ ApprovedTruly /\ UnderApproval

OfClaim(w) == jobs[worker[w].job].of
InForce(w) == batch.active = OfClaim(w)
ApprovedOf(w) == approval[OfClaim(w)].rows

\* An approval that was superseded under its claim has no item left to copy, and the job
\* of the newer one waits.
ClaimOutlived(w) ==
    worker[w].at \in {"checked"} \union CopyPlaces /\ ~InForce(w) =>
        /\ \A i \in Here : item[i].under # OfClaim(w)
        /\ batch.job # 0 => jobs[batch.job].status # "completed"

\* What is no longer to do has been done, or has failed.
DoneOrFailed(w) ==
    worker[w].at \in CopyPlaces =>
        /\ \A i \in worker[w].todo : i \in DOMAIN ApprovedOf(w) /\ ApprovedOf(w)[i].ok
        /\ worker[w].at = "verify" => worker[w].todo = {}
        /\ InForce(w) =>
             /\ batch.status \in {"copying", "verifying"}
             /\ \A i \in Here \ worker[w].todo :
                    i \in DOMAIN ApprovedOf(w) /\ ApprovedOf(w)[i].ok => item[i].copy \in {"verified", "failed"}

\* The item in hand is approved by the approval in force, with the hash it goes by.
InHand(w) ==
    LET i == worker[w].item
        r == worker[w].row
        k == worker[w].key
    IN worker[w].at \in ItemPlaces =>
         /\ InForce(w) /\ worker[w].todo # {} /\ i = First(worker[w].todo) /\ i \in worker[w].todo
         /\ item[i].copy = "copying" /\ item[i].under = batch.active
         /\ r.hash \in Content
         /\ Bound(ApprovedOf(w)[i]) => ApprovedOf(w)[i].hash = r.hash
         /\ worker[w].at # "started" => k[1] = r.hash
         /\ worker[w].at = "published" => store[k] = r.hash

NotYetComplete(w) == worker[w].at \in ScanPlaces \union CopyPlaces => batch.status # "complete"

ClaimOf(w) == ClaimOutlived(w) /\ DoneOrFailed(w) /\ InHand(w) /\ NotYetComplete(w)
ClaimInv == \A w \in Worker : ClaimOf(w)

VerifiedIsKept == \A i \in Item : item[i].copy = "verified" => item[i].under # 0 /\ Kept(item[i].under, i)

CompleteIsVerified ==
    batch.status = "complete" /\ batch.job # 0 /\ jobs[batch.job].status = "completed" =>
        \A i \in Here : LET a == batch.active
                        IN i \in DOMAIN approval[a].rows /\ approval[a].rows[i].ok => item[i].copy = "verified"

CopyInv == TypeOK /\ Carrying /\ JobsInv /\ ManifestInv /\ ClaimInv /\ VerifiedIsKept /\ CompleteIsVerified

-----------------------------------------------------------------------------
(* Least elements, sequences remade, the types.                            *)

LEMMA ItemIsNat == Item \subseteq Nat /\ 0 \notin Item
<1>1. Cardinality(Item) \in Nat
  BY InboxAssumption, FS_CardinalityType
<1> QED
  BY <1>1, InboxAssumption

LEMMA LeastExists ==
  ASSUME NEW S \in SUBSET Nat, S # {}
  PROVE  \E x \in S : \A y \in S : x <= y
<1> DEFINE below == {0..x : x \in S}
<1>1. below \subseteq FiniteSubsetsOf(Nat) /\ below # {}
  <2>1. \A x \in S : IsFiniteSet(0..x) /\ 0..x \in SUBSET Nat
    BY FS_Interval
  <2> QED
    BY <2>1 DEF FiniteSubsetsOf
<1>2. PICK t \in below : \A u \in below : <<u, t>> \notin StrictSubsetOrdering(Nat)
  <2> HIDE DEF below
  <2> QED
    BY <1>1, FS_StrictSubsetOrderingWellFounded, WFMin
<1>3. PICK x \in S : t = 0..x
  OBVIOUS
<1>4. ASSUME NEW y \in S, ~(x <= y)
      PROVE  FALSE
  <2>1. 0..y \subseteq 0..x /\ 0..y # 0..x
    <3>1. x \in 0..x /\ x \notin 0..y
      BY <1>4
    <3> QED
      BY <1>4, <3>1
  <2>2. <<0..y, 0..x>> \in StrictSubsetOrdering(Nat)
    BY <2>1 DEF StrictSubsetOrdering
  <2> QED
    BY <1>2, <1>3, <2>2
<1> QED
  BY <1>4

LEMMA FirstIsIn ==
  ASSUME NEW S \in SUBSET Item, S # {}
  PROVE  First(S) \in S
<1>1. \E x \in S : \A y \in S : x <= y
  BY ItemIsNat, LeastExists
<1> QED
  BY <1>1, ZenonT(30) DEF First

\* A sequence keeps its length when every element is made anew.
LEMMA Remade ==
  ASSUME NEW S, NEW s \in Seq(S), NEW f \in [DOMAIN s -> S]
  PROVE  f \in Seq(S) /\ Len(f) = Len(s) /\ DOMAIN f = DOMAIN s
<1>1. Len(s) \in Nat /\ DOMAIN s = 1..Len(s)
  BY LenProperties
<1>2. f \in Seq(S)
  BY <1>1, SeqDef
<1> QED
  BY <1>1, <1>2, LenProperties

JobsOfSameKind(js) == /\ js \in Seq(JobRow) /\ Len(js) = Len(jobs) /\ DOMAIN js = DOMAIN jobs
                      /\ \A k \in DOMAIN jobs : js[k].kind = jobs[k].kind /\ js[k].of = jobs[k].of

\* A job written keeps its kind and what it is of.
LEMMA JobsWritten ==
  ASSUME jobs \in Seq(JobRow), NEW f \in [DOMAIN jobs -> JobRow],
         \A k \in DOMAIN jobs : f[k].kind = jobs[k].kind /\ f[k].of = jobs[k].of
  PROVE  JobsOfSameKind(f)
BY Remade DEF JobsOfSameKind

LEMMA JobsTyped ==
  ASSUME jobs \in Seq(JobRow)
  PROVE  /\ jobs \in [DOMAIN jobs -> JobRow] /\ DOMAIN jobs = 1..Len(jobs) /\ Len(jobs) \in Nat
         /\ \A j \in DOMAIN jobs : jobs[j] \in JobRow
         /\ JobsOfSameKind(jobs)
<1>1. DOMAIN jobs = 1..Len(jobs) /\ Len(jobs) \in Nat
  BY LenProperties
<1>2. \A j \in DOMAIN jobs : jobs[j] \in JobRow
  BY <1>1, ElementOfSeq
<1>3. jobs \in [DOMAIN jobs -> JobRow]
  BY <1>1, <1>2, SeqDef
<1> QED
  BY <1>1, <1>2, <1>3 DEF JobsOfSameKind

LEMMA PutWrites ==
  ASSUME jobs \in Seq(JobRow), NEW j, NEW status \in JobStatus
  PROVE  JobsOfSameKind(Put(j, status))
<1>1. Put(j, status) \in [DOMAIN jobs -> JobRow]
  BY JobsTyped DEF Put, JobRow
<1>2. \A k \in DOMAIN jobs : Put(j, status)[k].kind = jobs[k].kind /\ Put(j, status)[k].of = jobs[k].of
  BY JobsTyped DEF Put, JobRow
<1> QED
  BY <1>1, <1>2, JobsWritten

LEMMA EnqueuedTyped ==
  ASSUME jobs \in Seq(JobRow), NEW kind \in JobKind, NEW of \in Nat
  PROVE  /\ Enqueued(kind, of) \in Seq(JobRow) /\ Len(Enqueued(kind, of)) = Len(jobs) + 1
         /\ DOMAIN Enqueued(kind, of) = 1..(Len(jobs) + 1)
         /\ \A k \in DOMAIN jobs : Enqueued(kind, of)[k] = jobs[k]
         /\ Enqueued(kind, of)[Len(jobs) + 1] = Job(kind, of)
<1>1. Job(kind, of) \in JobRow
  BY DEF Job, JobRow, JobKind, JobStatus, Control
<1> QED
  BY <1>1, AppendProperties, LenProperties DEF Enqueued

\* The vocabularies a row is written in.
LEMMA RowsTyped ==
  ASSUME TypeOK
  PROVE  /\ \A i \in Item : file[i] \in FileRow /\ item[i] \in ItemRow /\ HashOf(i) \in Hashes
         /\ \A r \in ItemRow : Observation(r) \in Observations
         /\ \A r \in ItemRow, c \in Class, d \in Decision : Classified(r, c, d) \in ItemRow
         /\ \A i \in Item : \A rows \in [Item -> ItemRow] : Matched(i, rows) \in MatchOutcome
<1>1. \A i \in Item : file[i] \in FileRow /\ item[i] \in ItemRow
  BY DEF TypeOK
<1>2. \A i \in Item : HashOf(i) \in Hashes
  BY <1>1 DEF HashOf, Hashes, FileRow, Exists
<1>3. \A r \in ItemRow : Observation(r) \in Observations
  BY DEF Observation, Observations, ItemRow
<1>4. \A r \in ItemRow, c \in Class, d \in Decision : Classified(r, c, d) \in ItemRow
  BY DEF Classified, ItemRow
<1>5. \A i \in Item : \A rows \in [Item -> ItemRow] : Matched(i, rows) \in MatchOutcome
  <2> TAKE i \in Item
  <2> TAKE rows \in [Item -> ItemRow]
  <2>1. rows[i].match \in MatchOutcome
    BY DEF ItemRow
  <2>2. Matches(i, rows) \in MatchOutcome
    BY DEF Matches, MatchOutcome
  <2> QED
    BY <2>1, <2>2 DEF Matched, MatchOutcome
<1> QED
  BY <1>1, <1>2, <1>3, <1>4, <1>5

LEMMA FoundTyped ==
  ASSUME TypeOK, NEW i \in Item, NEW reuse \in BOOLEAN
  PROVE  Found(i, reuse) \in ItemRow
<1> DEFINE kept == [item[i] EXCEPT !.here = TRUE, !.seen = file[i].stamp]
<1>1. kept \in ItemRow
  <2>1. \A r \in ItemRow, n \in Nat : [r EXCEPT !.here = TRUE, !.seen = n] \in ItemRow
    BY DEF ItemRow
  <2>2. item[i] \in ItemRow /\ file[i].stamp \in Nat
    BY RowsTyped DEF FileRow
  <2> QED
    BY <2>1, <2>2
<1>2. [kept EXCEPT !.obs = None, !.class = "pending", !.hash = "pending", !.match = "pending",
                   !.decision = IF item[i].by > 0 THEN @ ELSE "pending"] \in ItemRow
  <2> HIDE DEF kept
  <2> QED
    BY <1>1 DEF ItemRow, Observations, Class, Hashes, MatchOutcome, Decision
<1> QED
  BY <1>1, <1>2 DEF Found

LEMMA WorkerTyped ==
  ASSUME TypeOK, NEW w \in Worker
  PROVE  /\ worker[w] \in WorkerRow
         /\ \A r \in WorkerRow : [worker EXCEPT ![w] = r] \in [Worker -> WorkerRow]
         /\ \A at \in Places : [worker EXCEPT ![w].at = at] \in [Worker -> WorkerRow]
         /\ \A at \in Places, S \in SUBSET Item :
                [worker EXCEPT ![w].at = at, ![w].todo = S] \in [Worker -> WorkerRow]
         /\ \A at \in Places, i \in Nat, r \in ItemRow :
                [worker EXCEPT ![w].at = at, ![w].item = i, ![w].row = r] \in [Worker -> WorkerRow]
         /\ \A at \in Places, k \in Key :
                [worker EXCEPT ![w].at = at, ![w].key = k] \in [Worker -> WorkerRow]
<1>1. worker \in [Worker -> WorkerRow]
  BY DEF TypeOK
<1> HIDE DEF TypeOK
<1> QED
  BY <1>1 DEF WorkerRow

-----------------------------------------------------------------------------
(* The types: the scan.                                                    *)

LEMMA ScanTypes ==
  ASSUME TypeOK, Carrying, NEW w \in Worker, Scan(w), approval' = approval
  PROVE  TypeOK'
<1> USE DEF WorkerRow
<1>a. /\ jobs \in Seq(JobRow) /\ worker[w] \in WorkerRow /\ worker[w].job \in Nat
      /\ Idle \in WorkerRow
  BY DEF TypeOK, Idle, Down, Places
<1>b. \A at \in Places : [worker EXCEPT ![w].at = at] \in [Worker -> WorkerRow]
  BY DEF TypeOK
<1>c. [worker EXCEPT ![w] = Idle] \in [Worker -> WorkerRow]
  BY <1>a DEF TypeOK
<1>d. \A st \in JobStatus : Put(worker[w].job, st) \in Seq(JobRow)
  BY <1>a, PutWrites DEF JobsOfSameKind
<1>e. \A st \in BatchStatus, wh \in BOOLEAN : [batch EXCEPT !.status = st, !.whole = wh] \in BatchRow
  BY DEF TypeOK, BatchRow
<1>f. \A st \in BatchStatus : [batch EXCEPT !.status = st] \in BatchRow
  BY DEF TypeOK, BatchRow
<1>1. CASE StartScan(w)
  <2>1. Retaken \in Seq(JobRow)
    <3>1. Retaken \in [DOMAIN jobs -> JobRow]
      BY <1>a, JobsTyped DEF Retaken, JobRow, JobStatus
    <3> QED
      BY <1>a, <3>1, Remade
  <2>2. "discovering" \in BatchStatus /\ "failed" \in JobStatus /\ "discover" \in Places
    BY DEF BatchStatus, JobStatus, Places, ScanPlaces
  <2>3. jobs' \in Seq(JobRow) /\ worker' \in [Worker -> WorkerRow] /\ batch' \in BatchRow
    BY <1>1, <1>b, <1>c, <1>d, <1>e, <2>1, <2>2 DEF StartScan, Goto, Go, TypeOK
  <2> QED
    BY <1>1, <2>3 DEF StartScan, TypeOK
<1>2. CASE Discover(w)
  <2> DEFINE reuse == jobs[worker[w].job].of = OnlyChanged
  <2>1. PICK unread \in SUBSET {i \in Item : Exists(i)} :
          LET found == {i \in Item : Exists(i)} \ unread
              rows == [i \in Item |-> IF i \in found THEN Found(i, reuse) ELSE item[i]]
          IN /\ item' = [i \in Item |-> IF unread = {} /\ i \notin found
                                        THEN [rows[i] EXCEPT !.here = FALSE] ELSE rows[i]]
             /\ batch' = [batch EXCEPT !.status = "hashing", !.whole = (unread = {})]
             /\ worker' = [worker EXCEPT ![w].at = "hash", ![w].todo = {i \in found : rows[i].class = "pending"}]
    BY <1>2 DEF Discover
  <2> DEFINE found == {i \in Item : Exists(i)} \ unread
             rows == [i \in Item |-> IF i \in found THEN Found(i, reuse) ELSE item[i]]
  <2>2. rows \in [Item -> ItemRow]
    BY FoundTyped, RowsTyped
  <2>3. item' \in [Item -> ItemRow]
    <3> HIDE DEF rows
    <3>1. \A i \in Item : [rows[i] EXCEPT !.here = FALSE] \in ItemRow
      BY <2>2 DEF ItemRow
    <3> QED
      BY <2>1, <2>2, <3>1 DEF rows
  <2>4. worker' \in [Worker -> WorkerRow]
    <3>1. {i \in found : rows[i].class = "pending"} \in SUBSET Item
      OBVIOUS
    <3>2. "hash" \in Places
      BY DEF Places, ScanPlaces
    <3> QED
      BY <2>1, <3>1, <3>2, WorkerTyped
  <2>5. batch' \in BatchRow
    BY <2>1, <1>e DEF BatchStatus
  <2> QED
    BY <1>2, <2>3, <2>4, <2>5 DEF Discover, TypeOK
<1>3. CASE ReadItem(w)
  <2>1. First(worker[w].todo) \in Item
    BY <1>3, <1>a, FirstIsIn DEF ReadItem
  <2>2. worker' \in [Worker -> WorkerRow]
    <3>1. "classify" \in Places /\ First(worker[w].todo) \in Nat
      BY <2>1, ItemIsNat DEF Places, ScanPlaces
    <3> QED
      BY <1>3, <2>1, <3>1, WorkerTyped, RowsTyped DEF ReadItem
  <2> QED
    BY <1>3, <2>2 DEF ReadItem, TypeOK
<1>4. CASE HashItem(w)
  <2>1. worker' \in [Worker -> WorkerRow]
    <3>1. "hash" \in Places /\ worker[w].todo \ {worker[w].item} \in SUBSET Item
      BY <1>a DEF Places, ScanPlaces
    <3> QED
      BY <1>4, <3>1, WorkerTyped DEF HashItem
  <2>2. item' \in [Item -> ItemRow]
    <3> DEFINE i == worker[w].item
               r == IF SidecarOf[i] = 0
                    THEN [Classified(worker[w].row, "media", "include") EXCEPT !.hash = HashOf(i)]
                    ELSE [Classified(worker[w].row, "non_media", "exclude") EXCEPT !.hash = "none", !.match = "none"]
    <3>1. r.class \in Class /\ r.decision \in Decision /\ r.hash \in Hashes /\ r.match \in MatchOutcome
      <4>1. worker[w].row \in ItemRow /\ i \in Item
        BY <1>4 DEF HashItem, At, Carrying
      <4>3. /\ Classified(worker[w].row, "media", "include") \in ItemRow
            /\ Classified(worker[w].row, "non_media", "exclude") \in ItemRow
        BY <4>1, RowsTyped DEF Class, Decision
      <4>4. \A x \in ItemRow : [x EXCEPT !.hash = HashOf(i)] \in ItemRow
        BY <4>1, RowsTyped DEF ItemRow
      <4>5. \A x \in ItemRow : [x EXCEPT !.hash = "none", !.match = "none"] \in ItemRow
        BY DEF ItemRow, Hashes, MatchOutcome
      <4>6. r \in ItemRow
        BY <4>3, <4>4, <4>5
      <4> HIDE DEF r
      <4> QED
        BY <4>6 DEF ItemRow
    <3>2. item' = [item EXCEPT ![i] = [@ EXCEPT !.class = r.class, !.decision = r.decision,
                                                !.hash = r.hash, !.match = r.match]]
      BY <1>4 DEF HashItem
    <3>3. \A x \in ItemRow, c \in Class, d \in Decision, h \in Hashes, m \in MatchOutcome :
             [x EXCEPT !.class = c, !.decision = d, !.hash = h, !.match = m] \in ItemRow
      BY DEF ItemRow
    <3> HIDE DEF r
    <3> QED
      BY <3>1, <3>2, <3>3 DEF TypeOK
  <2> QED
    BY <1>4, <2>1, <2>2 DEF HashItem, TypeOK
<1>5. CASE Associate(w)
  <2>1. item' \in [Item -> ItemRow]
    <3>1. \A i \in Item : [Classified(item[i], "sidecar", "include") EXCEPT !.hash = HashOf(i)] \in ItemRow
      <4>1. \A r \in ItemRow, h \in Hashes : [r EXCEPT !.hash = h] \in ItemRow
        BY DEF ItemRow
      <4> QED
        BY <4>1, RowsTyped DEF Class, Decision
    <3> QED
      BY <1>5, <3>1, RowsTyped DEF Associate
  <2>2. worker' \in [Worker -> WorkerRow] /\ batch' \in BatchRow
    BY <1>5, <1>b, <1>f DEF Associate, Goto, Places, ScanPlaces, BatchStatus
  <2> QED
    BY <1>5, <2>1, <2>2 DEF Associate, TypeOK
<1>6. CASE Match(w)
  <2>1. item' \in [Item -> ItemRow]
    <3>1. \A i \in Item : [item[i] EXCEPT !.match = Matched(i, item)] \in ItemRow
      <4>1. \A r \in ItemRow, m \in MatchOutcome : [r EXCEPT !.match = m] \in ItemRow
        BY DEF ItemRow
      <4> QED
        BY <4>1, RowsTyped DEF TypeOK
    <3>2. \A r \in ItemRow : [r EXCEPT !.obs = Observation(r)] \in ItemRow
      <4>1. \A r \in ItemRow, o \in Observations : [r EXCEPT !.obs = o] \in ItemRow
        BY DEF ItemRow
      <4> QED
        BY <4>1, RowsTyped
    <3> QED
      BY <1>6, <3>1, <3>2, RowsTyped DEF Match
  <2>2. worker' \in [Worker -> WorkerRow]
    BY <1>6, <1>b DEF Match, Goto, Places, ScanPlaces
  <2> QED
    BY <1>6, <2>1, <2>2 DEF Match, TypeOK
<1>7. CASE EndScan(w)
  <2>1. item' \in [Item -> ItemRow]
    <3>1. \A r \in ItemRow, b \in BOOLEAN : [r EXCEPT !.shown = b] \in ItemRow
      BY DEF ItemRow
    <3>2. \A i \in Item : [item[i] EXCEPT !.shown = @ \/ Shown(item[i])] \in ItemRow
      <4> TAKE i \in Item
      <4>1. (item[i].shown \/ Shown(item[i])) \in BOOLEAN
        OBVIOUS
      <4> QED
        BY <3>1, <4>1, RowsTyped
    <3> QED
      BY <1>7, <3>2 DEF EndScan
  <2>2. batch' \in BatchRow
    <3>1. batch \in BatchRow /\ batch' = [Rolled(batch) EXCEPT !.status = "awaiting_review"]
      BY <1>7 DEF EndScan, TypeOK
    <3>2. \A b \in BatchRow, n \in Nat, st \in BatchStatus : [b EXCEPT !.rev = n, !.status = st] \in BatchRow
      BY DEF BatchRow
    <3>3. batch.rev + 1 \in Nat /\ "awaiting_review" \in BatchStatus
      BY <3>1 DEF BatchRow, BatchStatus
    <3> QED
      BY <3>1, <3>2, <3>3 DEF Rolled
  <2>3. jobs' \in Seq(JobRow) /\ worker' \in [Worker -> WorkerRow]
    BY <1>7, <1>c, <1>d DEF EndScan, Go, JobStatus
  <2> QED
    BY <1>7, <2>1, <2>2, <2>3 DEF EndScan, TypeOK
<1> QED
  BY <1>1, <1>2, <1>3, <1>4, <1>5, <1>6, <1>7 DEF Scan

-----------------------------------------------------------------------------
(* The types: the ledger, the reviewer, the copy.                          *)

LEMMA WritesTyped ==
  ASSUME TypeOK
  PROVE  /\ \A st \in BatchStatus : [batch EXCEPT !.status = st] \in BatchRow
         /\ \A n \in Nat : [batch EXCEPT !.job = n] \in BatchRow
         /\ \A n \in Nat : [batch EXCEPT !.active = n, !.job = 0] \in BatchRow
         /\ Rolled(batch) \in BatchRow
         /\ \A i \in Item, st \in CopyStatus : [item EXCEPT ![i].copy = st] \in [Item -> ItemRow]
         /\ Idle \in WorkerRow /\ Down \in WorkerRow
         /\ \A j, st \in JobStatus, c \in Control :
                JobsOfSameKind([jobs EXCEPT ![j] = [@ EXCEPT !.status = st, !.control = c]])
<1>1. batch \in BatchRow /\ item \in [Item -> ItemRow] /\ jobs \in Seq(JobRow)
  BY DEF TypeOK
<1>2. /\ \A st \in BatchStatus : [batch EXCEPT !.status = st] \in BatchRow
      /\ \A n \in Nat : [batch EXCEPT !.job = n] \in BatchRow
      /\ \A n \in Nat : [batch EXCEPT !.active = n, !.job = 0] \in BatchRow
  BY <1>1 DEF BatchRow
<1>6. Rolled(batch) \in BatchRow
  <2>1. \A b \in BatchRow, n \in Nat : [b EXCEPT !.rev = n] \in BatchRow
    BY DEF BatchRow
  <2>2. batch.rev + 1 \in Nat
    BY <1>1 DEF BatchRow
  <2> QED
    BY <1>1, <2>1, <2>2 DEF Rolled
<1>3. \A i \in Item, st \in CopyStatus : [item EXCEPT ![i].copy = st] \in [Item -> ItemRow]
  BY <1>1 DEF ItemRow
<1>4. Idle \in WorkerRow /\ Down \in WorkerRow
  BY DEF Idle, Down, WorkerRow, Places
<1>5. ASSUME NEW j, NEW st \in JobStatus, NEW c \in Control
      PROVE  JobsOfSameKind([jobs EXCEPT ![j] = [@ EXCEPT !.status = st, !.control = c]])
  <2> DEFINE f == [jobs EXCEPT ![j] = [@ EXCEPT !.status = st, !.control = c]]
  <2>1. f \in [DOMAIN jobs -> JobRow]
    BY <1>1, JobsTyped DEF JobRow
  <2>2. \A k \in DOMAIN jobs : f[k].kind = jobs[k].kind /\ f[k].of = jobs[k].of
    BY <1>1, JobsTyped DEF JobRow
  <2> QED
    BY <1>1, <2>1, <2>2, JobsWritten
<1> QED
  BY <1>2, <1>3, <1>4, <1>5, <1>6

\* A worker puts an item behind it.
LEMMA PastTyped ==
  ASSUME TypeOK, NEW w \in Worker, Past(w)
  PROVE  /\ worker' \in [Worker -> WorkerRow] /\ worker'[w].at = "copy" /\ worker'[w].job = worker[w].job
         /\ worker'[w].todo = worker[w].todo \ {First(worker[w].todo)}
         /\ \A v \in Worker \ {w} : worker'[v] = worker[v]
<1>1. worker \in [Worker -> WorkerRow] /\ worker[w] \in WorkerRow /\ "copy" \in Places
  BY DEF TypeOK, Places, ClaimPlaces, CopyPlaces
<1>2. PICK S \in SUBSET Item : S = worker[w].todo \ {First(worker[w].todo)}
  BY <1>1 DEF WorkerRow
<1>3. worker' = [worker EXCEPT ![w].at = "copy", ![w].todo = S, ![w].key = None, ![w].row = None]
  BY <1>1, <1>2 DEF Past, WorkerRow
<1> QED
  BY <1>1, <1>2, <1>3 DEF WorkerRow

LEMMA StoppedTyped ==
  ASSUME TypeOK, NEW w \in Worker, Stopped(w)
  PROVE  /\ worker' \in [Worker -> WorkerRow] /\ worker'[w].at \in {"pausing", "cancelling"}
         /\ worker'[w].job = worker[w].job /\ worker'[w].todo = worker[w].todo
         /\ \A v \in Worker \ {w} : worker'[v] = worker[v]
<1>1. PICK at \in {"pausing", "cancelling"} : worker' = [worker EXCEPT ![w].at = at]
  BY DEF Stopped
<1>2. at \in Places
  BY DEF Places, ClaimPlaces, CopyPlaces
<1> QED
  BY <1>1, <1>2, WorkerTyped DEF WorkerRow, TypeOK

\* An item leaves a worker's hands as failed.
LEMMA FailedTyped ==
  ASSUME TypeOK, NEW w \in Worker, NEW i \in Item, Failed(w, i)
  PROVE  /\ item' = [item EXCEPT ![i].copy = "failed"] /\ item' \in [Item -> ItemRow]
         /\ worker' \in [Worker -> WorkerRow] /\ worker'[w].at = "copy" /\ worker'[w].job = worker[w].job
         /\ worker'[w].todo = worker[w].todo \ {First(worker[w].todo)}
         /\ \A v \in Worker \ {w} : worker'[v] = worker[v]
<1>1. item' = [item EXCEPT ![i].copy = "failed"] /\ Past(w)
  BY DEF Failed
<1>2. "failed" \in CopyStatus
  BY DEF CopyStatus
<1> QED
  BY <1>1, <1>2, PastTyped, WritesTyped

LEMMA AssetsAreKeys ==
  ASSUME TypeOK, NEW i \in Item, Exists(i), NEW r \in ItemRow, r.hash \in Content
  PROVE  AssetOf(i, r) \subseteq {k \in Key : k[1] = r.hash}
<1>1. file[i].bytes \in Content
  BY RowsTyped DEF FileRow, Exists
<1>2. Plain(r.hash) \in {k \in Key : k[1] = r.hash} /\ <<r.hash, file[i].bytes>> \in {k \in Key : k[1] = r.hash}
  BY <1>1 DEF Plain, Key
<1> DEFINE known == {k \in Key : k[1] = r.hash /\ asset[k] # None}
           same == {k \in known : Representative(k, i) = file[i].bytes}
<1>3. known \subseteq {k \in Key : k[1] = r.hash} /\ same \subseteq {k \in Key : k[1] = r.hash}
  OBVIOUS
<1> HIDE DEF known
<1>4. known # {} => (CHOOSE k \in known : TRUE) \in {k \in Key : k[1] = r.hash}
  BY <1>3
<1> HIDE DEF same
<1>5. same # {} => (CHOOSE k \in same : TRUE) \in {k \in Key : k[1] = r.hash}
  BY <1>3
<1> DEFINE differ == r.match = "collision" \/ \E k \in known : Representative(k, i) # None
<1>6. AssetOf(i, r) = IF same # {} THEN {IF Plain(r.hash) \in same THEN Plain(r.hash) ELSE CHOOSE k \in same : TRUE}
                      ELSE IF differ THEN {<<r.hash, file[i].bytes>>}
                      ELSE IF known # {} THEN {IF Plain(r.hash) \in known THEN Plain(r.hash)
                                               ELSE CHOOSE k \in known : TRUE}
                      ELSE {Plain(r.hash)}
  BY DEF AssetOf, known, same
<1> HIDE DEF differ
<1> QED
  BY <1>2, <1>4, <1>5, <1>6

-----------------------------------------------------------------------------
(* A step with an item, and what it leaves alone.                          *)

HeedBefore(w) ==
    At(w, "copy") /\ worker[w].todo # {} /\ ~Boundary(w) /\ Stopped(w) /\ UNCHANGED <<Rest, item, batch, jobs, approval, budget>>

ItemStep(w) ==
    \/ HeedBefore(w) \/ SkipVerified(w) \/ StartItem(w) \/ Place(w) \/ Reuse(w) \/ Fetch(w) \/ Publish(w) \/ Book(w)
    \/ FailItem(w) \/ VerifyCopy(w)

\* What of the manifest a copy leaves as it was.
AsApproved ==
    \A i \in Item : /\ item'[i].here = item[i].here /\ item'[i].seen = item[i].seen /\ item'[i].hash = item[i].hash
                    /\ item'[i].obs = item[i].obs /\ item'[i].under = item[i].under

Alone(w) == \A v \in Worker \ {w} : worker'[v] = worker[v]

LEMMA GotoTyped ==
  ASSUME TypeOK, NEW w \in Worker, NEW at \in Places, Goto(w, at)
  PROVE  /\ worker' \in [Worker -> WorkerRow] /\ Alone(w)
         /\ worker'[w].at = at /\ worker'[w].job = worker[w].job
         /\ worker'[w].item = worker[w].item /\ worker'[w].row = worker[w].row
         /\ worker'[w].key = worker[w].key /\ worker'[w].todo = worker[w].todo
<1>1. worker \in [Worker -> WorkerRow] /\ worker[w] \in WorkerRow /\ worker' = [worker EXCEPT ![w].at = at]
  BY DEF TypeOK, Goto
<1>2. worker'[w] = [worker[w] EXCEPT !.at = at] /\ Alone(w)
  BY <1>1 DEF Alone
<1>3. worker' \in [Worker -> WorkerRow]
  BY <1>1, WorkerTyped
<1> QED
  BY <1>1, <1>2, <1>3 DEF WorkerRow

LEMMA CopyWritten ==
  ASSUME TypeOK, NEW i \in Item, NEW st \in CopyStatus, item' = [item EXCEPT ![i].copy = st]
  PROVE  /\ AsApproved /\ item' \in [Item -> ItemRow] /\ item'[i].copy = st
         /\ \A j \in Item \ {i} : item'[j].copy = item[j].copy
<1>1. item \in [Item -> ItemRow]
  BY DEF TypeOK
<1>2. item' \in [Item -> ItemRow]
  BY WritesTyped
<1>3. item'[i] = [item[i] EXCEPT !.copy = st] /\ \A j \in Item \ {i} : item'[j] = item[j]
  BY <1>1
<1> QED
  BY <1>1, <1>2, <1>3 DEF AsApproved, ItemRow

LEMMA AsItWas ==
  ASSUME item' = item
  PROVE  AsApproved
BY DEF AsApproved

LEMMA ItemStepTyped ==
  ASSUME TypeOK, Carrying, NEW w \in Worker, InHand(w), ItemStep(w)
  PROVE  /\ TypeOK' /\ AsApproved /\ Alone(w)
         /\ worker'[w].job = worker[w].job
         /\ worker[w].at \in CopyPlaces /\ worker'[w].at \in CopyPlaces
         /\ worker'[w].at \in ItemPlaces => worker'[w].item \in Item /\ worker'[w].row \in ItemRow
         /\ worker'[w].at \in ItemPlaces \ {"started"} => worker'[w].key \in Key
         /\ UNCHANGED <<file, jobs, approval, holder>>
         /\ batch'.active = batch.active /\ batch'.job = batch.job
         /\ batch'.status = batch.status \/ batch'.status = "verifying"
<1> USE DEF Alone
<1>a. /\ worker \in [Worker -> WorkerRow] /\ worker[w] \in WorkerRow /\ item \in [Item -> ItemRow]
      /\ worker[w].todo \in SUBSET Item
  BY DEF TypeOK, WorkerRow
<1>b. worker[w].todo # {} => First(worker[w].todo) \in Item
  BY <1>a, FirstIsIn
<1>c. worker[w].at \in ItemPlaces => worker[w].item \in Item /\ worker[w].row \in ItemRow /\ worker[w].row.hash \in Content
  BY DEF Carrying, InHand
<1>d. worker[w].at \in ItemPlaces \ {"started"} => worker[w].key \in Key
  BY DEF Carrying
<1>e. {"copying", "verified", "failed"} \subseteq CopyStatus /\ {"started", "placed", "fetched", "published", "verify"} \subseteq Places
  BY DEF CopyStatus, Places, ClaimPlaces, CopyPlaces, ItemPlaces
<1>f. \A at \in Places : Goto(w, at) => /\ worker' \in [Worker -> WorkerRow] /\ Alone(w)
                                        /\ worker'[w].at = at /\ worker'[w].job = worker[w].job
                                        /\ worker'[w].item = worker[w].item /\ worker'[w].row = worker[w].row
                                        /\ worker'[w].key = worker[w].key /\ worker'[w].todo = worker[w].todo
  BY GotoTyped
<1>1. CASE HeedBefore(w)
  <2>1. UNCHANGED <<file, item, batch, jobs, store, asset, approval, holder>> /\ worker[w].at = "copy" /\ Stopped(w)
    BY <1>1 DEF HeedBefore, Rest, At
  <2> QED
    BY <2>1, StoppedTyped, AsItWas DEF TypeOK, CopyPlaces, ItemPlaces
<1>2. CASE SkipVerified(w)
  <2>1. UNCHANGED <<file, item, batch, jobs, store, asset, approval, holder>> /\ worker[w].at = "copy" /\ Past(w)
    BY <1>2 DEF SkipVerified, Next1, Rest
  <2> QED
    BY <2>1, PastTyped, AsItWas DEF TypeOK, CopyPlaces, ItemPlaces
<1>3. CASE StartItem(w)
  <2>1. PICK i \in Item : i = First(worker[w].todo)
    BY <1>3, <1>b DEF StartItem, Next1
  <2>2. UNCHANGED <<file, batch, jobs, store, asset, approval, holder>> /\ worker[w].at = "copy"
    BY <1>3 DEF StartItem, Next1, Rest
  <2>3. CASE Copyable(w, i)
    <3>1. item' = [item EXCEPT ![i].copy = "copying"]
      BY <1>3, <2>1, <2>3 DEF StartItem
    <3>2. worker' = [worker EXCEPT ![w] = [worker[w] EXCEPT !.at = "started", !.item = i, !.key = None, !.row = item[i]]]
      BY <1>3, <2>1, <2>3 DEF StartItem, Go1
    <3>3. [worker[w] EXCEPT !.at = "started", !.item = i, !.key = None, !.row = item[i]] \in WorkerRow
      <4>1. i \in Nat /\ item[i] \in ItemRow
        BY <1>a, ItemIsNat
      <4> QED
        BY <1>a, <1>e, <4>1 DEF WorkerRow
    <3>4. worker'[w] = [worker[w] EXCEPT !.at = "started", !.item = i, !.key = None, !.row = item[i]]
      BY <1>a, <3>2
    <3>5. /\ worker'[w].at = "started" /\ worker'[w].item = i /\ worker'[w].row = item[i]
          /\ worker'[w].job = worker[w].job
      BY <1>a, <3>4 DEF WorkerRow
    <3>6. worker' \in [Worker -> WorkerRow]
      BY <1>a, <3>2, <3>3
    <3> QED
      BY <1>a, <1>e, <2>2, <3>1, <3>2, <3>5, <3>6, CopyWritten DEF TypeOK, CopyPlaces, ItemPlaces
  <2>4. CASE ~Copyable(w, i)
    <3>1. Failed(w, i)
      BY <1>3, <2>1, <2>4 DEF StartItem
    <3> QED
      BY <1>e, <2>2, <3>1, FailedTyped, CopyWritten DEF TypeOK, CopyPlaces, ItemPlaces
  <2> QED
    BY <2>3, <2>4
<1>4. CASE Place(w)
  <2>1. UNCHANGED <<file, batch, jobs, store, approval, holder>> /\ worker[w].at = "started"
    BY <1>4 DEF Place, At
  <2>2. PICK i \in Item : i = worker[w].item
    BY <2>1, <1>c DEF ItemPlaces
  <2>3. CASE Exists(i)
    <3>1. PICK k \in AssetOf(i, worker[w].row) :
             /\ asset' = [asset EXCEPT ![k] = IF @ = None THEN "missing" ELSE @]
             /\ item' = [item EXCEPT ![i].source = IF @ = None THEN k ELSE @]
             /\ worker' = [worker EXCEPT ![w].at = "placed", ![w].key = k]
      BY <1>4, <2>2, <2>3 DEF Place
    <3>2. k \in Key
      BY <1>c, <2>1, <2>3, <3>1, AssetsAreKeys DEF ItemPlaces
    <3>3. asset' \in [Key -> {None, "missing", "conflict", "verified"}]
      BY <3>1, <3>2 DEF TypeOK
    <3>4. item' \in [Item -> ItemRow] /\ AsApproved
      <4>1. PICK s \in Key \union {None} : item' = [item EXCEPT ![i].source = s]
        BY <1>a, <3>1, <3>2 DEF ItemRow
      <4> QED
        BY <1>a, <4>1 DEF ItemRow, AsApproved
    <3>5. /\ worker' \in [Worker -> WorkerRow] /\ worker'[w].at = "placed" /\ worker'[w].key = k
          /\ worker'[w].job = worker[w].job /\ worker'[w].item = i /\ worker'[w].row = worker[w].row
      BY <1>a, <1>e, <2>2, <3>1, <3>2, WorkerTyped DEF WorkerRow
    <3> QED
      BY <1>c, <2>1, <3>1, <3>2, <3>3, <3>4, <3>5 DEF TypeOK, CopyPlaces, ItemPlaces
  <2>4. CASE ~Exists(i)
    <3>1. Failed(w, i) /\ UNCHANGED asset
      BY <1>4, <2>2, <2>4 DEF Place
    <3> QED
      BY <1>e, <2>1, <3>1, FailedTyped, CopyWritten DEF TypeOK, CopyPlaces, ItemPlaces
  <2> QED
    BY <2>3, <2>4
<1>5. CASE Reuse(w)
  <2>1. UNCHANGED <<file, batch, jobs, store, approval, holder>> /\ worker[w].at = "placed"
    BY <1>5 DEF Reuse, At
  <2>2. CASE Goto(w, "published") /\ UNCHANGED <<item, asset>>
    BY <1>c, <1>d, <1>e, <1>f, <2>1, <2>2, AsItWas DEF TypeOK, CopyPlaces, ItemPlaces
  <2>3. CASE asset' = [asset EXCEPT ![worker[w].key] = "conflict"] /\ Failed(w, worker[w].item)
    <3>1. worker[w].item \in Item
      BY <1>c, <2>1 DEF ItemPlaces
    <3>2. asset' \in [Key -> {None, "missing", "conflict", "verified"}]
      BY <2>3 DEF TypeOK
    <3> QED
      BY <1>e, <2>1, <2>3, <3>1, <3>2, FailedTyped, CopyWritten DEF TypeOK, CopyPlaces, ItemPlaces
  <2> QED
    BY <1>5, <2>2, <2>3 DEF Reuse
<1>6. CASE Fetch(w)
  <2>1. UNCHANGED <<file, store, asset, batch, jobs, approval, holder>> /\ worker[w].at = "placed"
    BY <1>6 DEF Fetch, At, Rest
  <2>2. CASE Stopped(w) /\ UNCHANGED item
    BY <2>1, <2>2, StoppedTyped, AsItWas DEF TypeOK, CopyPlaces, ItemPlaces
  <2>3. CASE Goto(w, "fetched") /\ UNCHANGED item
    BY <1>c, <1>d, <1>e, <1>f, <2>1, <2>3, AsItWas DEF TypeOK, CopyPlaces, ItemPlaces
  <2>4. CASE Failed(w, worker[w].item)
    <3>1. worker[w].item \in Item
      BY <1>c, <2>1 DEF ItemPlaces
    <3> QED
      BY <1>e, <2>1, <2>4, <3>1, FailedTyped, CopyWritten DEF TypeOK, CopyPlaces, ItemPlaces
  <2> QED
    BY <1>6, <2>2, <2>3, <2>4 DEF Fetch
<1>7. CASE Publish(w)
  <2>1. UNCHANGED <<file, batch, jobs, asset, approval, holder>> /\ worker[w].at = "fetched"
    BY <1>7 DEF Publish, At
  <2>2. CASE Stopped(w) /\ UNCHANGED <<item, store>>
    BY <2>1, <2>2, StoppedTyped, AsItWas DEF TypeOK, CopyPlaces, ItemPlaces
  <2>3. CASE store' = [store EXCEPT ![worker[w].key] = worker[w].row.hash] /\ Goto(w, "published") /\ UNCHANGED item
    <3>1. store' \in [Key -> Content \union {None}]
      BY <1>c, <2>1, <2>3 DEF TypeOK, ItemPlaces
    <3> QED
      BY <1>c, <1>d, <1>e, <1>f, <2>1, <2>3, <3>1, AsItWas DEF TypeOK, CopyPlaces, ItemPlaces
  <2>4. CASE Failed(w, worker[w].item) /\ UNCHANGED store
    <3>1. worker[w].item \in Item
      BY <1>c, <2>1 DEF ItemPlaces
    <3> QED
      BY <1>e, <2>1, <2>4, <3>1, FailedTyped, CopyWritten DEF TypeOK, CopyPlaces, ItemPlaces
  <2> QED
    BY <1>7, <2>2, <2>3, <2>4 DEF Publish
<1>8. CASE Book(w)
  <2>1. UNCHANGED <<file, batch, jobs, store, approval, holder>> /\ worker[w].at = "published" /\ Past(w)
    BY <1>8 DEF Book, At
  <2>2. worker[w].item \in Item /\ item' = [item EXCEPT ![worker[w].item].copy = "verified"]
    BY <1>8, <1>c, <2>1 DEF Book, ItemPlaces
  <2>3. asset' \in [Key -> {None, "missing", "conflict", "verified"}]
    BY <1>8 DEF Book, TypeOK
  <2> QED
    BY <1>e, <2>1, <2>2, <2>3, PastTyped, CopyWritten DEF TypeOK, CopyPlaces, ItemPlaces
<1>9. CASE FailItem(w)
  <2>1. /\ UNCHANGED <<file, batch, jobs, store, asset, approval, holder>> /\ worker[w].at \in ItemPlaces
        /\ Failed(w, worker[w].item) /\ worker[w].item \in Item
    BY <1>9, <1>c DEF FailItem, ItemPlaces, Rest
  <2> QED
    BY <1>e, <2>1, FailedTyped, CopyWritten DEF TypeOK, CopyPlaces, ItemPlaces
<1>10. CASE VerifyCopy(w)
  <2>1. /\ UNCHANGED <<file, item, jobs, store, asset, approval, holder>> /\ worker[w].at = "copy"
        /\ Goto(w, "verify") /\ batch' = [batch EXCEPT !.status = "verifying"]
    BY <1>10 DEF VerifyCopy, At, Rest
  <2>2. /\ batch' \in BatchRow /\ batch'.active = batch.active /\ batch'.job = batch.job
        /\ batch'.status = "verifying"
    <3>1. batch \in BatchRow /\ "verifying" \in BatchStatus
      BY DEF TypeOK, BatchStatus
    <3>2. batch' \in BatchRow
      BY <2>1, <3>1, WritesTyped
    <3> QED
      BY <2>1, <3>1, <3>2 DEF BatchRow
  <2> QED
    BY <1>c, <1>d, <1>e, <1>f, <2>1, <2>2, AsItWas DEF TypeOK, CopyPlaces, ItemPlaces
<1> QED
  BY <1>1, <1>2, <1>3, <1>4, <1>5, <1>6, <1>7, <1>8, <1>9, <1>10 DEF ItemStep

-----------------------------------------------------------------------------
(* The steps of a scan, and what they leave alone.                         *)

ScanStep(w) == Discover(w) \/ ReadItem(w) \/ HashItem(w) \/ Associate(w) \/ Match(w)

\* What of the manifest a scan leaves as it was.
AsCopied == \A i \in Item : item'[i].copy = item[i].copy /\ item'[i].under = item[i].under
BatchKept == batch'.active = batch.active /\ batch'.job = batch.job

LEMMA ScanStepTyped ==
  ASSUME TypeOK, Carrying, NEW w \in Worker, ScanStep(w), approval' = approval
  PROVE  /\ TypeOK' /\ AsCopied /\ Alone(w) /\ BatchKept
         /\ worker'[w].job = worker[w].job
         /\ worker[w].at \in ScanPlaces /\ worker'[w].at \in ScanPlaces
         /\ worker'[w].at = "classify" => worker'[w].item \in Item /\ worker'[w].row \in ItemRow
         /\ UNCHANGED <<file, jobs, store, asset, holder>>
         /\ batch'.status = batch.status \/ batch'.status \in {"hashing", "matching"}
<1>1. TypeOK'
  BY ScanTypes DEF ScanStep, Scan
<1>a. /\ worker \in [Worker -> WorkerRow] /\ worker[w] \in WorkerRow /\ item \in [Item -> ItemRow]
      /\ worker[w].todo \in SUBSET Item /\ batch \in BatchRow
  BY DEF TypeOK, WorkerRow
<1>b. item' \in [Item -> ItemRow] /\ worker' \in [Worker -> WorkerRow] /\ batch' \in BatchRow
  BY <1>1 DEF TypeOK
<1>2. CASE Discover(w)
  <2> DEFINE reuse == jobs[worker[w].job].of = OnlyChanged
  <2>1. PICK unread \in SUBSET {i \in Item : Exists(i)} :
          LET found == {i \in Item : Exists(i)} \ unread
              rows == [i \in Item |-> IF i \in found THEN Found(i, reuse) ELSE item[i]]
          IN /\ item' = [i \in Item |-> IF unread = {} /\ i \notin found
                                        THEN [rows[i] EXCEPT !.here = FALSE] ELSE rows[i]]
             /\ batch' = [batch EXCEPT !.status = "hashing", !.whole = (unread = {})]
             /\ worker' = [worker EXCEPT ![w].at = "hash", ![w].todo = {i \in found : rows[i].class = "pending"}]
    BY <1>2 DEF Discover
  <2>2. AsCopied
    <3>1. \A i \in Item : Found(i, reuse).copy = item[i].copy /\ Found(i, reuse).under = item[i].under
      BY <1>a DEF Found, ItemRow
    <3>2. \A i \in Item : Found(i, reuse) \in ItemRow
      BY FoundTyped
    <3>3. \A r \in ItemRow : [r EXCEPT !.here = FALSE].copy = r.copy /\ [r EXCEPT !.here = FALSE].under = r.under
      BY DEF ItemRow
    <3> HIDE DEF reuse
    <3> QED
      BY <1>a, <2>1, <3>1, <3>2, <3>3 DEF AsCopied
  <2>3. /\ worker'[w].at = "hash" /\ worker'[w].job = worker[w].job /\ Alone(w)
    <3>1. \A S : [worker EXCEPT ![w].at = "hash", ![w].todo = S][w] = [worker[w] EXCEPT !.at = "hash", !.todo = S]
      BY <1>a
    <3> QED
      BY <1>a, <2>1, <3>1 DEF WorkerRow, Alone
  <2>4. BatchKept /\ batch'.status = "hashing"
    BY <1>a, <2>1 DEF BatchRow, BatchKept
  <2> QED
    BY <1>1, <1>2, <2>2, <2>3, <2>4 DEF Discover, At, ScanPlaces
<1>3. CASE ReadItem(w)
  <2>1. PICK i \in Item : i = First(worker[w].todo)
    BY <1>3, <1>a, FirstIsIn DEF ReadItem
  <2>2. worker' = [worker EXCEPT ![w].at = "classify", ![w].item = i, ![w].row = item[i]]
    BY <1>3, <2>1 DEF ReadItem
  <2>3. /\ worker'[w].at = "classify" /\ worker'[w].item = i /\ worker'[w].row = item[i]
        /\ worker'[w].job = worker[w].job /\ Alone(w)
    BY <1>a, <2>2 DEF WorkerRow, Alone
  <2>4. UNCHANGED <<file, item, batch, jobs, store, asset, holder>> /\ At(w, "hash")
    BY <1>3 DEF ReadItem
  <2> QED
    BY <1>1, <1>a, <2>3, <2>4 DEF AsCopied, BatchKept, At, ScanPlaces
<1>4. CASE HashItem(w)
  <2>1. AsCopied
    <3> DEFINE Made(r, c, d, h, m) == [r EXCEPT !.class = c, !.decision = d, !.hash = h, !.match = m]
    <3>1. \A r \in ItemRow : \A c, d, h, m : Made(r, c, d, h, m).copy = r.copy /\ Made(r, c, d, h, m).under = r.under
      BY DEF ItemRow
    <3>2. \E i, c, d, h, m : item' = [item EXCEPT ![i] = Made(item[i], c, d, h, m)]
      BY <1>4, Zenon DEF HashItem
    <3> HIDE DEF Made
    <3>3. PICK i, c, d, h, m : item' = [item EXCEPT ![i] = Made(item[i], c, d, h, m)]
      BY <3>2
    <3>4. \A j \in Item : item'[j].copy = item[j].copy /\ item'[j].under = item[j].under
      BY <1>a, <3>1, <3>3
    <3> QED
      BY <3>4 DEF AsCopied
  <2>2. worker'[w].at = "hash" /\ worker'[w].job = worker[w].job /\ Alone(w)
    <3>1. \A S : LET f == [worker EXCEPT ![w].at = "hash", ![w].todo = S]
                 IN f[w].at = "hash" /\ f[w].job = worker[w].job /\ \A v \in Worker \ {w} : f[v] = worker[v]
      BY <1>a DEF WorkerRow
    <3>2. worker' = [worker EXCEPT ![w].at = "hash", ![w].todo = @ \ {worker[w].item}]
      BY <1>4 DEF HashItem
    <3> QED
      BY <3>1, <3>2 DEF Alone
  <2>3. UNCHANGED <<file, batch, jobs, store, asset, holder>> /\ At(w, "classify")
    BY <1>4 DEF HashItem
  <2> QED
    BY <1>1, <2>1, <2>2, <2>3 DEF BatchKept, At, ScanPlaces
<1>5. CASE Associate(w)
  <2>1. AsCopied
    <3>1. \A r \in ItemRow, h \in Hashes : /\ [Classified(r, "sidecar", "include") EXCEPT !.hash = h].copy = r.copy
                                           /\ [Classified(r, "sidecar", "include") EXCEPT !.hash = h].under = r.under
      BY DEF ItemRow, Classified
    <3>2. \A i \in Item : \/ item'[i] = [Classified(item[i], "sidecar", "include") EXCEPT !.hash = HashOf(i)]
                          \/ item'[i] = item[i]
      BY <1>5 DEF Associate
    <3>3. \A i \in Item : item[i] \in ItemRow /\ HashOf(i) \in Hashes
      BY RowsTyped
    <3> QED
      BY <3>1, <3>2, <3>3 DEF AsCopied
  <2>2. worker'[w].at = "match" /\ worker'[w].job = worker[w].job /\ Alone(w)
    BY <1>5, GotoTyped DEF Associate, Places, ScanPlaces
  <2>3. BatchKept /\ batch'.status = "matching"
    BY <1>a, <1>5 DEF BatchRow, BatchKept, Associate
  <2>4. UNCHANGED <<file, jobs, store, asset, holder>> /\ At(w, "hash")
    BY <1>5 DEF Associate
  <2> QED
    BY <1>1, <2>1, <2>2, <2>3, <2>4 DEF At, ScanPlaces
<1>6. CASE Match(w)
  <2>1. AsCopied
    <3> DEFINE Made(r, m, o) == [[r EXCEPT !.match = m] EXCEPT !.obs = o]
    <3>1. \A r \in ItemRow : \A m, o : Made(r, m, o).copy = r.copy /\ Made(r, m, o).under = r.under
      BY DEF ItemRow
    <3>2. \A i \in Item : \/ item'[i] = item[i]
                          \/ \E m, o : item'[i] = Made(item[i], m, o)
      BY <1>6 DEF Match
    <3> HIDE DEF Made
    <3>3. \A i \in Item : item[i] \in ItemRow
      BY <1>a
    <3> QED
      BY <3>1, <3>2, <3>3 DEF AsCopied
  <2>2. worker'[w].at = "settle" /\ worker'[w].job = worker[w].job /\ Alone(w)
    BY <1>6, GotoTyped DEF Match, Places, ScanPlaces
  <2>3. UNCHANGED <<file, batch, jobs, store, asset, holder>> /\ At(w, "match")
    BY <1>6 DEF Match
  <2> QED
    BY <1>1, <2>1, <2>2, <2>3 DEF BatchKept, At, ScanPlaces
<1> QED
  BY <1>2, <1>3, <1>4, <1>5, <1>6 DEF ScanStep

-----------------------------------------------------------------------------
(* The types: what is left.                                                *)

OneJob(j, st) ==
    /\ JobsOfSameKind(jobs')
    /\ \A k \in DOMAIN jobs : jobs'[k].status = IF k = j THEN st ELSE jobs[k].status

LEMMA OneWritten ==
  ASSUME TypeOK, NEW j \in DOMAIN jobs, NEW st \in JobStatus
  PROVE  /\ jobs' = Put(j, st) => OneJob(j, st)
         /\ \A c \in Control : jobs' = [jobs EXCEPT ![j] = [@ EXCEPT !.status = st, !.control = c]] => OneJob(j, st)
         /\ \A c \in Control : jobs' = [jobs EXCEPT ![j].status = st, ![j].control = c] => OneJob(j, st)
         /\ \A n \in Nat : jobs' = [jobs EXCEPT ![j].status = st, ![j].seen = n] => OneJob(j, st)
         /\ \A n \in Nat : jobs' = [jobs EXCEPT ![j].status = st, ![j].attempt = n] => OneJob(j, st)
<1>1. jobs \in Seq(JobRow)
  BY DEF TypeOK
<1>2. jobs \in [DOMAIN jobs -> JobRow] /\ jobs[j] \in JobRow
  BY <1>1, JobsTyped
<1>3. ASSUME NEW r \in JobRow, jobs' = [jobs EXCEPT ![j] = r], r.status = st, r.kind = jobs[j].kind, r.of = jobs[j].of
      PROVE  OneJob(j, st)
  <2>1. jobs' \in [DOMAIN jobs -> JobRow] /\ \A k \in DOMAIN jobs : jobs'[k] = IF k = j THEN r ELSE jobs[k]
    BY <1>2, <1>3
  <2>2. JobsOfSameKind(jobs')
    <3>1. \A f \in [DOMAIN jobs -> JobRow] :
            (\A k \in DOMAIN jobs : f[k].kind = jobs[k].kind /\ f[k].of = jobs[k].of) => JobsOfSameKind(f)
      BY <1>1, JobsWritten
    <3> QED
      BY <1>3, <2>1, <3>1
  <2> QED
    BY <1>3, <2>1, <2>2 DEF OneJob
<1>4. ASSUME jobs' = Put(j, st)
      PROVE  OneJob(j, st)
  <2> DEFINE r == [jobs[j] EXCEPT !.status = st]
  <2>1. r \in JobRow /\ r.status = st /\ r.kind = jobs[j].kind /\ r.of = jobs[j].of
    BY <1>2 DEF JobRow
  <2>2. jobs' = [jobs EXCEPT ![j] = r]
    BY <1>4 DEF Put
  <2> HIDE DEF r
  <2> QED
    BY <1>3, <2>1, <2>2
<1>5. ASSUME NEW c \in Control, \/ jobs' = [jobs EXCEPT ![j] = [@ EXCEPT !.status = st, !.control = c]]
                                \/ jobs' = [jobs EXCEPT ![j].status = st, ![j].control = c]
      PROVE  OneJob(j, st)
  <2> DEFINE r == [jobs[j] EXCEPT !.status = st, !.control = c]
  <2>1. r \in JobRow /\ r.status = st /\ r.kind = jobs[j].kind /\ r.of = jobs[j].of
    BY <1>2 DEF JobRow
  <2>2. jobs' = [jobs EXCEPT ![j] = r]
    BY <1>2, <1>5
  <2> HIDE DEF r
  <2> QED
    BY <1>3, <2>1, <2>2
<1>6. ASSUME NEW n \in Nat, jobs' = [jobs EXCEPT ![j].status = st, ![j].seen = n]
      PROVE  OneJob(j, st)
  <2> DEFINE r == [jobs[j] EXCEPT !.status = st, !.seen = n]
  <2>1. r \in JobRow /\ r.status = st /\ r.kind = jobs[j].kind /\ r.of = jobs[j].of
    BY <1>2 DEF JobRow
  <2>2. jobs' = [jobs EXCEPT ![j] = r]
    BY <1>2, <1>6
  <2> HIDE DEF r
  <2> QED
    BY <1>3, <2>1, <2>2
<1>7. ASSUME NEW n \in Nat, jobs' = [jobs EXCEPT ![j].status = st, ![j].attempt = n]
      PROVE  OneJob(j, st)
  <2> DEFINE r == [jobs[j] EXCEPT !.status = st, !.attempt = n]
  <2>1. r \in JobRow /\ r.status = st /\ r.kind = jobs[j].kind /\ r.of = jobs[j].of
    BY <1>2 DEF JobRow
  <2>2. jobs' = [jobs EXCEPT ![j] = r]
    BY <1>2, <1>7
  <2> HIDE DEF r
  <2> QED
    BY <1>3, <2>1, <2>2
<1> QED
  BY <1>4, <1>5, <1>6, <1>7

\* A worker lets its job go.
LEMMA GoneTyped ==
  ASSUME TypeOK, NEW w \in Worker, Go(w, Idle) \/ Go(w, Down)
  PROVE  worker' \in [Worker -> WorkerRow] /\ Alone(w) /\ worker'[w].at \in {"idle", "down"}
<1>1. worker \in [Worker -> WorkerRow] /\ Idle \in WorkerRow /\ Down \in WorkerRow
  BY WritesTyped DEF TypeOK
<1>2. Idle.at = "idle" /\ Down.at = "down"
  BY DEF Idle, Down
<1> QED
  BY <1>1, <1>2 DEF Go, Alone

\* A batch's status is written, and nothing else of it.
LEMMA BatchShown ==
  ASSUME TypeOK, NEW st \in BatchStatus,
         \/ batch' = [batch EXCEPT !.status = st]
         \/ batch' = [Rolled(batch) EXCEPT !.status = st]
         \/ \E wh \in BOOLEAN : batch' = [batch EXCEPT !.status = st, !.whole = wh]
  PROVE  batch' \in BatchRow /\ BatchKept /\ batch'.status = st
<1>1. batch \in BatchRow /\ Rolled(batch) \in BatchRow
  BY WritesTyped DEF TypeOK
<1>2. Rolled(batch).active = batch.active /\ Rolled(batch).job = batch.job
  BY <1>1 DEF Rolled, BatchRow
<1> DEFINE Made(b) == [b EXCEPT !.status = st]
           MadeOf(b, wh) == [b EXCEPT !.status = st, !.whole = wh]
<1>3. \A b \in BatchRow : /\ Made(b) \in BatchRow /\ Made(b).status = st
                         /\ Made(b).active = b.active /\ Made(b).job = b.job
  BY DEF BatchRow
<1>4. \A b \in BatchRow, wh \in BOOLEAN : /\ MadeOf(b, wh) \in BatchRow /\ MadeOf(b, wh).status = st
                                        /\ MadeOf(b, wh).active = b.active /\ MadeOf(b, wh).job = b.job
  BY DEF BatchRow
<1>5. batch' = Made(batch) \/ batch' = Made(Rolled(batch)) \/ \E wh \in BOOLEAN : batch' = MadeOf(batch, wh)
  OBVIOUS
<1> HIDE DEF Made, MadeOf
<1>6. CASE batch' = Made(batch)
  BY <1>1, <1>3, <1>6 DEF BatchKept
<1>7. CASE batch' = Made(Rolled(batch))
  BY <1>1, <1>2, <1>3, <1>7 DEF BatchKept
<1>8. CASE \E wh \in BOOLEAN : batch' = MadeOf(batch, wh)
  BY <1>1, <1>4, <1>8 DEF BatchKept
<1> QED
  BY <1>5, <1>6, <1>7, <1>8

\* The end of a scan, well or badly.
LEMMA ScanEndTyped ==
  ASSUME TypeOK, JobsHeld, NEW w \in Worker, UNCHANGED approval, EndScan(w) \/ FailScan(w)
  PROVE  /\ TypeOK' /\ AsCopied /\ AsApproved /\ Alone(w) /\ BatchKept /\ worker[w].at \in ScanPlaces
         /\ worker'[w].at \in {"idle", "down"} /\ holder' = None
         /\ UNCHANGED <<file, store, asset>> /\ batch'.status \in {"awaiting_review", "failed"}
         /\ worker[w].job \in DOMAIN jobs /\ jobs[worker[w].job].kind = "scan"
         /\ OneJob(worker[w].job, "completed") \/ OneJob(worker[w].job, "failed")
<1>1. worker[w].at \in ScanPlaces
  BY DEF EndScan, FailScan, Scanning, At, ScanPlaces
<1>2. worker[w].job \in DOMAIN jobs /\ jobs[worker[w].job].kind = "scan"
  BY <1>1 DEF JobsHeld, JobFits, ScanPlaces
<1>3. PICK st \in {"completed", "failed"} : jobs' = Put(worker[w].job, st)
  BY DEF EndScan, FailScan
<1>4. OneJob(worker[w].job, st) /\ jobs' \in Seq(JobRow)
  BY <1>2, <1>3, OneWritten DEF JobStatus, OneJob, JobsOfSameKind
<1>5. worker' \in [Worker -> WorkerRow] /\ Alone(w) /\ worker'[w].at \in {"idle", "down"}
  BY GoneTyped DEF EndScan, FailScan
<1>6. batch' \in BatchRow /\ BatchKept /\ batch'.status \in {"awaiting_review", "failed"}
  <2>1. PICK st2 \in {"awaiting_review", "failed"} :
          batch' = [batch EXCEPT !.status = st2] \/ batch' = [Rolled(batch) EXCEPT !.status = st2]
    BY DEF EndScan, FailScan
  <2> QED
    BY <2>1, BatchShown DEF BatchStatus
<1>7. item' \in [Item -> ItemRow] /\ AsCopied /\ AsApproved
  <2>1. CASE EndScan(w)
    <3> DEFINE Made(r, b) == [r EXCEPT !.shown = b]
    <3>1. \A r \in ItemRow, b \in BOOLEAN :
             /\ Made(r, b) \in ItemRow /\ Made(r, b).copy = r.copy /\ Made(r, b).under = r.under
             /\ Made(r, b).here = r.here /\ Made(r, b).seen = r.seen /\ Made(r, b).hash = r.hash
             /\ Made(r, b).obs = r.obs
      BY DEF ItemRow
    <3>2. item' = [i \in Item |-> Made(item[i], item[i].shown \/ Shown(item[i]))]
      BY <2>1 DEF EndScan
    <3> HIDE DEF Made
    <3>3. \A i \in Item : item[i] \in ItemRow /\ (item[i].shown \/ Shown(item[i])) \in BOOLEAN
      BY RowsTyped
    <3> QED
      BY <3>1, <3>2, <3>3 DEF AsCopied, AsApproved
  <2>2. CASE FailScan(w)
    BY <2>2 DEF FailScan, TypeOK, AsCopied, AsApproved
  <2> QED
    BY <2>1, <2>2
<1>8. UNCHANGED <<file, store, asset>> /\ holder' = None
  BY DEF EndScan, FailScan
<1> QED
  BY <1>1, <1>2, <1>4, <1>5, <1>6, <1>7, <1>8 DEF TypeOK

\* The end of a copy, and its interruption.
CopyEnds(w, st, control, shown) ==
    /\ jobs' = [jobs EXCEPT ![worker[w].job] = [@ EXCEPT !.status = st, !.control = control]]
    /\ batch' = [batch EXCEPT !.status = shown]
    /\ Go(w, Idle) /\ holder' = None
    /\ UNCHANGED <<file, item, store, asset, approval>>

LEMMA CopyEndTyped ==
  ASSUME TypeOK, JobsHeld, NEW w \in Worker, NEW st \in JobStatus, NEW control \in Control, NEW shown \in BatchStatus,
         worker[w].at \in CopyPlaces, CopyEnds(w, st, control, shown)
  PROVE  /\ TypeOK' /\ Alone(w) /\ BatchKept /\ worker'[w].at \in {"idle", "down"}
         /\ worker[w].job \in DOMAIN jobs /\ jobs[worker[w].job].kind = "copy"
         /\ batch'.status = shown /\ OneJob(worker[w].job, st)
         /\ holder' = None /\ UNCHANGED <<file, item, store, asset, approval>>
<1>1. worker[w].job \in DOMAIN jobs /\ jobs[worker[w].job].kind = "copy"
  BY DEF JobsHeld, JobFits, ClaimPlaces, CopyPlaces, ItemPlaces
<1>2. OneJob(worker[w].job, st) /\ jobs' \in Seq(JobRow)
  BY <1>1, OneWritten DEF CopyEnds, OneJob, JobsOfSameKind
<1>3. worker' \in [Worker -> WorkerRow] /\ Alone(w) /\ worker'[w].at \in {"idle", "down"}
  BY GoneTyped DEF CopyEnds
<1>4. batch' \in BatchRow /\ BatchKept /\ batch'.status = shown
  BY BatchShown DEF CopyEnds
<1> QED
  BY <1>1, <1>2, <1>3, <1>4 DEF CopyEnds, TypeOK

-----------------------------------------------------------------------------
(* The lock, the ledger, and the one copy of an approval.                  *)

LEMMA Apart ==
  /\ ScanPlaces \intersect ClaimPlaces = {} /\ ItemPlaces \subseteq CopyPlaces /\ CopyPlaces \subseteq ClaimPlaces
  /\ {"down", "idle", "picked", "scan", "preflight", "execute", "authorized"} \intersect Locks = {}
  /\ ScanPlaces \subseteq Locks /\ ClaimPlaces \subseteq Locks
BY DEF Locks, ScanPlaces, ClaimPlaces, CopyPlaces, ItemPlaces

LEMMA LockMoves ==
  ASSUME LockHeld, NEW w, Alone(w),
         w \in Worker =>
           \/ worker'[w].at \notin Locks /\ (holder' = holder \/ holder = w)
           \/ worker'[w].at \in Locks /\ holder' = w /\ (holder = w \/ holder = None),
         w \notin Worker => holder' = holder
  PROVE  LockHeld'
<1> SUFFICES ASSUME NEW v \in Worker, worker'[v].at \in Locks
             PROVE  holder' = v
  BY DEF LockHeld
<1>1. CASE v = w
  BY <1>1
<1>2. CASE v # w
  <2>1. worker[v].at \in Locks
    BY <1>2 DEF Alone
  <2>2. holder = v /\ v # None
    BY <2>1, InboxAssumption DEF LockHeld
  <2> QED
    BY <1>2, <2>2
<1> QED
  BY <1>1, <1>2

LEMMA JobsMove ==
  ASSUME TypeOK, JobsInv, NEW w, Alone(w), JobsOfSameKind(jobs'), DOMAIN approval' = DOMAIN approval, 
         Len(approval') = Len(approval), BatchKept,
         w \in Worker => JobFits(w)',
         \A v \in Worker \ {w} : worker[v].at \in Executing \union ClaimPlaces =>
             jobs'[worker[v].job].status = jobs[worker[v].job].status,
         \A e \in Of("execute"), j \in Of("copy") : jobs[j].of = jobs[e].of =>
             jobs'[e].status \in {"running", "completed"},
         w \in Worker /\ worker'[w].at \in Executing =>
             /\ \A v \in Worker \ {w} : worker[v].at \in Executing => worker[v].job # worker'[w].job
             /\ worker'[w].at = "execute" => \A j \in Of("copy") : jobs[j].of # jobs[worker'[w].job].of
  PROVE  JobsHeld' /\ ExecutedOnce' /\ CopiedOnce'
<1>1. /\ DOMAIN jobs' = DOMAIN jobs
      /\ \A k \in DOMAIN jobs : jobs'[k].kind = jobs[k].kind /\ jobs'[k].of = jobs[k].of
  BY DEF JobsOfSameKind
<1>2. \A kind : Of(kind)' = Of(kind)
  BY <1>1 DEF Of
<1>3. JobsHeld'
  <2> SUFFICES ASSUME NEW v \in Worker
               PROVE  JobFits(v)'
    BY DEF JobsHeld
  <2>1. CASE v # w
    <3>1. worker'[v] = worker[v] /\ JobFits(v)
      BY <2>1 DEF Alone, JobsInv, JobsHeld
    <3>2. worker[v].at \in Executing \union ClaimPlaces => jobs'[worker[v].job].status = jobs[worker[v].job].status
      BY <2>1
    <3> QED
      BY <1>1, <3>1, <3>2 DEF JobFits, Executing
  <2> QED
    BY <2>1
<1>4. ExecutedOnce'
  <2>1. \A e, f \in Of("execute")' : jobs'[e].of = jobs'[f].of => e = f
    BY <1>1, <1>2 DEF JobsInv, ExecutedOnce, Of
  <2>2. \A u, v \in Worker : worker'[u].at \in Executing /\ worker'[v].at \in Executing
                             /\ worker'[u].job = worker'[v].job => u = v
    BY DEF Alone, JobsInv, ExecutedOnce
  <2>3. ASSUME NEW j \in Of("copy"), NEW e \in Of("execute"), jobs[j].of = jobs[e].of
        PROVE  jobs'[e].status \in {"running", "completed"} /\ \A v \in Worker : worker'[v].at = "execute" => worker'[v].job # e
    <3>1. ASSUME NEW v \in Worker, worker'[v].at = "execute", worker'[v].job = e
          PROVE  FALSE
      <4>1. CASE v = w
        BY <2>3, <3>1, <4>1 DEF Executing
      <4>2. CASE v # w
        BY <2>3, <3>1, <4>2 DEF Alone, JobsInv, ExecutedOnce, At
      <4> QED
        BY <4>1, <4>2
    <3> QED
      BY <2>3, <3>1
  <2>4. \A j \in Of("copy"), e \in Of("execute") : jobs'[j].of = jobs'[e].of => jobs[j].of = jobs[e].of
    BY <1>1 DEF Of
  <2>5. \A j \in Of("copy") : \E e \in Of("execute") : jobs'[e].of = jobs'[j].of
    BY <1>1 DEF JobsInv, ExecutedOnce, Of
  <2> QED
    BY <1>2, <2>1, <2>2, <2>3, <2>4, <2>5 DEF ExecutedOnce, At
<1>5. CopiedOnce'
  <2>1. \A j \in Of("copy") \union Of("execute") : jobs'[j].of = jobs[j].of
    BY <1>1 DEF Of
  <2> QED
    BY <1>2, <2>1 DEF JobsInv, CopiedOnce, BatchKept
<1> QED
  BY <1>3, <1>4, <1>5

\* The same where no job changes.
LEMMA JobsStay ==
  ASSUME TypeOK, JobsInv, NEW w \in Worker, Alone(w), jobs' = jobs, DOMAIN approval' = DOMAIN approval, 
         Len(approval') = Len(approval), BatchKept,
         JobFits(w)', worker'[w].at \notin Executing
  PROVE  JobsHeld' /\ ExecutedOnce' /\ CopiedOnce'
<1>1. JobsOfSameKind(jobs')
  BY JobsTyped DEF TypeOK
<1>2. \A e \in Of("execute"), j \in Of("copy") : jobs[j].of = jobs[e].of => jobs'[e].status \in {"running", "completed"}
  BY DEF JobsInv, ExecutedOnce
<1> QED
  BY <1>1, <1>2, JobsMove

\* One job is put down by the worker that had it.
LEMMA JobsEnded ==
  ASSUME TypeOK, JobsInv, NEW w \in Worker, Alone(w), DOMAIN approval' = DOMAIN approval, 
         Len(approval') = Len(approval), BatchKept, worker'[w].at \in {"idle", "down"}, NEW st, 
         worker[w].at \in {"scan", "preflight", "execute", "authorized"} \union ScanPlaces \union CopyPlaces,
         worker[w].at = "authorized" => st = "completed",
         OneJob(worker[w].job, st)
  PROVE  JobsHeld' /\ ExecutedOnce' /\ CopiedOnce'
<1> DEFINE j == worker[w].job
<1>1. JobsOfSameKind(jobs') /\ \A k \in DOMAIN jobs : jobs'[k].status = IF k = j THEN st ELSE jobs[k].status
  BY DEF OneJob
<1>2. j \in DOMAIN jobs /\ JobFits(w)
  BY DEF JobsInv, JobsHeld, JobFits, ScanPlaces, CopyPlaces, ItemPlaces
<1>3. JobFits(w)'
  BY DEF JobFits
<1>4. ASSUME NEW v \in Worker \ {w}, worker[v].at \in Executing \union ClaimPlaces, worker[v].job = j
      PROVE  FALSE
  <2>1. JobFits(v) /\ v \in Worker /\ v # w
    BY DEF JobsInv, JobsHeld
  <2>2. CASE worker[v].at \in Executing
    <3>1. jobs[j].kind = "execute"
      BY <1>4, <2>1, <2>2 DEF JobFits, Executing
    <3>2. worker[w].at \in Executing
      BY <1>2, <3>1 DEF JobFits, Executing, ScanPlaces, ClaimPlaces, CopyPlaces, ItemPlaces
    <3> QED
      BY <1>4, <2>1, <2>2, <3>2 DEF JobsInv, ExecutedOnce
  <2>3. CASE worker[v].at \in ClaimPlaces
    <3>1. jobs[j].kind = "copy"
      BY <1>4, <2>1, <2>3 DEF JobFits, ClaimPlaces, CopyPlaces, ItemPlaces
    <3>2. worker[w].at \in ClaimPlaces
      BY <1>2, <3>1 DEF JobFits, ScanPlaces, ClaimPlaces, CopyPlaces, ItemPlaces
    <3> QED
      BY <2>1, <2>3, <3>2 DEF JobsInv, LockHeld, Locks
  <2> QED
    BY <1>4, <2>2, <2>3
<1>5. \A v \in Worker \ {w} : worker[v].at \in Executing \union ClaimPlaces =>
         jobs'[worker[v].job].status = jobs[worker[v].job].status
  <2> TAKE v \in Worker \ {w}
  <2> HAVE worker[v].at \in Executing \union ClaimPlaces
  <2>1. worker[v].job # j
    BY <1>4
  <2>2. worker[v].job \in DOMAIN jobs
    BY DEF JobsInv, JobsHeld, JobFits, Executing, ClaimPlaces, CopyPlaces, ItemPlaces
  <2> QED
    BY <1>1, <2>1, <2>2
<1>6. ASSUME NEW e \in Of("execute"), NEW k \in Of("copy"), jobs[k].of = jobs[e].of
      PROVE  jobs'[e].status \in {"running", "completed"}
  <2>1. e \in DOMAIN jobs /\ jobs[e].kind = "execute" /\ jobs[e].status \in {"running", "completed"}
    BY <1>6 DEF JobsInv, ExecutedOnce, Of
  <2>2. CASE e = j
    <3>1. worker[w].at \in Executing
      BY <1>2, <2>1, <2>2 DEF JobFits, Executing, ScanPlaces, ClaimPlaces, CopyPlaces, ItemPlaces
    <3>2. worker[w].at # "execute"
      BY <1>6, <2>2 DEF JobsInv, ExecutedOnce, At
    <3> QED
      BY <1>1, <2>1, <2>2, <3>1, <3>2 DEF Executing
  <2>3. CASE e # j
    BY <1>1, <2>1, <2>3
  <2> QED
    BY <2>2, <2>3
<1>7. worker'[w].at \notin Executing
  BY DEF Executing
<1> QED
  BY <1>1, <1>3, <1>5, <1>6, <1>7, JobsMove

\* A step aside: the manifest, the batch and the vault stay, and nobody takes the lock.
Aside(w) ==
    /\ UNCHANGED <<file, item, batch, store, asset, approval>> /\ Alone(w)
    /\ w \in Worker => worker'[w].at \notin Locks
    /\ DOMAIN jobs \subseteq DOMAIN jobs' /\ \A k \in DOMAIN jobs : jobs'[k].of = jobs[k].of
    /\ \A k \in Of("copy") : jobs'[k].status = jobs[k].status

LEMMA EndedAside ==
  ASSUME TypeOK, JobsInv, NEW w \in Worker, NEW st \in JobStatus,
         worker[w].at \in {"scan", "preflight", "execute", "authorized"},
         worker[w].at = "authorized" => st = "completed",
         jobs' = Put(worker[w].job, st) \/ \E n \in Nat : jobs' = [jobs EXCEPT ![worker[w].job].status = st, ![worker[w].job].seen = n],
         Go(w, Idle), UNCHANGED <<file, item, batch, store, asset, approval, holder>>
  PROVE  TypeOK' /\ JobsInv' /\ Aside(w)
<1>1. JobFits(w) /\ worker[w].job \in DOMAIN jobs /\ jobs[worker[w].job].kind # "copy"
  BY DEF JobsInv, JobsHeld, JobFits
<1>2. OneJob(worker[w].job, st) /\ jobs' \in Seq(JobRow)
  <2>1. PICK j \in DOMAIN jobs : j = worker[w].job
    BY <1>1
  <2>2. CASE jobs' = Put(j, st)
    BY <2>1, <2>2, OneWritten DEF OneJob, JobsOfSameKind
  <2>3. CASE \E n \in Nat : jobs' = [jobs EXCEPT ![j].status = st, ![j].seen = n]
    <3>1. PICK n \in Nat : jobs' = [jobs EXCEPT ![j].status = st, ![j].seen = n]
      BY <2>3
    <3>2. OneJob(j, st)
      BY <3>1, OneWritten
    <3> QED
      BY <2>1, <3>2 DEF OneJob, JobsOfSameKind
  <2> QED
    BY <2>1, <2>2, <2>3
<1>3. worker' \in [Worker -> WorkerRow] /\ Alone(w) /\ worker'[w].at \in {"idle", "down"}
  BY GoneTyped
<1>4. worker'[w].at \notin Locks
  BY <1>3, Apart
<1>5. LockHeld'
  BY <1>3, <1>4, LockMoves DEF JobsInv
<1>6. JobsHeld' /\ ExecutedOnce' /\ CopiedOnce'
  BY <1>2, <1>3, JobsEnded DEF BatchKept
<1>7. Aside(w)
  BY <1>1, <1>2, <1>3, <1>4 DEF Aside, OneJob, JobsOfSameKind, Of
<1> QED
  BY <1>2, <1>3, <1>5, <1>6, <1>7 DEF TypeOK, JobsInv

LEMMA MovedAside ==
  ASSUME TypeOK, JobsInv, NEW w \in Worker, UNCHANGED <<file, item, batch, jobs, store, asset, approval>>,
         Alone(w), worker' \in [Worker -> WorkerRow], worker'[w].at \notin Locks \union Executing, JobFits(w)',
         holder' = holder \/ holder = w
  PROVE  TypeOK' /\ JobsInv' /\ Aside(w)
<1>1. LockHeld'
  BY LockMoves DEF JobsInv
<1>2. JobsHeld' /\ ExecutedOnce' /\ CopiedOnce'
  BY JobsStay DEF BatchKept
<1> QED
  BY <1>1, <1>2 DEF TypeOK, JobsInv, Aside

LEMMA GoneAside ==
  ASSUME TypeOK, JobsInv, NEW w \in Worker, UNCHANGED <<file, item, batch, jobs, store, asset, approval>>,
         Go(w, Idle) \/ Go(w, Down), holder' = holder \/ holder = w
  PROVE  TypeOK' /\ JobsInv' /\ Aside(w)
<1>1. worker' \in [Worker -> WorkerRow] /\ Alone(w) /\ worker'[w].at \in {"idle", "down"}
  BY GoneTyped
<1>2. worker'[w].at \notin Locks \union Executing /\ JobFits(w)'
  BY <1>1, Apart DEF Executing, JobFits
<1> QED
  BY <1>1, <1>2, MovedAside

LEMMA NextJobAside ==
  ASSUME TypeOK, JobsInv, NEW w \in Worker, NextJob(w), UNCHANGED approval
  PROVE  TypeOK' /\ JobsInv' /\ Aside(w)
<1>1. PICK j \in Waiting : worker' = [worker EXCEPT ![w] = [Idle EXCEPT !.at = "picked", !.job = j]]
  BY DEF NextJob, Go
<1>2. j \in DOMAIN jobs /\ j \in Nat
  BY JobsTyped DEF Waiting, TypeOK
<1> DEFINE r == [Idle EXCEPT !.at = "picked", !.job = j]
<1>3. r \in WorkerRow /\ r.at = "picked" /\ r.job = j
  <2>1. Idle \in WorkerRow /\ "picked" \in Places
    BY WritesTyped DEF Places
  <2> QED
    BY <1>2, <2>1 DEF WorkerRow
<1> HIDE DEF r
<1>4. worker' \in [Worker -> WorkerRow] /\ Alone(w) /\ worker'[w].at = "picked" /\ worker'[w].job = j
  BY <1>1, <1>3 DEF TypeOK, Alone, r
<1>5. worker'[w].at \notin Locks \union Executing /\ UNCHANGED <<file, item, batch, jobs, store, asset, holder>>
  BY <1>4, Apart DEF Executing, NextJob
<1>6. JobFits(w)'
  BY <1>2, <1>4, <1>5, Apart DEF JobFits, Locks
<1> QED
  BY <1>4, <1>5, <1>6, MovedAside

LEMMA MarkRunningAside ==
  ASSUME TypeOK, JobsInv, NEW w \in Worker, MarkRunning(w), UNCHANGED approval
  PROVE  TypeOK' /\ JobsInv' /\ Aside(w)
<1> DEFINE j == worker[w].job
<1>1. UNCHANGED <<file, item, batch, store, asset, holder>> /\ worker[w].at = "picked" /\ jobs[j].kind # "copy"
  BY DEF MarkRunning, At
<1>2. CASE Go(w, Idle) /\ UNCHANGED jobs
  BY <1>1, <1>2, GoneAside
<1>3. CASE /\ jobs[j].status \in {"queued", "failed", "interrupted"}
           /\ jobs' = [jobs EXCEPT ![j].status = "running", ![j].attempt = @ + 1] /\ Goto(w, jobs[j].kind)
  <2>1. j \in DOMAIN jobs /\ jobs[j] \in JobRow
    BY <1>1, JobsTyped DEF JobsInv, JobsHeld, JobFits, TypeOK
  <2>2. PICK kind \in {"scan", "preflight", "execute"} : jobs[j].kind = kind
    BY <1>1, <2>1 DEF JobRow, JobKind
  <2>3. OneJob(j, "running") /\ jobs' \in Seq(JobRow)
    <3>1. PICK n \in Nat : n = jobs[j].attempt + 1
      BY <2>1 DEF JobRow
    <3>2. jobs' = [jobs EXCEPT ![j].status = "running", ![j].attempt = n]
      BY <1>3, <2>1, <3>1, JobsTyped DEF JobRow, TypeOK
    <3> QED
      BY <2>1, <3>2, OneWritten DEF JobStatus, OneJob, JobsOfSameKind
  <2>4. /\ worker' \in [Worker -> WorkerRow] /\ Alone(w) /\ worker'[w].at = kind /\ worker'[w].job = j
    BY <1>3, <2>2, GotoTyped DEF Places
  <2>5. worker'[w].at \notin Locks
    BY <2>4, Apart
  <2>6. LockHeld'
    BY <1>1, <2>4, <2>5, LockMoves DEF JobsInv
  <2>7. JobsHeld' /\ ExecutedOnce' /\ CopiedOnce'
    <3>1. JobFits(w)'
      BY <2>1, <2>2, <2>3, <2>4, <2>5, Apart DEF JobFits, OneJob, JobsOfSameKind, Locks
    <3>2. \A v \in Worker \ {w} : worker[v].at \in Executing \union ClaimPlaces =>
             worker[v].job \in DOMAIN jobs /\ jobs[worker[v].job].status = "running"
      BY DEF JobsInv, JobsHeld, JobFits, Executing, ClaimPlaces, CopyPlaces, ItemPlaces
    <3>3. \A e \in Of("execute"), k \in Of("copy") : jobs[k].of = jobs[e].of =>
             e # j /\ jobs[e].status \in {"running", "completed"} /\ e \in DOMAIN jobs
      BY <1>3 DEF JobsInv, ExecutedOnce, Of
    <3>4. \A v \in Worker \ {w} : worker[v].at \in Executing \union ClaimPlaces =>
             jobs'[worker[v].job].status = jobs[worker[v].job].status
      BY <2>3, <3>2 DEF OneJob
    <3>5. \A e \in Of("execute"), k \in Of("copy") : jobs[k].of = jobs[e].of => jobs'[e].status \in {"running", "completed"}
      BY <2>3, <3>3 DEF OneJob
    <3>6. \A v \in Worker \ {w} : worker[v].at \in Executing => worker[v].job # worker'[w].job
      BY <1>3, <2>4, <3>2
    <3>7. worker'[w].at = "execute" => \A k \in Of("copy") : jobs[k].of # jobs[worker'[w].job].of
      BY <2>1, <2>2, <2>4, <3>3 DEF Of
    <3> QED
      BY <1>1, <2>3, <2>4, <3>1, <3>4, <3>5, <3>6, <3>7, JobsMove DEF OneJob, BatchKept
  <2> QED
    BY <1>1, <2>1, <2>3, <2>4, <2>5, <2>6, <2>7 DEF TypeOK, JobsInv, Aside, OneJob, JobsOfSameKind, Of
<1> QED
  BY <1>2, <1>3 DEF MarkRunning

LEMMA StartScanSteps ==
  ASSUME TypeOK, Carrying, JobsInv, NEW w \in Worker, StartScan(w), UNCHANGED approval
  PROVE  /\ TypeOK' /\ JobsInv' /\ Alone(w) /\ UNCHANGED <<file, item, store, asset>>
         /\ \/ Aside(w)
            \/ /\ worker'[w].at = "discover" /\ holder = None /\ BatchKept /\ batch'.status = "discovering"
               /\ JobsOfSameKind(jobs')
               /\ \A k \in DOMAIN jobs : jobs'[k].status = jobs[k].status \/ jobs'[k].status = "interrupted"
<1>1. CASE holder # None
  <2>1. /\ jobs' = Put(worker[w].job, "failed") /\ Go(w, Idle) /\ worker[w].at = "scan"
        /\ UNCHANGED <<file, item, batch, store, asset, approval, holder>>
    BY <1>1 DEF StartScan, At
  <2>2. "failed" \in JobStatus
    BY DEF JobStatus
  <2>3. TypeOK' /\ JobsInv' /\ Aside(w)
    BY <2>1, <2>2, EndedAside
  <2> QED
    BY <2>1, <2>3 DEF Aside
<1>2. CASE holder = None
  <2>1. /\ UNCHANGED <<file, item, store, asset, approval>> /\ worker[w].at = "scan"
        /\ holder' = w /\ jobs' = Retaken /\ Goto(w, "discover")
        /\ batch' = [batch EXCEPT !.status = "discovering", !.whole = FALSE]
    BY <1>2 DEF StartScan, At
  <2>2. TypeOK'
    BY ScanTypes DEF Scan
  <2>3. Alone(w) /\ worker'[w].at = "discover" /\ worker'[w].job = worker[w].job
    BY <2>1, GotoTyped DEF Places, ScanPlaces
  <2>4. BatchKept /\ batch'.status = "discovering"
    <3>1. "discovering" \in BatchStatus /\ FALSE \in BOOLEAN
      BY DEF BatchStatus
    <3> QED
      BY <2>1, <3>1, BatchShown
  <2>5. /\ JobsOfSameKind(jobs')
        /\ \A k \in DOMAIN jobs : jobs'[k].status = jobs[k].status
                                  \/ (jobs'[k].status = "interrupted" /\ jobs[k].kind \in {"copy", "preflight"})
    <3>1. jobs \in Seq(JobRow) /\ jobs \in [DOMAIN jobs -> JobRow]
      BY JobsTyped DEF TypeOK
    <3> DEFINE Made(r) == [r EXCEPT !.status = "interrupted"]
    <3>2. \A r \in JobRow : Made(r) \in JobRow /\ Made(r).kind = r.kind /\ Made(r).of = r.of /\ Made(r).status = "interrupted"
      BY DEF JobRow, JobStatus
    <3> DEFINE Left(r) == r.kind \in {"copy", "preflight"} /\ r.status = "running"
    <3>3. Retaken = [k \in DOMAIN jobs |-> IF Left(jobs[k]) THEN Made(jobs[k]) ELSE jobs[k]]
      BY DEF Retaken
    <3> HIDE DEF Made, Left
    <3>4. /\ Retaken \in [DOMAIN jobs -> JobRow]
          /\ \A k \in DOMAIN jobs : Retaken[k].kind = jobs[k].kind /\ Retaken[k].of = jobs[k].of
      BY <3>1, <3>2, <3>3
    <3>5. JobsOfSameKind(Retaken)
      BY <3>1, <3>4, JobsWritten
    <3>6. \A k \in DOMAIN jobs : Retaken[k].status = jobs[k].status
                                  \/ (Retaken[k].status = "interrupted" /\ Left(jobs[k]))
      BY <3>1, <3>2, <3>3
    <3>7. \A k \in DOMAIN jobs : Left(jobs[k]) => jobs[k].kind \in {"copy", "preflight"}
      BY DEF Left
    <3> QED
      BY <2>1, <3>5, <3>6, <3>7
  <2>6. LockHeld'
    BY <1>2, <2>1, <2>3, LockMoves, Apart DEF JobsInv, Locks, ScanPlaces
  <2>7. JobsHeld' /\ ExecutedOnce' /\ CopiedOnce'
    <3>1. \A v \in Worker \ {w} : worker[v].at \notin ClaimPlaces
      BY <1>2, InboxAssumption DEF JobsInv, LockHeld, Locks
    <3>2. \A v \in Worker \ {w} : worker[v].at \in Executing =>
             worker[v].job \in DOMAIN jobs /\ jobs[worker[v].job].kind = "execute"
      BY DEF JobsInv, JobsHeld, JobFits, Executing
    <3>3. \A v \in Worker \ {w} : worker[v].at \in Executing \union ClaimPlaces =>
             jobs'[worker[v].job].status = jobs[worker[v].job].status
      BY <2>5, <3>1, <3>2
    <3>4. \A e \in Of("execute"), k \in Of("copy") : jobs[k].of = jobs[e].of => jobs'[e].status \in {"running", "completed"}
      <4>1. \A e \in Of("execute") : e \in DOMAIN jobs /\ jobs[e].kind = "execute"
        BY DEF Of
      <4> QED
        BY <2>5, <4>1 DEF JobsInv, ExecutedOnce
    <3>5. JobFits(w)'
      <4>1. JobFits(w)
        BY DEF JobsInv, JobsHeld
      <4>2. worker[w].job \in DOMAIN jobs /\ jobs[worker[w].job].kind = "scan"
        BY <2>1, <4>1 DEF JobFits
      <4> QED
        BY <2>3, <2>5, <4>2, Apart DEF JobFits, JobsOfSameKind, ScanPlaces
    <3>6. worker'[w].at \notin Executing
      BY <2>3 DEF Executing
    <3> QED
      BY <2>1, <2>3, <2>4, <2>5, <3>3, <3>4, <3>5, <3>6, JobsMove
  <2> QED
    BY <1>2, <2>1, <2>2, <2>3, <2>4, <2>5, <2>6, <2>7 DEF JobsInv
<1> QED
  BY <1>1, <1>2

LEMMA PreflightAside ==
  ASSUME TypeOK, JobsInv, NEW w \in Worker, Preflight(w)
  PROVE  TypeOK' /\ JobsInv' /\ Aside(w)
<1>1. /\ UNCHANGED <<file, item, batch, store, asset, approval, holder>> /\ worker[w].at = "preflight" /\ Go(w, Idle)
      /\ \/ jobs' = Put(worker[w].job, "failed")
         \/ jobs' = [jobs EXCEPT ![worker[w].job].status = "completed", ![worker[w].job].seen = batch.rev]
  BY DEF Preflight, At, Rest
<1>2. batch.rev \in Nat /\ {"failed", "completed"} \subseteq JobStatus
  BY DEF TypeOK, BatchRow, JobStatus
<1>3. PICK st \in {"failed", "completed"} :
         \/ jobs' = Put(worker[w].job, st)
         \/ \E n \in Nat : jobs' = [jobs EXCEPT ![worker[w].job].status = st, ![worker[w].job].seen = n]
  BY <1>1, <1>2
<1> QED
  BY <1>1, <1>2, <1>3, EndedAside

LEMMA EndAuthorizeAside ==
  ASSUME TypeOK, JobsInv, NEW w \in Worker, EndAuthorize(w)
  PROVE  TypeOK' /\ JobsInv' /\ Aside(w)
<1>1. /\ UNCHANGED <<file, item, batch, store, asset, approval, holder>> /\ worker[w].at = "authorized" /\ Go(w, Idle)
      /\ jobs' = Put(worker[w].job, "completed") /\ "completed" \in JobStatus
  BY DEF EndAuthorize, At, Rest, JobStatus
<1> QED
  BY <1>1, EndedAside

LEMMA WakeKillAside ==
  ASSUME TypeOK, JobsInv, NEW w \in Worker, Wake(w) \/ Kill(w)
  PROVE  TypeOK' /\ JobsInv' /\ Aside(w)
<1>1. /\ UNCHANGED <<file, item, batch, jobs, store, asset, approval>> /\ (Go(w, Idle) \/ Go(w, Down))
      /\ (holder' = holder \/ holder = w)
  BY DEF Wake, Kill, Rest
<1> QED
  BY <1>1, GoneAside

LEMMA AskedAside ==
  ASSUME TypeOK, JobsInv, NEW kind \in {"scan", "preflight", "execute"}, NEW of \in Nat, jobs' = Enqueued(kind, of),
         kind = "execute" => of \in DOMAIN approval /\ \A e \in Of("execute") : jobs[e].of # of,
         UNCHANGED <<file, item, batch, store, asset, approval, worker, holder>>
  PROVE  TypeOK' /\ JobsInv' /\ Aside(None)
<1> DEFINE n == Len(jobs) + 1
<1>1. /\ jobs' \in Seq(JobRow) /\ DOMAIN jobs' = 1..n /\ DOMAIN jobs = 1..(n - 1) /\ n \in Nat \ {0}
      /\ \A k \in DOMAIN jobs : jobs'[k] = jobs[k]
      /\ jobs'[n] = Job(kind, of) /\ jobs'[n].kind = kind /\ jobs'[n].of = of
  <2>1. kind \in JobKind /\ jobs \in Seq(JobRow)
    BY DEF JobKind, TypeOK
  <2>2. Job(kind, of).kind = kind /\ Job(kind, of).of = of
    BY DEF Job
  <2> QED
    BY <2>1, <2>2, EnqueuedTyped, JobsTyped
<1> HIDE DEF n
<1>2. DOMAIN jobs' = DOMAIN jobs \union {n} /\ n \notin DOMAIN jobs
  BY <1>1
<1>3. /\ Of("copy")' = Of("copy")
      /\ kind # "execute" => Of("execute")' = Of("execute")
      /\ kind = "execute" => Of("execute")' = Of("execute") \union {n}
  BY <1>1, <1>2 DEF Of
<1>4. \A v \in Worker : JobFits(v) => JobFits(v)'
  BY <1>1, <1>2 DEF JobFits
<1>5. LockHeld' /\ JobsHeld'
  BY <1>4 DEF JobsInv, LockHeld, JobsHeld
<1>6. ExecutedOnce'
  <2>1. \A e, f \in Of("execute")' : jobs'[e].of = jobs'[f].of => e = f
    <3>1. \A e \in Of("execute") : e \in DOMAIN jobs /\ jobs'[e] = jobs[e]
      BY <1>1 DEF Of
    <3> QED
      BY <1>1, <1>3, <3>1 DEF JobsInv, ExecutedOnce
  <2>2. \A u, v \in Worker : worker'[u].at \in Executing /\ worker'[v].at \in Executing
                             /\ worker'[u].job = worker'[v].job => u = v
    BY DEF JobsInv, ExecutedOnce
  <2>3. ASSUME NEW j \in Of("copy")', NEW e \in Of("execute")', jobs'[j].of = jobs'[e].of
        PROVE  /\ jobs'[e].status \in {"running", "completed"}
               /\ \A v \in Worker : At(v, "execute")' => worker'[v].job # e
    <3>1. j \in Of("copy") /\ j \in DOMAIN jobs /\ jobs'[j] = jobs[j]
      BY <1>1, <1>3 DEF Of
    <3>2. e # n
      <4> SUFFICES ASSUME e = n
                   PROVE  FALSE
        OBVIOUS
      <4>1. kind = "execute" /\ jobs[j].of = of
        BY <1>1, <1>2, <1>3, <2>3, <3>1 DEF Of
      <4> QED
        BY <3>1, <4>1 DEF JobsInv, ExecutedOnce
    <3>3. e \in Of("execute") /\ jobs'[e] = jobs[e]
      BY <1>1, <1>3, <3>2 DEF Of
    <3> QED
      BY <2>3, <3>1, <3>3 DEF JobsInv, ExecutedOnce, At
  <2>4. \A j \in Of("copy")' : \E e \in Of("execute")' : jobs'[e].of = jobs'[j].of
    <3>1. \A j \in Of("copy") \union Of("execute") : jobs'[j] = jobs[j]
      BY <1>1 DEF Of
    <3> QED
      BY <1>3, <3>1 DEF JobsInv, ExecutedOnce
  <2> QED
    BY <2>1, <2>2, <2>3, <2>4 DEF ExecutedOnce
<1>7. CopiedOnce'
  <2>1. \A j \in Of("copy") \union Of("execute") : jobs'[j] = jobs[j]
    BY <1>1 DEF Of
  <2>2. jobs'[n].of \in DOMAIN approval \/ kind # "execute"
    BY <1>1
  <2> QED
    BY <1>3, <2>1, <2>2 DEF JobsInv, CopiedOnce
<1>8. Aside(None)
  <2>1. \A j \in Of("copy") : jobs'[j] = jobs[j]
    BY <1>1 DEF Of
  <2> QED
    BY <1>1, <1>2, <2>1, InboxAssumption DEF Aside, Alone
<1> QED
  BY <1>1, <1>5, <1>6, <1>7, <1>8 DEF TypeOK, JobsInv

LEMMA RequestsAside ==
  ASSUME TypeOK, JobsInv, (RequestScan /\ UNCHANGED approval) \/ RequestPreflight \/ RequestExecute
  PROVE  TypeOK' /\ JobsInv' /\ Aside(None)
<1>1. UNCHANGED <<file, item, batch, store, asset, approval, worker, holder>>
  BY DEF RequestScan, RequestPreflight, RequestExecute, Rest
<1>2. CASE RequestScan
  <2>1. jobs' = Enqueued("scan", 0) \/ jobs' = Enqueued("scan", 1)
    BY <1>2 DEF RequestScan, AllFiles, OnlyChanged
  <2> QED
    BY <1>1, <2>1, AskedAside
<1>3. CASE RequestPreflight
  <2>1. jobs' = Enqueued("preflight", 0)
    BY <1>3 DEF RequestPreflight
  <2> QED
    BY <1>1, <2>1, AskedAside
<1>4. CASE RequestExecute
  <2>1. PICK a \in DOMAIN approval : (~\E j \in Of("execute") : jobs[j].of = a) /\ jobs' = Enqueued("execute", a)
    BY <1>4 DEF RequestExecute
  <2>2. a \in Nat
    BY LenProperties DEF TypeOK
  <2> QED
    BY <1>1, <2>1, <2>2, AskedAside
<1> QED
  BY <1>2, <1>3, <1>4

LEMMA JobsUntouched ==
  ASSUME JobsInv, UNCHANGED <<jobs, worker, holder, approval>>, BatchKept
  PROVE  JobsInv'
BY DEF JobsInv, LockHeld, JobsHeld, JobFits, ExecutedOnce, CopiedOnce, Of, At, BatchKept

LEMMA DecideTyped ==
  ASSUME TypeOK, JobsInv, Decide, UNCHANGED approval
  PROVE  /\ TypeOK' /\ JobsInv' /\ AsApproved /\ AsCopied /\ BatchKept /\ batch'.status = batch.status
         /\ UNCHANGED <<file, jobs, store, asset, approval, worker, holder>>
<1>1. /\ UNCHANGED <<file, jobs, store, asset, approval, worker, holder>> /\ batch' = Rolled(batch)
      /\ \E i \in Here, d \in {"include", "exclude"} : item' = [item EXCEPT ![i].decision = d, ![i].by = @ + 1]
  BY DEF Decide
<1>2. PICK i \in Item, d \in Decision : item' = [item EXCEPT ![i].decision = d, ![i].by = @ + 1]
  BY <1>1 DEF Here, Decision
<1>3. PICK n \in Nat : n = item[i].by + 1
  BY RowsTyped DEF ItemRow
<1> DEFINE Made(r) == [r EXCEPT !.decision = d, !.by = n]
<1>4. \A r \in ItemRow : /\ Made(r) \in ItemRow /\ Made(r).here = r.here /\ Made(r).seen = r.seen /\ Made(r).hash = r.hash
                         /\ Made(r).obs = r.obs /\ Made(r).under = r.under /\ Made(r).copy = r.copy
  BY DEF ItemRow
<1>5. item' = [item EXCEPT ![i] = Made(item[i])]
  BY <1>2, <1>3 DEF TypeOK, ItemRow
<1> HIDE DEF Made
<1>6. item' \in [Item -> ItemRow] /\ AsApproved /\ AsCopied
  BY <1>4, <1>5 DEF TypeOK, AsApproved, AsCopied
<1>7. batch' \in BatchRow /\ BatchKept /\ batch'.status = batch.status
  <2>1. batch \in BatchRow /\ batch' \in BatchRow
    BY <1>1, WritesTyped DEF TypeOK
  <2> QED
    BY <1>1, <2>1 DEF Rolled, BatchRow, BatchKept
<1> QED
  BY <1>1, <1>6, <1>7, JobsUntouched DEF TypeOK

LEMMA EditTyped ==
  ASSUME TypeOK, JobsInv, Edit, UNCHANGED approval
  PROVE  /\ TypeOK' /\ JobsInv' /\ UNCHANGED <<item, batch, jobs, store, asset, approval, worker, holder>>
         /\ \E i \in Item : /\ file'[i].stamp = file[i].stamp + 1
                            /\ \A j \in Item \ {i} : file'[j] = file[j]
<1>1. UNCHANGED <<item, batch, jobs, store, asset, approval, worker, holder>>
  BY DEF Edit
<1>2. PICK i \in Item, c \in Content \union {None} : file' = [file EXCEPT ![i] = [bytes |-> c, stamp |-> @.stamp + 1]]
  BY DEF Edit
<1>3. file \in [Item -> FileRow] /\ file[i].stamp \in Nat
  BY DEF TypeOK, FileRow
<1>4. file' \in [Item -> FileRow]
  BY <1>2, <1>3 DEF FileRow
<1>5. file'[i].stamp = file[i].stamp + 1 /\ \A j \in Item \ {i} : file'[j] = file[j]
  BY <1>2, <1>3
<1> QED
  BY <1>1, <1>4, <1>5, JobsUntouched DEF TypeOK, BatchKept

\* A pause, a resume or a cancel: a job that runs goes on, with the control to heed.
LEMMA ControlsTyped ==
  ASSUME TypeOK, JobsInv, Pause \/ Resume \/ Cancel
  PROVE  /\ TypeOK' /\ JobsInv' /\ BatchKept /\ UNCHANGED <<file, item, store, asset, approval, worker, holder>>
         /\ batch.job \in Of("copy") /\ JobsOfSameKind(jobs')
         /\ \A j \in DOMAIN jobs : j # batch.job => jobs'[j].status = jobs[j].status
         /\ jobs'[batch.job].status # "completed"
         /\ IF jobs[batch.job].status = "running"
            THEN jobs'[batch.job].status = "running" /\ batch'.status = batch.status
            ELSE batch'.status # "complete"
<1>1. batch.job \in Of("copy") /\ batch.job \in DOMAIN jobs
  BY DEF Pause, Resume, Cancel, CanControl, JobsInv, CopiedOnce, Of
<1>2. PICK st \in JobStatus, c \in Control, shown \in BatchStatus :
         /\ Controlled(st, c, shown) /\ st # "completed"
         /\ IF jobs[batch.job].status = "running" THEN st = "running" /\ shown = batch.status ELSE shown # "complete"
  <2>1. batch.status \in BatchStatus
    BY DEF TypeOK, BatchRow
  <2>2. {"running", "paused", "queued", "cancelled"} \subseteq JobStatus
    BY DEF JobStatus
  <2>3. {"pause_requested", "paused", "run", "cancel_requested", "cancelled"} \subseteq Control
    BY DEF Control
  <2>4. {"paused", "interrupted", "cancelled"} \subseteq BatchStatus
    BY DEF BatchStatus
  <2>5. CASE Pause
    <3>1. CASE jobs[batch.job].status = "running" /\ Controlled("running", "pause_requested", batch.status)
      BY <2>1, <2>2, <2>3, <3>1
    <3>2. CASE jobs[batch.job].status \in {"queued", "paused", "interrupted"} /\ Controlled("paused", "paused", "paused")
      BY <2>2, <2>3, <2>4, <3>2
    <3> QED
      BY <2>5, <3>1, <3>2 DEF Pause
  <2>6. CASE Resume
    <3>1. jobs[batch.job].status = "paused" /\ Controlled("queued", "run", "interrupted")
      BY <2>6 DEF Resume
    <3> QED
      BY <2>2, <2>3, <2>4, <3>1
  <2>7. CASE Cancel
    <3>1. CASE jobs[batch.job].status = "running" /\ Controlled("running", "cancel_requested", batch.status)
      BY <2>1, <2>2, <2>3, <3>1
    <3>2. CASE /\ jobs[batch.job].status \in {"queued", "paused", "interrupted", "failed"}
               /\ Controlled("cancelled", "cancelled", "cancelled")
      BY <2>2, <2>3, <2>4, <3>2
    <3> QED
      BY <2>7, <3>1, <3>2 DEF Cancel
  <2> QED
    BY <2>5, <2>6, <2>7
<1>3. UNCHANGED <<file, item, store, asset, approval, worker, holder>>
  BY <1>2 DEF Controlled, Rest
<1>4. OneJob(batch.job, st)
  <2>1. jobs' = [jobs EXCEPT ![batch.job].status = st, ![batch.job].control = c]
    BY <1>2 DEF Controlled
  <2>2. PICK j \in DOMAIN jobs : j = batch.job
    BY <1>1
  <2> QED
    BY <2>1, <2>2, OneWritten
<1>5. batch' \in BatchRow /\ BatchKept /\ batch'.status = shown
  BY <1>2, BatchShown DEF Controlled
<1>6. JobsOfSameKind(jobs') /\ jobs' \in Seq(JobRow)
  BY <1>4 DEF OneJob, JobsOfSameKind
<1>7. LockHeld'
  BY <1>3 DEF JobsInv, LockHeld
<1>8. JobsHeld' /\ ExecutedOnce' /\ CopiedOnce'
  <2>1. \A v \in Worker \ {None} : worker[v].at \in Executing \union ClaimPlaces =>
             jobs'[worker[v].job].status = jobs[worker[v].job].status
    <3>1. \A v \in Worker : worker[v].at \in Executing \union ClaimPlaces =>
             worker[v].job \in DOMAIN jobs /\ jobs[worker[v].job].status = "running"
      BY DEF JobsInv, JobsHeld, JobFits, Executing, ClaimPlaces, CopyPlaces, ItemPlaces
    <3> QED
      BY <1>2, <1>4, <3>1 DEF OneJob
  <2>2. \A e \in Of("execute"), k \in Of("copy") : jobs[k].of = jobs[e].of => jobs'[e].status \in {"running", "completed"}
    <3>1. \A e \in Of("execute") : e \in DOMAIN jobs /\ e # batch.job
      BY <1>1 DEF Of
    <3> QED
      BY <1>4, <3>1 DEF OneJob, JobsInv, ExecutedOnce
  <2>3. Alone(None) /\ None \notin Worker
    BY <1>3, InboxAssumption DEF Alone
  <2> QED
    BY <1>3, <1>5, <1>6, <2>1, <2>2, <2>3, JobsMove
<1> QED
  BY <1>1, <1>2, <1>3, <1>4, <1>5, <1>6, <1>7, <1>8 DEF TypeOK, JobsInv, OneJob

LEMMA ApprovalsTyped ==
  ASSUME TypeOK
  PROVE  /\ DOMAIN approval = 1..Len(approval) /\ Len(approval) \in Nat
         /\ approval \in [DOMAIN approval -> Approval]
         /\ \A a \in DOMAIN approval : approval[a].rows \in UNION {[S -> ApprovedRow] : S \in SUBSET Item}
<1>1. DOMAIN approval = 1..Len(approval) /\ Len(approval) \in Nat /\ approval \in Seq(Approval)
  BY LenProperties DEF TypeOK
<1>2. \A a \in DOMAIN approval : approval[a] \in Approval
  BY <1>1, ElementOfSeq
<1> QED
  BY <1>1, <1>2, SeqDef DEF Approval

LEMMA StatusWritten ==
  ASSUME TypeOK, NEW a \in DOMAIN approval, NEW st \in ApprovalStatus, approval' = [approval EXCEPT ![a].status = st]
  PROVE  /\ approval' \in Seq(Approval) /\ DOMAIN approval' = DOMAIN approval /\ Len(approval') = Len(approval)
         /\ \A b \in DOMAIN approval : approval'[b].rows = approval[b].rows
<1> DEFINE Made(r) == [r EXCEPT !.status = st]
<1>1. \A r \in Approval : Made(r) \in Approval /\ Made(r).rows = r.rows
  BY DEF Approval
<1>2. approval \in [DOMAIN approval -> Approval] /\ approval \in Seq(Approval)
  BY ApprovalsTyped DEF TypeOK
<1>3. approval' = [approval EXCEPT ![a] = Made(approval[a])]
  BY <1>2
<1> HIDE DEF Made
<1>4. approval' \in [DOMAIN approval -> Approval] /\ \A b \in DOMAIN approval : approval'[b].rows = approval[b].rows
  BY <1>1, <1>2, <1>3
<1> QED
  BY <1>2, <1>4, Remade

LEMMA ApproveTyped ==
  ASSUME TypeOK, JobsInv, Approve
  PROVE  /\ TypeOK' /\ JobsInv' /\ UNCHANGED <<file, jobs, store, asset, worker, holder>> /\ Decided
         /\ batch'.active = Len(approval) + 1 /\ batch'.job = 0 /\ batch'.status = batch.status
         /\ batch.status \in {"awaiting_review", "failed", "cancelled", "complete"}
         /\ DOMAIN approval' = DOMAIN approval \union {Len(approval) + 1}
         /\ \A a \in DOMAIN approval : approval'[a].rows = approval[a].rows
         /\ approval'[Len(approval) + 1].rows = Snapshot
         /\ \A i \in Item : /\ item'[i].here = item[i].here /\ item'[i].seen = item[i].seen
                            /\ item'[i].hash = item[i].hash /\ item'[i].obs = item[i].obs
                            /\ IF item[i].here
                               THEN /\ item'[i].under = Len(approval) + 1
                                    /\ item'[i].copy \in {"approved", "excluded", "skipped"}
                               ELSE item'[i].under = item[i].under /\ item'[i].copy = item[i].copy
<1> DEFINE id == Len(approval) + 1
           old == [a \in DOMAIN approval |-> Superseded(approval[a])]
           new == [status |-> "approved", rev |-> batch.rev, rows |-> Snapshot]
<1>1. /\ UNCHANGED <<file, jobs, store, asset, worker, holder>> /\ Decided
      /\ approval' = Append(old, new)
      /\ item' = [i \in Item |-> IF i \in Here THEN Reset(i, id) ELSE item[i]]
      /\ batch' = [batch EXCEPT !.active = id, !.job = 0]
      /\ batch.status \in {"awaiting_review", "failed", "cancelled", "complete"}
  BY DEF Approve, Rest, ReviewReady
<1>2. id \in Nat \ {0} /\ DOMAIN approval = 1..(id - 1) /\ id \notin DOMAIN approval
  BY ApprovalsTyped
<1>3. /\ old \in Seq(Approval) /\ Len(old) = Len(approval) /\ DOMAIN old = DOMAIN approval
      /\ \A a \in DOMAIN approval : old[a].rows = approval[a].rows
  <2>1. \A r \in Approval : Superseded(r) \in Approval /\ Superseded(r).rows = r.rows
    BY DEF Superseded, Approval, ApprovalStatus
  <2>2. old \in [DOMAIN approval -> Approval] /\ \A a \in DOMAIN approval : old[a].rows = approval[a].rows
    BY <2>1, ApprovalsTyped
  <2> QED
    BY <2>2, Remade DEF TypeOK
<1>4. Snapshot \in [Here -> ApprovedRow] /\ Here \in SUBSET Item
  <2>1. Here \in SUBSET Item
    BY DEF Here
  <2>2. ASSUME NEW i \in Item
        PROVE  Row(i) \in ApprovedRow
    <3>1. Eligible(i) \in BOOLEAN
      BY DEF Eligible
    <3>2. item[i] \in ItemRow
      BY RowsTyped
    <3> QED
      BY <3>1, <3>2 DEF Row, ApprovedRow, ItemRow
  <2> QED
    BY <2>1, <2>2 DEF Snapshot
<1>5. new \in Approval /\ new.rows = Snapshot
  <2>1. batch.rev \in Nat /\ "approved" \in ApprovalStatus
    BY DEF TypeOK, BatchRow, ApprovalStatus
  <2>2. Snapshot \in UNION {[S -> ApprovedRow] : S \in SUBSET Item}
    BY <1>4
  <2> QED
    BY <2>1, <2>2 DEF Approval
<1> HIDE DEF old, new
<1>6. /\ approval' \in Seq(Approval) /\ Len(approval') = id /\ DOMAIN approval' = 1..id
      /\ \A a \in DOMAIN approval : approval'[a].rows = approval[a].rows
      /\ approval'[id].rows = Snapshot
  <2>1. /\ Append(old, new) \in Seq(Approval) /\ Len(Append(old, new)) = Len(old) + 1
        /\ \A a \in 1..Len(old) : Append(old, new)[a] = old[a]
        /\ Append(old, new)[Len(old) + 1] = new
    BY <1>3, <1>5, AppendProperties
  <2>2. DOMAIN Append(old, new) = 1..(Len(old) + 1)
    BY <2>1, LenProperties
  <2> QED
    BY <1>1, <1>2, <1>3, <1>5, <2>1, <2>2
<1>7. DOMAIN approval' = DOMAIN approval \union {id}
  BY <1>2, <1>6
<1>8. batch' \in BatchRow /\ batch'.active = id /\ batch'.job = 0 /\ batch'.status = batch.status
  <2>1. batch \in BatchRow /\ batch' \in BatchRow
    BY <1>1, <1>2, WritesTyped DEF TypeOK
  <2> QED
    BY <1>1, <2>1 DEF BatchRow
<1>9. /\ item' \in [Item -> ItemRow]
      /\ \A i \in Item : /\ item'[i].here = item[i].here /\ item'[i].seen = item[i].seen
                         /\ item'[i].hash = item[i].hash /\ item'[i].obs = item[i].obs
                         /\ IF item[i].here
                            THEN item'[i].under = id /\ item'[i].copy \in {"approved", "excluded", "skipped"}
                            ELSE item'[i].under = item[i].under /\ item'[i].copy = item[i].copy
  <2> DEFINE Made(r, c) == [r EXCEPT !.under = id, !.copy = c]
  <2>1. \A r \in ItemRow, c \in {"approved", "excluded", "skipped"} :
           /\ Made(r, c) \in ItemRow /\ Made(r, c).here = r.here /\ Made(r, c).seen = r.seen /\ Made(r, c).hash = r.hash
           /\ Made(r, c).obs = r.obs /\ Made(r, c).under = id /\ Made(r, c).copy = c
    BY <1>2 DEF ItemRow, CopyStatus
  <2>2. \A i \in Item : \E c \in {"approved", "excluded", "skipped"} : Reset(i, id) = Made(item[i], c)
    BY DEF Reset
  <2> HIDE DEF Made
  <2>3. \A i \in Item : item[i] \in ItemRow /\ (i \in Here <=> item[i].here)
    BY RowsTyped DEF Here
  <2>4. ASSUME NEW i \in Item
        PROVE  /\ item'[i] \in ItemRow
               /\ item'[i].here = item[i].here /\ item'[i].seen = item[i].seen
               /\ item'[i].hash = item[i].hash /\ item'[i].obs = item[i].obs
               /\ IF item[i].here
                  THEN item'[i].under = id /\ item'[i].copy \in {"approved", "excluded", "skipped"}
                  ELSE item'[i].under = item[i].under /\ item'[i].copy = item[i].copy
    <3>1. CASE item[i].here
      <4>1. PICK c \in {"approved", "excluded", "skipped"} : item'[i] = Made(item[i], c)
        BY <1>1, <2>2, <2>3, <3>1
      <4>2. item[i] \in ItemRow
        BY <2>3
      <4>3. /\ item'[i] \in ItemRow /\ item'[i].here = item[i].here /\ item'[i].seen = item[i].seen
            /\ item'[i].hash = item[i].hash /\ item'[i].obs = item[i].obs /\ item'[i].under = id /\ item'[i].copy = c
        BY <2>1, <4>1, <4>2
      <4> QED
        BY <3>1, <4>1, <4>3
    <3>2. CASE ~item[i].here
      BY <1>1, <2>3, <3>2
    <3> QED
      BY <3>1, <3>2
  <2>5. item' = [i \in Item |-> item'[i]]
    BY <1>1
  <2> QED
    BY <2>4, <2>5
<1>10. JobsInv'
  <2>1. LockHeld' /\ JobsHeld' /\ ExecutedOnce'
    BY <1>1 DEF JobsInv, LockHeld, JobsHeld, JobFits, ExecutedOnce, Of, At
  <2>2. \A j \in Of("copy") \union Of("execute") : jobs[j].of \in DOMAIN approval
    BY DEF JobsInv, CopiedOnce
  <2>3. CopiedOnce'
    BY <1>1, <1>2, <1>6, <1>7, <1>8, <2>2 DEF CopiedOnce, Of
  <2> QED
    BY <2>1, <2>3 DEF JobsInv
<1>11. TypeOK'
  BY <1>1, <1>6, <1>8, <1>9 DEF TypeOK
<1> HIDE DEF id
<1> QED
  BY <1>1, <1>6, <1>7, <1>8, <1>9, <1>10, <1>11 DEF id

LEMMA AuthorizeSteps ==
  ASSUME TypeOK, JobsInv, NEW w \in Worker, Authorize(w)
  PROVE  /\ TypeOK' /\ JobsInv' /\ Alone(w) /\ UNCHANGED <<file, item, store, asset>>
         /\ \/ Aside(w)
            \/ /\ worker'[w].at = "authorized"
               /\ batch'.active = batch.active /\ batch'.status = batch.status
               /\ batch'.job \in DOMAIN jobs' /\ jobs'[batch'.job].status = "queued"
               /\ DOMAIN approval' = DOMAIN approval
               /\ \A a \in DOMAIN approval : approval'[a].rows = approval[a].rows
               /\ DOMAIN jobs \subseteq DOMAIN jobs' /\ \A k \in DOMAIN jobs : jobs'[k] = jobs[k]
<1> DEFINE j == worker[w].job
           a == jobs[j].of
           n == Len(jobs) + 1
<1>1. UNCHANGED <<file, item, store, asset, holder>> /\ worker[w].at = "execute"
  BY DEF Authorize, At, Rest
<1>2. JobFits(w) /\ j \in DOMAIN jobs /\ j \in Of("execute") /\ jobs[j].status = "running" /\ a \in DOMAIN approval
  <2>1. JobFits(w)
    BY DEF JobsInv, JobsHeld
  <2>2. j \in DOMAIN jobs /\ j \in Of("execute") /\ jobs[j].status = "running"
    BY <1>1, <2>1 DEF JobFits, Of
  <2> QED
    BY <2>1, <2>2 DEF JobsInv, CopiedOnce
<1>3. CASE ~StillApproved(a)
  <2>1. jobs' = Put(j, "failed") /\ Go(w, Idle) /\ UNCHANGED <<approval, batch>> /\ "failed" \in JobStatus
    BY <1>3 DEF Authorize, JobStatus
  <2>2. TypeOK' /\ JobsInv' /\ Aside(w)
    BY <1>1, <2>1, EndedAside
  <2> QED
    BY <1>1, <2>2 DEF Aside
<1>4. CASE StillApproved(a)
  <2>1. /\ jobs' = Append(jobs, Job("copy", a)) /\ approval' = [approval EXCEPT ![a].status = "authorized"]
        /\ batch' = [batch EXCEPT !.job = n] /\ Goto(w, "authorized") /\ batch.active = a
    BY <1>4 DEF Authorize, StillApproved
  <2>2. /\ jobs' \in Seq(JobRow) /\ DOMAIN jobs' = 1..n /\ DOMAIN jobs = 1..(n - 1) /\ n \in Nat \ {0}
        /\ \A k \in DOMAIN jobs : jobs'[k] = jobs[k]
        /\ jobs'[n].kind = "copy" /\ jobs'[n].of = a /\ jobs'[n].status = "queued"
    <3>1. "copy" \in JobKind /\ a \in Nat /\ jobs \in Seq(JobRow)
      BY <1>2, ApprovalsTyped DEF JobKind, TypeOK
    <3>2. jobs' = Enqueued("copy", a)
      BY <2>1 DEF Enqueued
    <3>3. Job("copy", a).kind = "copy" /\ Job("copy", a).of = a /\ Job("copy", a).status = "queued"
      BY DEF Job
    <3>4. /\ jobs' \in Seq(JobRow) /\ DOMAIN jobs' = 1..(Len(jobs) + 1)
          /\ \A k \in DOMAIN jobs : jobs'[k] = jobs[k]
          /\ jobs'[Len(jobs) + 1] = Job("copy", a)
      BY <3>1, <3>2, EnqueuedTyped
    <3> QED
      BY <3>1, <3>3, <3>4, JobsTyped
  <2>3. /\ approval' \in Seq(Approval) /\ DOMAIN approval' = DOMAIN approval /\ Len(approval') = Len(approval)
        /\ \A b \in DOMAIN approval : approval'[b].rows = approval[b].rows
    <3>1. "authorized" \in ApprovalStatus
      BY DEF ApprovalStatus
    <3> QED
      BY <1>2, <2>1, <3>1, StatusWritten
  <2>4. batch' \in BatchRow /\ batch'.active = batch.active /\ batch'.status = batch.status /\ batch'.job = n
    <3>1. batch \in BatchRow /\ batch' \in BatchRow
      BY <2>1, <2>2, WritesTyped DEF TypeOK
    <3> QED
      BY <2>1, <3>1 DEF BatchRow
  <2>5. worker' \in [Worker -> WorkerRow] /\ Alone(w) /\ worker'[w].at = "authorized" /\ worker'[w].job = j
    BY <2>1, GotoTyped DEF Places
  <2> HIDE DEF n, j, a
  <2>6. DOMAIN jobs' = DOMAIN jobs \union {n} /\ n \notin DOMAIN jobs
    BY <2>2
  <2>7. Of("copy")' = Of("copy") \union {n} /\ Of("execute")' = Of("execute")
    BY <2>2, <2>6 DEF Of
  <2>8. \A k \in Of("copy") : k \in DOMAIN jobs /\ jobs'[k] = jobs[k] /\ jobs[k].of # a
    <3>1. \A k \in Of("copy") : jobs[k].of = jobs[j].of => FALSE
      BY <1>1, <1>2 DEF JobsInv, ExecutedOnce, At, j
    <3> QED
      BY <2>2, <3>1 DEF Of, a
  <2>9. \A e \in Of("execute") : e \in DOMAIN jobs /\ jobs'[e] = jobs[e]
    BY <2>2 DEF Of
  <2>10. LockHeld'
    BY <1>1, <2>5, LockMoves, Apart DEF JobsInv
  <2>11. JobsHeld'
    <3>1. ASSUME NEW v \in Worker
          PROVE  JobFits(v)'
      <4>1. CASE v = w
        BY <1>2, <2>2, <2>5, <2>6, <4>1, Apart DEF JobFits, Of, Locks, j
      <4>2. CASE v # w
        <5>1. worker'[v] = worker[v] /\ JobFits(v)
          BY <2>5, <4>2 DEF Alone, JobsInv, JobsHeld
        <5> QED
          BY <2>2, <2>6, <5>1 DEF JobFits
      <4> QED
        BY <4>1, <4>2
    <3> QED
      BY <3>1 DEF JobsHeld
  <2>12. ExecutedOnce'
    <3>1. \A e, f \in Of("execute")' : jobs'[e].of = jobs'[f].of => e = f
      BY <2>7, <2>9 DEF JobsInv, ExecutedOnce
    <3>2. \A u, v \in Worker : worker'[u].at \in Executing /\ worker'[v].at \in Executing
                               /\ worker'[u].job = worker'[v].job => u = v
      <4>1. \A u \in Worker : /\ worker'[u].at \in Executing => worker[u].at \in Executing
                              /\ worker'[u].job = worker[u].job
        BY <1>1, <2>5 DEF Alone, Executing, j
      <4> QED
        BY <4>1 DEF JobsInv, ExecutedOnce
    <3>3. \A k \in Of("copy")' : \E e \in Of("execute")' : jobs'[e].of = jobs'[k].of
      <4>1. jobs'[j].of = jobs'[n].of
        BY <1>2, <2>2, <2>9 DEF a
      <4> QED
        BY <1>2, <2>7, <2>8, <2>9, <4>1 DEF JobsInv, ExecutedOnce
    <3>4. ASSUME NEW k \in Of("copy")', NEW e \in Of("execute")', jobs'[k].of = jobs'[e].of
          PROVE  /\ jobs'[e].status \in {"running", "completed"}
                 /\ \A v \in Worker : At(v, "execute")' => worker'[v].job # e
      <4>1. CASE k \in Of("copy")
        <5>1. jobs[k].of = jobs[e].of /\ e \in Of("execute") /\ jobs'[e] = jobs[e]
          BY <2>7, <2>8, <2>9, <3>4, <4>1
        <5>2. \A v \in Worker : worker'[v].at = "execute" => worker[v].at = "execute" /\ worker'[v].job = worker[v].job
          BY <2>5 DEF Alone
        <5> QED
          BY <4>1, <5>1, <5>2 DEF JobsInv, ExecutedOnce, At
      <4>2. CASE k = n
        <5>1. e \in Of("execute") /\ jobs[e].of = a /\ jobs'[e] = jobs[e]
          BY <2>2, <2>7, <2>9, <3>4, <4>2
        <5>2. e = j
          BY <1>2, <5>1 DEF JobsInv, ExecutedOnce, a
        <5>3. \A v \in Worker : worker'[v].at = "execute" => v # w /\ worker[v].at = "execute" /\ worker'[v].job = worker[v].job
          BY <2>5 DEF Alone
        <5>4. \A v \in Worker : worker'[v].at = "execute" => worker'[v].job # j
          BY <1>1, <5>3 DEF JobsInv, ExecutedOnce, Executing, j
        <5> QED
          BY <1>2, <5>1, <5>2, <5>4 DEF At
      <4> QED
        BY <2>7, <4>1, <4>2
    <3> QED
      BY <3>1, <3>2, <3>3, <3>4 DEF ExecutedOnce
  <2>13. CopiedOnce'
    <3>1. \A k \in Of("copy") \union Of("execute") : jobs'[k] = jobs[k] /\ jobs[k].of \in DOMAIN approval
      BY <2>8, <2>9 DEF JobsInv, CopiedOnce
    <3>2. \A k \in (Of("copy") \union Of("execute"))' : jobs'[k].of \in DOMAIN approval'
      BY <1>2, <2>2, <2>3, <2>7, <3>1
    <3>3. \A k \in Of("copy")' : jobs'[k].of = batch'.active => k = batch'.job
      BY <2>1, <2>4, <2>7, <2>8
    <3> QED
      BY <2>1, <2>2, <2>3, <2>4, <2>7, <3>2, <3>3 DEF JobsInv, CopiedOnce
  <2>14. TypeOK'
    BY <1>1, <2>2, <2>3, <2>4, <2>5 DEF TypeOK
  <2> QED
    BY <1>1, <2>2, <2>3, <2>4, <2>5, <2>6, <2>10, <2>11, <2>12, <2>13, <2>14 DEF JobsInv
<1> QED
  BY <1>3, <1>4

LEMMA ClaimSteps ==
  ASSUME TypeOK, JobsInv, NEW w \in Worker, Claim(w)
  PROVE  /\ TypeOK' /\ JobsInv' /\ Alone(w) /\ BatchKept /\ UNCHANGED <<file, item, store, asset, approval>>
         /\ \/ Aside(w)
            \/ /\ holder = None /\ worker'[w].at \in {"claimed", "idle"}
               /\ JobsOfSameKind(jobs') /\ (batch'.status = batch.status \/ batch'.status = "interrupted")
               /\ \A k \in DOMAIN jobs : jobs'[k].status = jobs[k].status \/ jobs'[k].status # "completed"
<1> DEFINE j == worker[w].job
<1>1. UNCHANGED <<file, item, store, asset, approval>> /\ worker[w].at = "picked" /\ jobs[j].kind = "copy"
  BY DEF Claim, At
<1>2. CASE holder # None
  <2>1. Go(w, Idle) /\ UNCHANGED <<jobs, batch, holder>>
    BY <1>2 DEF Claim
  <2>2. TypeOK' /\ JobsInv' /\ Aside(w)
    BY <1>1, <2>1, GoneAside
  <2> QED
    BY <1>1, <2>1, <2>2 DEF Aside, BatchKept
<1>3. CASE holder = None
  <2>1. PICK late \in SUBSET Running :
          LET js == [k \in DOMAIN jobs |-> IF k \in late THEN Recovered(jobs[k]) ELSE jobs[k]]
          IN /\ batch' = IF late = {} THEN batch ELSE [batch EXCEPT !.status = "interrupted"]
             /\ IF Claimable(js[j])
                THEN /\ jobs' = [js EXCEPT ![j].status = "running", ![j].attempt = @ + 1]
                     /\ Goto(w, "claimed") /\ holder' = w
                ELSE /\ jobs' = js
                     /\ Go(w, Idle) /\ UNCHANGED holder
    BY <1>3 DEF Claim
  <2> DEFINE js == [k \in DOMAIN jobs |-> IF k \in late THEN Recovered(jobs[k]) ELSE jobs[k]]
  <2>2. j \in DOMAIN jobs
    BY <1>1 DEF JobsInv, JobsHeld, JobFits
  <2>3. /\ js \in [DOMAIN jobs -> JobRow]
        /\ \A k \in DOMAIN jobs : /\ js[k].kind = jobs[k].kind /\ js[k].of = jobs[k].of
                                  /\ k \notin Of("copy") => js[k].status = jobs[k].status
                                  /\ js[k].status = jobs[k].status \/ js[k].status \in {"queued", "failed"}
    <3>1. \A r \in JobRow : /\ Recovered(r) \in JobRow /\ Recovered(r).kind = r.kind /\ Recovered(r).of = r.of
                            /\ Recovered(r).status \in {"queued", "failed"}
      BY DEF Recovered, JobRow, JobStatus
    <3>2. jobs \in [DOMAIN jobs -> JobRow] /\ late \subseteq Of("copy")
      BY JobsTyped DEF TypeOK, Running
    <3> QED
      BY <3>1, <3>2
  <2> HIDE DEF js
  <2>4. /\ batch' \in BatchRow /\ BatchKept /\ (batch'.status = batch.status \/ batch'.status = "interrupted")
    <3>1. CASE late = {}
      BY <2>1, <3>1 DEF TypeOK, BatchKept
    <3>2. CASE late # {}
      <4>1. batch' = [batch EXCEPT !.status = "interrupted"] /\ "interrupted" \in BatchStatus
        BY <2>1, <3>2 DEF BatchStatus
      <4> QED
        BY <4>1, BatchShown
    <3> QED
      BY <3>1, <3>2
  <2>5. CASE Claimable(js[j])
    <3>1. jobs' = [js EXCEPT ![j].status = "running", ![j].attempt = @ + 1] /\ Goto(w, "claimed") /\ holder' = w
      BY <2>1, <2>5 DEF js
    <3>2. PICK n \in Nat : n = js[j].attempt + 1
      BY <2>2, <2>3 DEF JobRow
    <3> DEFINE Made(r) == [r EXCEPT !.status = "running", !.attempt = n]
    <3>3. \A r \in JobRow : Made(r) \in JobRow /\ Made(r).kind = r.kind /\ Made(r).of = r.of /\ Made(r).status = "running"
      BY DEF JobRow, JobStatus
    <3>4. jobs' = [js EXCEPT ![j] = Made(js[j])]
      BY <2>2, <2>3, <3>1, <3>2
    <3> HIDE DEF Made
    <3>5. /\ jobs' \in [DOMAIN jobs -> JobRow]
          /\ \A k \in DOMAIN jobs : /\ jobs'[k].kind = jobs[k].kind /\ jobs'[k].of = jobs[k].of
                                    /\ jobs'[k].status = IF k = j THEN "running" ELSE js[k].status
      BY <2>2, <2>3, <3>3, <3>4
    <3>6. JobsOfSameKind(jobs')
      <4>1. \A f \in [DOMAIN jobs -> JobRow] :
              (\A k \in DOMAIN jobs : f[k].kind = jobs[k].kind /\ f[k].of = jobs[k].of) => JobsOfSameKind(f)
        BY JobsWritten DEF TypeOK
      <4> QED
        BY <3>5, <4>1
    <3>7. worker' \in [Worker -> WorkerRow] /\ Alone(w) /\ worker'[w].at = "claimed" /\ worker'[w].job = j
      BY <3>1, GotoTyped DEF Places, ClaimPlaces
    <3>8. LockHeld'
      BY <1>3, <3>1, <3>7, LockMoves, Apart DEF JobsInv, Locks, ClaimPlaces
    <3>9. JobFits(w)'
      BY <1>1, <2>2, <3>5, <3>6, <3>7, Apart DEF JobFits, JobsOfSameKind, Locks, ClaimPlaces, ScanPlaces
    <3>10. /\ \A v \in Worker \ {w} : worker[v].at \in Executing \union ClaimPlaces =>
                jobs'[worker[v].job].status = jobs[worker[v].job].status
           /\ \A e \in Of("execute"), k \in Of("copy") : jobs[k].of = jobs[e].of =>
                jobs'[e].status \in {"running", "completed"}
      <4>1. \A v \in Worker \ {w} : worker[v].at \notin ClaimPlaces
        BY <1>3, InboxAssumption DEF JobsInv, LockHeld, Locks
      <4>2. \A v \in Worker \ {w} : worker[v].at \in Executing => worker[v].job \in Of("execute")
        BY DEF JobsInv, JobsHeld, JobFits, Executing, Of
      <4>3. \A e \in Of("execute") : e \in DOMAIN jobs /\ e \notin Of("copy") /\ e # j
        BY <1>1 DEF Of
      <4>4. \A e \in Of("execute") : jobs'[e].status = jobs[e].status
        BY <2>3, <3>5, <4>3
      <4> QED
        BY <4>1, <4>2, <4>4 DEF JobsInv, ExecutedOnce
    <3>11. JobsHeld' /\ ExecutedOnce' /\ CopiedOnce'
      <4>1. worker'[w].at \notin Executing
        BY <3>7 DEF Executing
      <4> QED
        BY <1>1, <2>4, <3>6, <3>7, <3>9, <3>10, <4>1, JobsMove
    <3>12. \A k \in DOMAIN jobs : jobs'[k].status = jobs[k].status \/ jobs'[k].status # "completed"
      BY <2>3, <3>5
    <3> QED
      BY <1>1, <1>3, <2>4, <3>6, <3>7, <3>8, <3>11, <3>12 DEF TypeOK, JobsInv, JobsOfSameKind
  <2>6. CASE ~Claimable(js[j])
    <3>1. jobs' = js /\ Go(w, Idle) /\ UNCHANGED holder
      BY <2>1, <2>6 DEF js
    <3>2. JobsOfSameKind(jobs')
      <4>1. \A f \in [DOMAIN jobs -> JobRow] :
              (\A k \in DOMAIN jobs : f[k].kind = jobs[k].kind /\ f[k].of = jobs[k].of) => JobsOfSameKind(f)
        BY JobsWritten DEF TypeOK
      <4> QED
        BY <2>3, <3>1, <4>1
    <3>3. worker' \in [Worker -> WorkerRow] /\ Alone(w) /\ worker'[w].at = "idle"
      <4>1. Idle.at = "idle"
        BY DEF Idle
      <4> QED
        BY <3>1, <4>1, GoneTyped DEF Go, TypeOK
    <3>4. LockHeld' /\ JobFits(w)'
      BY <3>1, <3>3, LockMoves, Apart DEF JobsInv, JobFits
    <3>5. /\ \A v \in Worker \ {w} : worker[v].at \in Executing \union ClaimPlaces =>
                jobs'[worker[v].job].status = jobs[worker[v].job].status
          /\ \A e \in Of("execute"), k \in Of("copy") : jobs[k].of = jobs[e].of =>
                jobs'[e].status \in {"running", "completed"}
      <4>1. \A v \in Worker \ {w} : worker[v].at \notin ClaimPlaces
        BY <1>3, InboxAssumption DEF JobsInv, LockHeld, Locks
      <4>2. \A v \in Worker \ {w} : worker[v].at \in Executing => worker[v].job \in Of("execute")
        BY DEF JobsInv, JobsHeld, JobFits, Executing, Of
      <4>3. \A e \in Of("execute") : e \in DOMAIN jobs /\ e \notin Of("copy")
        BY DEF Of
      <4>4. \A e \in Of("execute") : jobs'[e].status = jobs[e].status
        BY <2>3, <3>1, <4>3
      <4> QED
        BY <4>1, <4>2, <4>4 DEF JobsInv, ExecutedOnce
    <3>6. JobsHeld' /\ ExecutedOnce' /\ CopiedOnce'
      <4>1. worker'[w].at \notin Executing
        BY <3>3 DEF Executing
      <4> QED
        BY <1>1, <2>4, <3>2, <3>3, <3>4, <3>5, <4>1, JobsMove
    <3>7. \A k \in DOMAIN jobs : jobs'[k].status = jobs[k].status \/ jobs'[k].status # "completed"
      BY <2>3, <3>1
    <3> QED
      BY <1>1, <1>3, <2>4, <3>2, <3>3, <3>4, <3>6, <3>7 DEF TypeOK, JobsInv, JobsOfSameKind
  <2> QED
    BY <2>5, <2>6
<1> QED
  BY <1>2, <1>3

LEMMA CheckClaimSteps ==
  ASSUME TypeOK, JobsInv, NEW w \in Worker, CheckClaim(w)
  PROVE  /\ TypeOK' /\ JobsInv' /\ Alone(w) /\ UNCHANGED <<file, item, batch, jobs, store, asset, approval>>
         /\ \/ Aside(w)
            \/ /\ worker[w].at = "claimed" /\ worker'[w].at = "checked" /\ worker'[w].job = worker[w].job
               /\ InForce(w) /\ holder' = holder
<1>1. UNCHANGED <<file, item, batch, jobs, store, asset, approval>> /\ worker[w].at = "claimed"
  BY DEF CheckClaim, At
<1>2. CASE InForce(w)
  <2>1. Goto(w, "checked") /\ holder' = holder
    BY <1>2 DEF CheckClaim, InForce, OfClaim
  <2>2. worker' \in [Worker -> WorkerRow] /\ Alone(w) /\ worker'[w].at = "checked" /\ worker'[w].job = worker[w].job
    BY <2>1, GotoTyped DEF Places, ClaimPlaces
  <2>3. holder = w
    BY <1>1 DEF JobsInv, LockHeld, Locks, ClaimPlaces
  <2>4. LockHeld'
    BY <2>1, <2>2, <2>3, LockMoves DEF JobsInv, Locks, ClaimPlaces
  <2>5. JobFits(w)'
    <3>1. JobFits(w)
      BY DEF JobsInv, JobsHeld
    <3> QED
      BY <1>1, <2>2, <3>1 DEF JobFits, ClaimPlaces, ScanPlaces
  <2>6. JobsHeld' /\ ExecutedOnce' /\ CopiedOnce'
    BY <1>1, <2>2, <2>5, JobsStay DEF BatchKept, Executing
  <2> QED
    BY <1>1, <1>2, <2>1, <2>2, <2>4, <2>6 DEF TypeOK, JobsInv
<1>3. CASE ~InForce(w)
  <2>1. Go(w, Idle) /\ holder = w
    BY <1>1, <1>3 DEF CheckClaim, InForce, OfClaim, JobsInv, LockHeld, Locks, ClaimPlaces
  <2>2. TypeOK' /\ JobsInv' /\ Aside(w)
    BY <1>1, <2>1, GoneAside
  <2> QED
    BY <1>1, <2>2 DEF Aside
<1> QED
  BY <1>2, <1>3

LEMMA StartCopySteps ==
  ASSUME TypeOK, JobsInv, NEW w \in Worker, StartCopy(w)
  PROVE  /\ TypeOK' /\ JobsInv' /\ Alone(w) /\ BatchKept /\ UNCHANGED <<file, item, jobs, store, asset, holder>>
         /\ batch'.status = "copying"
         /\ DOMAIN approval' = DOMAIN approval /\ \A a \in DOMAIN approval : approval'[a].rows = approval[a].rows
         /\ worker[w].at = "checked" /\ worker'[w].at = "copy" /\ worker'[w].job = worker[w].job
         /\ worker'[w].todo = {i \in DOMAIN ApprovedOf(w) : ApprovedOf(w)[i].ok}
<1> DEFINE a == jobs[worker[w].job].of
<1>1. /\ UNCHANGED <<file, item, jobs, store, asset, holder>> /\ worker[w].at = "checked"
      /\ batch' = [batch EXCEPT !.status = "copying"] /\ approval' = [approval EXCEPT ![a].status = "consumed"]
      /\ worker' = [worker EXCEPT ![w].at = "copy", ![w].todo = {i \in DOMAIN approval[a].rows : approval[a].rows[i].ok}]
  BY DEF StartCopy, At, Rest
<1>2. JobFits(w)
  BY DEF JobsInv, JobsHeld
<1>3. a \in DOMAIN approval
  BY <1>1, <1>2 DEF JobFits, JobsInv, CopiedOnce, Of, ClaimPlaces
<1>4. /\ approval' \in Seq(Approval) /\ DOMAIN approval' = DOMAIN approval /\ Len(approval') = Len(approval)
      /\ \A b \in DOMAIN approval : approval'[b].rows = approval[b].rows
  <2>1. "consumed" \in ApprovalStatus
    BY DEF ApprovalStatus
  <2> QED
    BY <1>1, <1>3, <2>1, StatusWritten
<1>5. batch' \in BatchRow /\ BatchKept /\ batch'.status = "copying"
  BY <1>1, BatchShown DEF BatchStatus
<1>6. /\ worker' \in [Worker -> WorkerRow] /\ Alone(w) /\ worker'[w].at = "copy" /\ worker'[w].job = worker[w].job
      /\ worker'[w].todo = {i \in DOMAIN approval[a].rows : approval[a].rows[i].ok}
  <2>1. PICK S \in SUBSET Item : S = {i \in DOMAIN approval[a].rows : approval[a].rows[i].ok}
    <3>1. DOMAIN approval[a].rows \in SUBSET Item
      BY <1>3, ApprovalsTyped
    <3> QED
      BY <3>1
  <2>2. worker' = [worker EXCEPT ![w].at = "copy", ![w].todo = S]
    BY <1>1, <2>1
  <2>3. worker \in [Worker -> WorkerRow] /\ "copy" \in Places
    BY DEF TypeOK, Places, ClaimPlaces, CopyPlaces
  <2>4. worker' \in [Worker -> WorkerRow]
    BY <2>2, <2>3, WorkerTyped
  <2>5. /\ Alone(w) /\ worker'[w].at = "copy" /\ worker'[w].job = worker[w].job /\ worker'[w].todo = S
    BY <2>2, <2>3 DEF WorkerRow, Alone
  <2> QED
    BY <2>1, <2>4, <2>5
<1> HIDE DEF a
<1>7. holder = w
  BY <1>1 DEF JobsInv, LockHeld, Locks, ClaimPlaces
<1>8. LockHeld'
  BY <1>1, <1>6, <1>7, LockMoves DEF JobsInv, Locks, ClaimPlaces, CopyPlaces
<1>9. JobFits(w)'
  BY <1>1, <1>2, <1>6 DEF JobFits, ClaimPlaces, CopyPlaces, ScanPlaces
<1>10. JobsHeld' /\ ExecutedOnce' /\ CopiedOnce'
  BY <1>1, <1>4, <1>5, <1>6, <1>9, JobsStay DEF Executing
<1> QED
  BY <1>1, <1>4, <1>5, <1>6, <1>8, <1>10 DEF TypeOK, JobsInv, ApprovedOf, OfClaim, a

LEMMA ScanStepJobs ==
  ASSUME TypeOK, Carrying, JobsInv, NEW w \in Worker, ScanStep(w), UNCHANGED approval
  PROVE  JobsInv'
<1>1. /\ Alone(w) /\ BatchKept /\ worker'[w].job = worker[w].job /\ worker[w].at \in ScanPlaces
      /\ worker'[w].at \in ScanPlaces /\ UNCHANGED <<jobs, holder>>
  BY ScanStepTyped
<1>2. holder = w /\ JobFits(w)
  BY <1>1 DEF JobsInv, LockHeld, JobsHeld, Locks
<1>3. LockHeld'
  BY <1>1, <1>2, LockMoves DEF JobsInv, Locks
<1>4. JobFits(w)'
  BY <1>1, <1>2, Apart DEF JobFits, Locks, ScanPlaces
<1>5. worker'[w].at \notin Executing
  BY <1>1 DEF Executing, ScanPlaces
<1> QED
  BY <1>1, <1>3, <1>4, <1>5, JobsStay DEF JobsInv

LEMMA ItemStepJobs ==
  ASSUME TypeOK, Carrying, JobsInv, NEW w \in Worker, InHand(w), ItemStep(w)
  PROVE  JobsInv'
<1>1. /\ Alone(w) /\ BatchKept /\ worker'[w].job = worker[w].job /\ worker[w].at \in CopyPlaces
      /\ worker'[w].at \in CopyPlaces /\ UNCHANGED <<jobs, approval, holder>>
  BY ItemStepTyped DEF BatchKept
<1>2. holder = w /\ JobFits(w) /\ worker[w].at \in ClaimPlaces /\ worker'[w].at \in ClaimPlaces
  BY <1>1 DEF JobsInv, LockHeld, JobsHeld, Locks, ClaimPlaces
<1>3. LockHeld'
  BY <1>1, <1>2, LockMoves DEF JobsInv, Locks
<1>4. JobFits(w)' /\ worker'[w].at \notin Executing
  BY <1>1, <1>2, Apart DEF JobFits, ClaimPlaces, CopyPlaces, ItemPlaces, ScanPlaces, Executing
<1> QED
  BY <1>1, <1>3, <1>4, JobsStay DEF JobsInv

LEMMA EndsJobs ==
  ASSUME TypeOK, JobsInv, NEW w \in Worker, Alone(w), UNCHANGED approval, BatchKept, NEW st,
         worker[w].at \in ScanPlaces \union CopyPlaces, worker'[w].at \in {"idle", "down"}, holder' = None,
         OneJob(worker[w].job, st)
  PROVE  JobsInv'
<1>1. holder = w /\ worker[w].at # "authorized"
  BY DEF JobsInv, LockHeld, Locks, ScanPlaces, ClaimPlaces, CopyPlaces, ItemPlaces
<1>2. LockHeld'
  BY <1>1, LockMoves, Apart DEF JobsInv
<1>3. JobsHeld' /\ ExecutedOnce' /\ CopiedOnce'
  BY <1>1, JobsEnded
<1> QED
  BY <1>2, <1>3 DEF JobsInv

-----------------------------------------------------------------------------
(* What a step leaves alone stays true.                                    *)

RowsKept == DOMAIN approval' = DOMAIN approval /\ \A a \in DOMAIN approval : approval'[a].rows = approval[a].rows

LEMMA Carried ==
  ASSUME Carrying, NEW w, Alone(w),
         w \in Worker => worker'[w].at \notin {"classify"} \union ItemPlaces
  PROVE  Carrying'
<1> SUFFICES ASSUME NEW v \in Worker
             PROVE  /\ worker'[v].at \in {"classify"} \union ItemPlaces =>
                         worker'[v].item \in Item /\ worker'[v].row \in ItemRow
                    /\ worker'[v].at \in ItemPlaces \ {"started"} => worker'[v].key \in Key
  BY DEF Carrying
<1>1. CASE v = w
  BY <1>1
<1>2. CASE v # w
  BY <1>2 DEF Alone, Carrying
<1> QED
  BY <1>1, <1>2

LEMMA HereStays ==
  ASSUME AsApproved
  PROVE  Here' = Here
BY DEF AsApproved, Here

LEMMA ActiveIsApproval ==
  ASSUME TypeOK, JobsInv
  PROVE  /\ batch.active # 0 => batch.active \in DOMAIN approval
         /\ \A a \in DOMAIN approval : DOMAIN approval[a].rows \subseteq Item
<1>1. batch.active \in 0..Len(approval)
  BY DEF JobsInv, CopiedOnce
<1> QED
  BY <1>1, ApprovalsTyped

LEMMA ManifestStays ==
  ASSUME TypeOK, JobsInv, ManifestInv, UNCHANGED file, AsApproved, RowsKept, batch'.active = batch.active
  PROVE  ManifestInv'
<1>1. SeenTruly'
  BY DEF ManifestInv, SeenTruly, AsApproved, Exists, Changed
<1>2. ApprovedTruly'
  BY DEF ManifestInv, ApprovedTruly, RowsKept, Bound
<1>3. UnderApproval'
  <2>1. \A i \in Item : item'[i].under = item[i].under
    BY DEF AsApproved
  <2>2. /\ \A i \in Item : item[i].under # 0 => item[i].under \in DOMAIN approval
                                               /\ i \in DOMAIN approval[item[i].under].rows
        /\ batch.active # 0 => \A i \in DOMAIN approval[batch.active].rows : item[i].under = batch.active
    BY DEF ManifestInv, UnderApproval
  <2>3. \A i \in Item : item'[i].under # 0 => item'[i].under \in DOMAIN approval'
                                               /\ i \in DOMAIN approval'[item'[i].under].rows
    BY <2>1, <2>2 DEF RowsKept
  <2>4. batch'.active # 0 => \A i \in DOMAIN approval'[batch'.active].rows : item'[i].under = batch'.active
    BY <2>1, <2>2, ActiveIsApproval DEF RowsKept
  <2> QED
    BY <2>3, <2>4 DEF UnderApproval
<1> QED
  BY <1>1, <1>2, <1>3 DEF ManifestInv

LEMMA KeptStays ==
  ASSUME TypeOK, ManifestInv, VerifiedIsKept, AsCopied, DOMAIN approval \subseteq DOMAIN approval',
         \A a \in DOMAIN approval : approval'[a].rows = approval[a].rows, UNCHANGED <<store, asset>>
  PROVE  VerifiedIsKept'
<1> SUFFICES ASSUME NEW i \in Item, item'[i].copy = "verified"
             PROVE  item'[i].under # 0 /\ Kept(item[i].under, i)'
  BY DEF VerifiedIsKept, AsCopied
<1>1. item[i].copy = "verified" /\ item'[i].under = item[i].under /\ item[i].under # 0 /\ Kept(item[i].under, i)
  BY DEF VerifiedIsKept, AsCopied
<1>2. item[i].under \in DOMAIN approval
  BY <1>1 DEF ManifestInv, UnderApproval
<1> QED
  BY <1>1, <1>2 DEF Kept, Bound

LEMMA NoClaim ==
  ASSUME NEW w, worker[w].at \notin {"checked"} \union CopyPlaces \union ScanPlaces
  PROVE  ClaimOf(w)
BY Apart DEF ClaimOf, ClaimOutlived, DoneOrFailed, InHand, NotYetComplete

\* A worker that holds on to its claim while another steps beside it.
LEMMA ClaimStays ==
  ASSUME TypeOK, JobsInv, NEW v \in Worker, ClaimOf(v), worker'[v] = worker[v], AsApproved, AsCopied, UNCHANGED store,
         batch'.active = batch.active, batch'.status = batch.status, RowsKept,
         worker[v].at \in Locks => jobs'[worker[v].job].of = jobs[worker[v].job].of,
         batch'.job # 0 /\ jobs'[batch'.job].status = "completed" => batch.job # 0 /\ jobs[batch.job].status = "completed"
  PROVE  ClaimOf(v)'
<1>1. CASE worker[v].at \notin Locks
  <2>1. worker'[v].at \notin {"checked"} \union CopyPlaces \union ScanPlaces
    BY <1>1 DEF Locks, ClaimPlaces
  <2> QED
    BY <2>1 DEF ClaimOf, ClaimOutlived, DoneOrFailed, InHand, NotYetComplete, CopyPlaces
<1>2. CASE worker[v].at \in ScanPlaces
  <2>1. worker[v].at \notin {"checked"} \union CopyPlaces \union ItemPlaces
    BY <1>2, Apart DEF ClaimPlaces
  <2> QED
    BY <2>1 DEF ClaimOf, ClaimOutlived, DoneOrFailed, InHand, NotYetComplete
<1>3. CASE worker[v].at \in ClaimPlaces
  <2>1. worker[v].at \in Locks /\ worker[v].at \notin ScanPlaces /\ OfClaim(v) \in DOMAIN approval
    <3>1. JobFits(v)
      BY DEF JobsInv, JobsHeld
    <3>2. worker[v].job \in Of("copy")
      BY <1>3, <3>1, Apart DEF JobFits, Of, Locks
    <3> QED
      BY <1>3, <3>2, Apart DEF JobsInv, CopiedOnce, OfClaim
  <2>2. OfClaim(v)' = OfClaim(v) /\ InForce(v)' = InForce(v) /\ ApprovedOf(v)' = ApprovedOf(v)
    BY <2>1 DEF OfClaim, InForce, ApprovedOf, RowsKept
  <2>3. Here' = Here /\ Here \subseteq Item
    BY HereStays DEF Here
  <2>4. ClaimOutlived(v)'
    BY <2>2, <2>3 DEF ClaimOf, ClaimOutlived, AsApproved
  <2>5. DoneOrFailed(v)'
    BY <2>2, <2>3 DEF ClaimOf, DoneOrFailed, AsCopied
  <2>6. InHand(v)'
    <3>1. worker[v].at \in ItemPlaces => worker[v].item \in Item
      <4>1. worker[v].todo \in SUBSET Item
        BY DEF TypeOK, WorkerRow
      <4> QED
        BY <4>1 DEF ClaimOf, InHand
    <3> QED
      BY <2>2, <3>1 DEF ClaimOf, InHand, AsApproved, AsCopied, Bound
  <2>7. NotYetComplete(v)'
    BY DEF ClaimOf, NotYetComplete
  <2> QED
    BY <2>4, <2>5, <2>6, <2>7 DEF ClaimOf
<1> QED
  BY <1>1, <1>2, <1>3 DEF Locks

LEMMA CompleteStays ==
  ASSUME TypeOK, JobsInv, CompleteIsVerified, AsApproved, AsCopied, RowsKept, batch'.active = batch.active,
         batch'.status = "complete" /\ batch'.job # 0 /\ jobs'[batch'.job].status = "completed" =>
             batch.status = "complete" /\ batch.job # 0 /\ jobs[batch.job].status = "completed"
  PROVE  CompleteIsVerified'
<1> SUFFICES ASSUME batch'.status = "complete", batch'.job # 0, jobs'[batch'.job].status = "completed", NEW i \in Here'
             PROVE  LET a == batch'.active
                    IN i \in DOMAIN approval'[a].rows /\ approval'[a].rows[i].ok => item'[i].copy = "verified"
  BY DEF CompleteIsVerified
<1>1. batch.active \in DOMAIN approval
  BY DEF JobsInv, CopiedOnce, Of
<1>2. i \in Here /\ i \in Item
  BY HereStays DEF Here
<1> QED
  BY <1>1, <1>2 DEF CompleteIsVerified, RowsKept, AsCopied

-----------------------------------------------------------------------------
(* The invariant, step by step: the steps aside, the reviewer's, the       *)
(* claim's.                                                                *)

LEMMA AsideKeeps ==
  ASSUME CopyInv, TypeOK', JobsInv', NEW w, Aside(w)
  PROVE  CopyInv'
<1>1. AsApproved /\ AsCopied /\ RowsKept /\ Alone(w)
  BY DEF Aside, AsApproved, AsCopied, RowsKept
<1>2. w \in Worker => worker'[w].at \notin Locks
  BY DEF Aside
<1>3. Carrying'
  BY <1>1, <1>2, Carried, Apart DEF CopyInv, Locks, ScanPlaces
<1>4. ManifestInv' /\ VerifiedIsKept'
  BY <1>1, ManifestStays, KeptStays DEF CopyInv, Aside, RowsKept
<1>5. batch.job # 0 => batch.job \in Of("copy")
  BY DEF CopyInv, JobsInv, CopiedOnce
<1>6. CompleteIsVerified'
  BY <1>1, <1>5, CompleteStays DEF CopyInv, Aside
<1>7. ClaimInv'
  <2> SUFFICES ASSUME NEW v \in Worker
               PROVE  ClaimOf(v)'
    BY DEF ClaimInv
  <2>1. CASE v = w
    <3>1. worker'[v].at \notin Locks
      BY <1>2, <2>1
    <3>2. worker'[v].at \notin {"checked"} \union CopyPlaces \union ScanPlaces
      BY <3>1 DEF Locks, ClaimPlaces
    <3> QED
      BY <3>2, Apart DEF ClaimOf, ClaimOutlived, DoneOrFailed, InHand, NotYetComplete
  <2>2. CASE v # w
    <3>1. worker'[v] = worker[v] /\ ClaimOf(v)
      BY <2>2 DEF Aside, Alone, CopyInv, ClaimInv
    <3>2. worker[v].at \in Locks => worker[v].job \in DOMAIN jobs
      <4>1. JobFits(v)
        BY DEF CopyInv, JobsInv, JobsHeld
      <4> QED
        BY <4>1, Apart DEF JobFits
    <3> QED
      BY <1>1, <1>5, <3>1, <3>2, ClaimStays DEF CopyInv, Aside
  <2> QED
    BY <2>1, <2>2
<1> QED
  BY <1>3, <1>4, <1>6, <1>7 DEF CopyInv

\* A step of nobody's, that leaves to everybody what he has.
LEMMA CalmKeeps ==
  ASSUME CopyInv, TypeOK', JobsInv', UNCHANGED <<file, store, asset, worker>>, AsApproved, AsCopied, RowsKept,
         UNCHANGED jobs, BatchKept, batch'.status = batch.status
  PROVE  CopyInv'
<1>1. Carrying'
  BY DEF CopyInv, Carrying
<1>2. ManifestInv' /\ VerifiedIsKept'
  BY ManifestStays, KeptStays DEF CopyInv, RowsKept, BatchKept
<1>3. CompleteIsVerified'
  BY CompleteStays DEF CopyInv, BatchKept
<1>4. ClaimInv'
  BY ClaimStays DEF CopyInv, ClaimInv, BatchKept
<1> QED
  BY <1>1, <1>2, <1>3, <1>4 DEF CopyInv

LEMMA DecideKeeps ==
  ASSUME CopyInv, Decide, UNCHANGED approval
  PROVE  CopyInv'
<1>1. /\ TypeOK' /\ JobsInv' /\ AsApproved /\ AsCopied /\ BatchKept /\ batch'.status = batch.status
      /\ UNCHANGED <<file, jobs, store, asset, approval, worker, holder>>
  BY DecideTyped DEF CopyInv
<1> QED
  BY <1>1, CalmKeeps DEF RowsKept

LEMMA EditKeeps ==
  ASSUME CopyInv, Edit, UNCHANGED approval
  PROVE  CopyInv'
<1>1. TypeOK' /\ JobsInv' /\ UNCHANGED <<item, batch, jobs, store, asset, approval, worker, holder>>
  BY EditTyped DEF CopyInv
<1>2. PICK i \in Item : file'[i].stamp = file[i].stamp + 1 /\ \A j \in Item \ {i} : file'[j] = file[j]
  BY EditTyped DEF CopyInv
<1>3. Carrying' /\ VerifiedIsKept' /\ CompleteIsVerified' /\ ClaimInv'
  <2>1. Carrying' /\ CompleteIsVerified'
    BY <1>1 DEF CopyInv, Carrying, CompleteIsVerified, Here
  <2>2. VerifiedIsKept'
    BY <1>1, KeptStays DEF CopyInv, AsCopied
  <2>3. ClaimInv'
    BY <1>1, ClaimStays DEF CopyInv, ClaimInv, AsApproved, AsCopied, RowsKept
  <2> QED
    BY <2>1, <2>2, <2>3
<1>4. file[i].stamp \in Nat /\ \A j \in Item : item[j].seen \in Nat
  BY RowsTyped DEF CopyInv, FileRow, ItemRow
<1>5. SeenTruly'
  <2> SUFFICES ASSUME NEW j \in Item
               PROVE  /\ item[j].seen <= file'[j].stamp
                      /\ item[j].seen = file'[j].stamp /\ item[j].hash \in Content => item[j].hash = file'[j].bytes
                      /\ item[j].obs # None => item[j].obs[1] = item[j].seen
                      /\ ~item[j].here => ~(file'[j].bytes # None) \/ file'[j].stamp # item[j].seen
    BY <1>1 DEF SeenTruly, Exists, Changed
  <2>1. /\ item[j].seen <= file[j].stamp
        /\ item[j].seen = file[j].stamp /\ item[j].hash \in Content => item[j].hash = file[j].bytes
        /\ item[j].obs # None => item[j].obs[1] = item[j].seen
        /\ ~item[j].here => ~(file[j].bytes # None) \/ file[j].stamp # item[j].seen
    BY DEF CopyInv, ManifestInv, SeenTruly, Exists, Changed
  <2>2. CASE j = i
    BY <1>2, <1>4, <2>1, <2>2
  <2>3. CASE j # i
    BY <1>2, <2>1, <2>3
  <2> QED
    BY <2>2, <2>3
<1>6. ApprovedTruly'
  <2> SUFFICES ASSUME NEW a \in DOMAIN approval, NEW j \in DOMAIN approval[a].rows
               PROVE  LET r == approval[a].rows[j]
                      IN /\ r.ok => r.hash \in Content
                         /\ Bound(r) => r.obs[1] <= file'[j].stamp
                         /\ Bound(r) /\ r.obs[1] = file'[j].stamp /\ r.hash \in Content => r.hash = file'[j].bytes
    BY <1>1 DEF ApprovedTruly, Bound
  <2> DEFINE r == approval[a].rows[j]
  <2>1. /\ r.ok => r.hash \in Content
        /\ Bound(r) => r.obs[1] <= file[j].stamp
        /\ Bound(r) /\ r.obs[1] = file[j].stamp /\ r.hash \in Content => r.hash = file[j].bytes
    BY DEF CopyInv, ManifestInv, ApprovedTruly
  <2>2. j \in Item /\ r \in ApprovedRow
    BY ApprovalsTyped DEF CopyInv
  <2>3. Bound(r) => r.obs[1] \in Nat
    BY <2>2 DEF ApprovedRow, Observations, Bound
  <2> HIDE DEF r
  <2>4. CASE j = i
    BY <1>2, <1>4, <2>1, <2>3, <2>4 DEF r
  <2>5. CASE j # i
    BY <1>2, <2>1, <2>2, <2>5 DEF r
  <2> QED
    BY <2>4, <2>5
<1>7. UnderApproval'
  BY <1>1 DEF CopyInv, ManifestInv, UnderApproval
<1> QED
  BY <1>1, <1>3, <1>5, <1>6, <1>7 DEF CopyInv, ManifestInv

LEMMA ControlsKeep ==
  ASSUME CopyInv, Pause \/ Resume \/ Cancel
  PROVE  CopyInv'
<1>1. /\ TypeOK' /\ JobsInv' /\ BatchKept /\ UNCHANGED <<file, item, store, asset, approval, worker, holder>>
      /\ batch.job \in Of("copy") /\ JobsOfSameKind(jobs')
      /\ \A j \in DOMAIN jobs : j # batch.job => jobs'[j].status = jobs[j].status
      /\ jobs'[batch.job].status # "completed"
      /\ IF jobs[batch.job].status = "running"
         THEN jobs'[batch.job].status = "running" /\ batch'.status = batch.status
         ELSE batch'.status # "complete"
  BY ControlsTyped DEF CopyInv
<1>2. AsApproved /\ AsCopied /\ RowsKept /\ Carrying'
  BY <1>1 DEF AsApproved, AsCopied, RowsKept, CopyInv, Carrying
<1>3. ManifestInv' /\ VerifiedIsKept'
  BY <1>1, <1>2, ManifestStays, KeptStays DEF CopyInv, RowsKept, BatchKept
<1>4. CompleteIsVerified'
  BY <1>1 DEF CompleteIsVerified, BatchKept
<1>5. ClaimInv'
  <2> SUFFICES ASSUME NEW v \in Worker
               PROVE  ClaimOf(v)'
    BY DEF ClaimInv
  <2>1. ClaimOf(v) /\ JobFits(v)
    BY DEF CopyInv, ClaimInv, JobsInv, JobsHeld
  <2>2. worker[v].at \in Locks => jobs'[worker[v].job].of = jobs[worker[v].job].of
    BY <1>1, <2>1, Apart DEF JobFits, JobsOfSameKind
  <2>3. CASE jobs[batch.job].status = "running"
    BY <1>1, <1>2, <2>1, <2>2, <2>3, ClaimStays DEF CopyInv, BatchKept
  <2>4. CASE jobs[batch.job].status # "running"
    <3>1. worker[v].at \in ClaimPlaces => ~InForce(v) /\ OfClaim(v) \in DOMAIN approval
      <4> SUFFICES ASSUME worker[v].at \in ClaimPlaces
                   PROVE  ~InForce(v) /\ OfClaim(v) \in DOMAIN approval
        OBVIOUS
      <4>1. worker[v].job \in Of("copy") /\ jobs[worker[v].job].status = "running"
        BY <2>1, Apart DEF JobFits, Of, Locks
      <4>2. worker[v].job # batch.job
        BY <2>4, <4>1
      <4> QED
        BY <4>1, <4>2 DEF CopyInv, JobsInv, CopiedOnce, InForce, OfClaim
    <3>2. worker[v].at \in Locks => OfClaim(v)' = OfClaim(v) /\ InForce(v)' = InForce(v)
      BY <1>1, <2>2 DEF OfClaim, InForce, BatchKept
    <3>3. worker[v].at \in Locks => ApprovedOf(v)' = ApprovedOf(v)
      BY <1>1, <3>2 DEF ApprovedOf
    <3>4. ClaimOutlived(v)' /\ NotYetComplete(v)'
      BY <1>1, <2>1, <2>4, <3>2, Apart DEF ClaimOf, ClaimOutlived, NotYetComplete, BatchKept, Here, ClaimPlaces
    <3>5. DoneOrFailed(v)' /\ InHand(v)'
      <4>1. worker[v].at \notin ItemPlaces
        BY <2>1, <3>1, Apart DEF ClaimOf, InHand
      <4> QED
        BY <1>1, <2>1, <3>1, <3>2, <3>3, <4>1, Apart DEF ClaimOf, DoneOrFailed, InHand
    <3> QED
      BY <3>4, <3>5 DEF ClaimOf
  <2> QED
    BY <2>3, <2>4
<1> QED
  BY <1>1, <1>2, <1>3, <1>4, <1>5 DEF CopyInv

LEMMA ApproveKeeps ==
  ASSUME CopyInv, Approve
  PROVE  CopyInv'
<1>1. PICK n \in Nat :
      /\ n = Len(approval) + 1
      /\ TypeOK' /\ JobsInv' /\ UNCHANGED <<file, jobs, store, asset, worker, holder>> /\ Decided
      /\ batch'.active = n /\ batch'.job = 0 /\ batch'.status = batch.status
      /\ batch.status \in {"awaiting_review", "failed", "cancelled", "complete"}
      /\ DOMAIN approval' = DOMAIN approval \union {n} /\ n \notin DOMAIN approval
      /\ \A a \in DOMAIN approval : approval'[a].rows = approval[a].rows
      /\ approval'[n].rows = Snapshot
      /\ \A i \in Item : /\ item'[i].here = item[i].here /\ item'[i].seen = item[i].seen
                         /\ item'[i].hash = item[i].hash /\ item'[i].obs = item[i].obs
                         /\ IF item[i].here
                            THEN item'[i].under = n /\ item'[i].copy \in {"approved", "excluded", "skipped"}
                            ELSE item'[i].under = item[i].under /\ item'[i].copy = item[i].copy
  <2>1. Len(approval) + 1 \in Nat /\ Len(approval) + 1 \notin DOMAIN approval
    BY ApprovalsTyped DEF CopyInv
  <2> QED
    BY <2>1, ApproveTyped DEF CopyInv
<1>2. Here' = Here /\ DOMAIN Snapshot = Here /\ Here \subseteq Item
  BY <1>1 DEF Here, Snapshot
<1>3. Carrying' /\ CompleteIsVerified'
  BY <1>1 DEF CopyInv, Carrying, CompleteIsVerified
<1>4. SeenTruly'
  BY <1>1 DEF CopyInv, ManifestInv, SeenTruly, Exists, Changed
<1>5. ApprovedTruly'
  <2> SUFFICES ASSUME NEW a \in DOMAIN approval', NEW i \in DOMAIN approval'[a].rows
               PROVE  LET r == approval'[a].rows[i]
                      IN /\ r.ok => r.hash \in Content
                         /\ Bound(r) => r.obs[1] <= file[i].stamp
                         /\ Bound(r) /\ r.obs[1] = file[i].stamp /\ r.hash \in Content => r.hash = file[i].bytes
    BY <1>1 DEF ApprovedTruly, Bound
  <2>1. CASE a \in DOMAIN approval
    BY <1>1, <2>1 DEF CopyInv, ManifestInv, ApprovedTruly
  <2>2. CASE a = n
    <3>1. i \in Here /\ i \in Item /\ approval'[a].rows[i] = Row(i)
      BY <1>1, <1>2, <2>2 DEF Snapshot
    <3>2. /\ Row(i).ok = Eligible(i) /\ Row(i).hash = item[i].hash /\ Row(i).obs = item[i].obs
      BY DEF Row
    <3>3. Eligible(i) => item[i].hash \in Content
      BY <1>1, <3>1 DEF Eligible, Decided, Hashed
    <3>4. /\ item[i].obs # None => item[i].obs[1] = item[i].seen
          /\ item[i].seen <= file[i].stamp
          /\ item[i].seen = file[i].stamp /\ item[i].hash \in Content => item[i].hash = file[i].bytes
      BY <3>1 DEF CopyInv, ManifestInv, SeenTruly
    <3> QED
      BY <3>1, <3>2, <3>3, <3>4 DEF Bound
  <2> QED
    BY <1>1, <2>1, <2>2
<1>6. UnderApproval'
  <2>1. \A i \in Item : item'[i].under # 0 => item'[i].under \in DOMAIN approval'
                                               /\ i \in DOMAIN approval'[item'[i].under].rows
    <3> TAKE i \in Item
    <3>1. CASE item[i].here
      BY <1>1, <1>2, <3>1 DEF Here
    <3>2. CASE ~item[i].here
      BY <1>1, <3>2 DEF CopyInv, ManifestInv, UnderApproval
    <3> QED
      BY <3>1, <3>2
  <2>2. \A i \in DOMAIN approval'[batch'.active].rows : item'[i].under = batch'.active
    BY <1>1, <1>2 DEF Here
  <2> QED
    BY <2>1, <2>2 DEF UnderApproval
<1>7. VerifiedIsKept'
  <2> SUFFICES ASSUME NEW i \in Item, item'[i].copy = "verified"
               PROVE  item'[i].under # 0 /\ Kept(item[i].under, i)'
    BY DEF VerifiedIsKept
  <2>1. item[i].copy = "verified" /\ item'[i].under = item[i].under
    BY <1>1
  <2>2. item[i].under # 0 /\ Kept(item[i].under, i) /\ item[i].under \in DOMAIN approval
    BY <2>1 DEF CopyInv, VerifiedIsKept, ManifestInv, UnderApproval
  <2> QED
    BY <1>1, <2>1, <2>2 DEF Kept, Bound
<1>8. ClaimInv'
  <2> SUFFICES ASSUME NEW v \in Worker
               PROVE  ClaimOf(v)'
    BY DEF ClaimInv
  <2>1. ClaimOf(v) /\ JobFits(v)
    BY DEF CopyInv, ClaimInv, JobsInv, JobsHeld
  <2>2. worker[v].at \in ClaimPlaces => OfClaim(v) \in DOMAIN approval
    <3>1. worker[v].at \in ClaimPlaces => worker[v].job \in Of("copy")
      BY <2>1, Apart DEF JobFits, Of, Locks
    <3> QED
      BY <3>1 DEF CopyInv, JobsInv, CopiedOnce, OfClaim
  <2>3. OfClaim(v)' = OfClaim(v)
    BY <1>1 DEF OfClaim
  <2>4. worker[v].at \in ClaimPlaces => ~InForce(v)'
    BY <1>1, <2>2, <2>3 DEF InForce
  <2>5. worker[v].at \in ClaimPlaces => ApprovedOf(v)' = ApprovedOf(v)
    BY <1>1, <2>2, <2>3 DEF ApprovedOf
  <2>6. worker[v].at \notin ItemPlaces
    BY <1>1, <2>1, Apart DEF ClaimOf, DoneOrFailed, InHand
  <2>7. worker[v].at \in {"checked"} \union CopyPlaces => worker[v].at \in ClaimPlaces
    BY DEF ClaimPlaces
  <2>8. ClaimOutlived(v)'
    BY <1>1, <1>2, <2>2, <2>3, <2>7 DEF ClaimOutlived, Here
  <2>9. DoneOrFailed(v)'
    BY <1>1, <2>1, <2>4, <2>5, Apart DEF ClaimOf, DoneOrFailed
  <2>10. InHand(v)' /\ NotYetComplete(v)'
    BY <1>1, <2>1, <2>6 DEF ClaimOf, InHand, NotYetComplete
  <2> QED
    BY <2>8, <2>9, <2>10 DEF ClaimOf
<1> QED
  BY <1>1, <1>3, <1>4, <1>5, <1>6, <1>7, <1>8 DEF CopyInv, ManifestInv

LEMMA AuthorizeKeeps ==
  ASSUME CopyInv, NEW w \in Worker, Authorize(w)
  PROVE  CopyInv'
<1>1. /\ TypeOK' /\ JobsInv' /\ Alone(w) /\ UNCHANGED <<file, item, store, asset>>
      /\ \/ Aside(w)
         \/ /\ worker'[w].at = "authorized"
            /\ batch'.active = batch.active /\ batch'.status = batch.status
            /\ batch'.job \in DOMAIN jobs' /\ jobs'[batch'.job].status = "queued"
            /\ RowsKept
            /\ DOMAIN jobs \subseteq DOMAIN jobs' /\ \A k \in DOMAIN jobs : jobs'[k] = jobs[k]
  BY AuthorizeSteps DEF CopyInv, RowsKept
<1>2. CASE Aside(w)
  BY <1>1, <1>2, AsideKeeps
<1>3. CASE ~Aside(w)
  <2>1. AsApproved /\ AsCopied
    BY <1>1 DEF AsApproved, AsCopied
  <2>2. Carrying'
    BY <1>1, <1>3, Carried DEF CopyInv, ItemPlaces
  <2>3. ManifestInv' /\ VerifiedIsKept'
    BY <1>1, <1>3, <2>1, ManifestStays, KeptStays DEF CopyInv, RowsKept
  <2>4. CompleteIsVerified'
    BY <1>1, <1>3, <2>1, CompleteStays DEF CopyInv
  <2>5. ClaimInv'
    <3> SUFFICES ASSUME NEW v \in Worker
                 PROVE  ClaimOf(v)'
      BY DEF ClaimInv
    <3>1. CASE v = w
      BY <1>1, <1>3, <3>1 DEF ClaimOf, ClaimOutlived, DoneOrFailed, InHand, NotYetComplete, CopyPlaces, ItemPlaces, ScanPlaces
    <3>2. CASE v # w
      <4>1. worker'[v] = worker[v] /\ ClaimOf(v) /\ JobFits(v)
        BY <1>1, <3>2 DEF Alone, CopyInv, ClaimInv, JobsInv, JobsHeld
      <4>2. worker[v].at \in Locks => jobs'[worker[v].job].of = jobs[worker[v].job].of
        BY <1>1, <1>3, <4>1, Apart DEF JobFits
      <4> QED
        BY <1>1, <1>3, <2>1, <4>1, <4>2, ClaimStays DEF CopyInv
    <3> QED
      BY <3>1, <3>2
  <2> QED
    BY <1>1, <2>2, <2>3, <2>4, <2>5 DEF CopyInv
<1> QED
  BY <1>2, <1>3

\* Who takes the lock finds that nobody has it.
LEMMA LockFree ==
  ASSUME CopyInv, holder = None
  PROVE  \A v \in Worker : worker[v].at \notin Locks
BY InboxAssumption DEF CopyInv, JobsInv, LockHeld

LEMMA TakenKeeps ==
  ASSUME CopyInv, TypeOK', JobsInv', NEW w \in Worker, Alone(w), BatchKept, UNCHANGED <<file, item, store, asset, approval>>,
         holder = None, worker'[w].at \in {"claimed", "idle", "discover"},
         batch'.status = batch.status \/ batch'.status \in {"interrupted", "discovering"},
         worker'[w].at = "discover" => batch'.status = "discovering",
         \A k \in DOMAIN jobs : jobs'[k].status = jobs[k].status \/ jobs'[k].status # "completed"
  PROVE  CopyInv'
<1>1. AsApproved /\ AsCopied /\ RowsKept
  BY DEF AsApproved, AsCopied, RowsKept
<1>2. Carrying'
  BY Carried DEF CopyInv, ItemPlaces
<1>3. ManifestInv' /\ VerifiedIsKept'
  BY <1>1, ManifestStays, KeptStays DEF CopyInv, RowsKept, BatchKept
<1>4. CompleteIsVerified'
  <2>1. batch.job # 0 => batch.job \in DOMAIN jobs
    BY DEF CopyInv, JobsInv, CopiedOnce, Of
  <2> QED
    BY <1>1, <2>1, CompleteStays DEF CopyInv, BatchKept
<1>5. ClaimInv'
  <2> SUFFICES ASSUME NEW v \in Worker
               PROVE  ClaimOf(v)'
    BY DEF ClaimInv
  <2>1. CASE v # w
    <3>1. worker'[v].at \notin Locks
      BY <2>1, LockFree DEF Alone
    <3>2. worker'[v].at \notin {"checked"} \union CopyPlaces \union ScanPlaces \union ItemPlaces
      BY <3>1, Apart DEF Locks, ClaimPlaces
    <3> QED
      BY <3>2 DEF ClaimOf, ClaimOutlived, DoneOrFailed, InHand, NotYetComplete
  <2>2. CASE v = w
    <3>1. worker'[v].at \notin {"checked"} \union CopyPlaces \union ItemPlaces
      BY <2>2 DEF CopyPlaces, ItemPlaces
    <3>2. worker'[v].at \in ScanPlaces => batch'.status = "discovering"
      BY <2>2 DEF ScanPlaces
    <3> QED
      BY <3>1, <3>2 DEF ClaimOf, ClaimOutlived, DoneOrFailed, InHand, NotYetComplete
  <2> QED
    BY <2>1, <2>2
<1> QED
  BY <1>2, <1>3, <1>4, <1>5 DEF CopyInv

LEMMA StartScanKeeps ==
  ASSUME CopyInv, NEW w \in Worker, StartScan(w), UNCHANGED approval
  PROVE  CopyInv'
<1>1. /\ TypeOK' /\ JobsInv' /\ Alone(w) /\ UNCHANGED <<file, item, store, asset>>
      /\ \/ Aside(w)
         \/ /\ worker'[w].at = "discover" /\ holder = None /\ BatchKept /\ batch'.status = "discovering"
            /\ JobsOfSameKind(jobs')
            /\ \A k \in DOMAIN jobs : jobs'[k].status = jobs[k].status \/ jobs'[k].status = "interrupted"
  BY StartScanSteps DEF CopyInv
<1> QED
  BY <1>1, AsideKeeps, TakenKeeps

LEMMA ClaimKeeps ==
  ASSUME CopyInv, NEW w \in Worker, Claim(w)
  PROVE  CopyInv'
<1>1. /\ TypeOK' /\ JobsInv' /\ Alone(w) /\ BatchKept /\ UNCHANGED <<file, item, store, asset, approval>>
      /\ \/ Aside(w)
         \/ /\ holder = None /\ worker'[w].at \in {"claimed", "idle"}
            /\ JobsOfSameKind(jobs') /\ (batch'.status = batch.status \/ batch'.status = "interrupted")
            /\ \A k \in DOMAIN jobs : jobs'[k].status = jobs[k].status \/ jobs'[k].status # "completed"
  BY ClaimSteps DEF CopyInv
<1> QED
  BY <1>1, AsideKeeps, TakenKeeps

\* Who has the lock steps alone.
LEMMA OthersWait ==
  ASSUME CopyInv, NEW w \in Worker, worker[w].at \in Locks, Alone(w), NEW v \in Worker \ {w}
  PROVE  ClaimOf(v)'
<1>1. worker'[v].at \notin Locks
  BY DEF CopyInv, JobsInv, LockHeld, Alone
<1>2. worker'[v].at \notin {"checked"} \union CopyPlaces \union ScanPlaces \union ItemPlaces
  BY <1>1, Apart DEF Locks, ClaimPlaces
<1> QED
  BY <1>2 DEF ClaimOf, ClaimOutlived, DoneOrFailed, InHand, NotYetComplete

LEMMA CheckClaimKeeps ==
  ASSUME CopyInv, NEW w \in Worker, CheckClaim(w)
  PROVE  CopyInv'
<1>1. /\ TypeOK' /\ JobsInv' /\ Alone(w) /\ UNCHANGED <<file, item, batch, jobs, store, asset, approval>>
      /\ \/ Aside(w)
         \/ /\ worker[w].at = "claimed" /\ worker'[w].at = "checked" /\ worker'[w].job = worker[w].job
            /\ InForce(w) /\ holder' = holder
  BY CheckClaimSteps DEF CopyInv
<1>2. CASE Aside(w)
  BY <1>1, <1>2, AsideKeeps
<1>3. CASE ~Aside(w)
  <2>1. AsApproved /\ AsCopied /\ RowsKept
    BY <1>1 DEF AsApproved, AsCopied, RowsKept
  <2>2. Carrying'
    BY <1>1, <1>3, Carried DEF CopyInv, ItemPlaces
  <2>3. ManifestInv' /\ VerifiedIsKept' /\ CompleteIsVerified'
    BY <1>1, <2>1, ManifestStays, KeptStays, CompleteStays DEF CopyInv, RowsKept
  <2>4. ClaimInv'
    <3>1. ClaimOf(w)'
      <4>1. InForce(w)'
        BY <1>1, <1>3 DEF InForce, OfClaim
      <4>2. worker'[w].at \notin CopyPlaces \union ScanPlaces \union ItemPlaces
        BY <1>1, <1>3 DEF CopyPlaces, ScanPlaces, ItemPlaces
      <4> QED
        BY <4>1, <4>2 DEF ClaimOf, ClaimOutlived, DoneOrFailed, InHand, NotYetComplete
    <3>2. worker[w].at \in Locks
      BY <1>1, <1>3 DEF Locks, ClaimPlaces
    <3> QED
      BY <1>1, <3>1, <3>2, OthersWait DEF ClaimInv
  <2> QED
    BY <1>1, <2>2, <2>3, <2>4 DEF CopyInv
<1> QED
  BY <1>2, <1>3

LEMMA StartCopyKeeps ==
  ASSUME CopyInv, NEW w \in Worker, StartCopy(w)
  PROVE  CopyInv'
<1>1. /\ TypeOK' /\ JobsInv' /\ Alone(w) /\ BatchKept /\ UNCHANGED <<file, item, jobs, store, asset, holder>>
      /\ batch'.status = "copying" /\ RowsKept
      /\ worker[w].at = "checked" /\ worker'[w].at = "copy" /\ worker'[w].job = worker[w].job
      /\ worker'[w].todo = {i \in DOMAIN ApprovedOf(w) : ApprovedOf(w)[i].ok}
  BY StartCopySteps DEF CopyInv, RowsKept
<1>2. AsApproved /\ AsCopied
  BY <1>1 DEF AsApproved, AsCopied
<1>3. Carrying'
  BY <1>1, Carried DEF CopyInv, ItemPlaces
<1>4. ManifestInv' /\ VerifiedIsKept' /\ CompleteIsVerified'
  BY <1>1, <1>2, ManifestStays, KeptStays, CompleteStays DEF CopyInv, RowsKept, BatchKept
<1>5. ClaimInv'
  <2>1. ClaimOf(w) /\ JobFits(w)
    BY DEF CopyInv, ClaimInv, JobsInv, JobsHeld
  <2>2. OfClaim(w) \in DOMAIN approval
    <3>1. worker[w].job \in Of("copy")
      BY <1>1, <2>1 DEF JobFits, Of, ClaimPlaces
    <3> QED
      BY <3>1 DEF CopyInv, JobsInv, CopiedOnce, OfClaim
  <2>3. OfClaim(w)' = OfClaim(w) /\ InForce(w)' = InForce(w) /\ ApprovedOf(w)' = ApprovedOf(w)
    BY <1>1, <2>2 DEF OfClaim, InForce, ApprovedOf, BatchKept, RowsKept
  <2>4. ClaimOutlived(w)'
    BY <1>1, <1>2, <2>1, <2>3, HereStays DEF ClaimOf, ClaimOutlived, BatchKept
  <2>5. DoneOrFailed(w)'
    BY <1>1, <2>3 DEF DoneOrFailed
  <2>6. InHand(w)' /\ NotYetComplete(w)'
    BY <1>1 DEF InHand, NotYetComplete, ItemPlaces
  <2>7. worker[w].at \in Locks
    BY <1>1 DEF Locks, ClaimPlaces
  <2> QED
    BY <1>1, <2>4, <2>5, <2>6, <2>7, OthersWait DEF ClaimInv, ClaimOf
<1> QED
  BY <1>1, <1>3, <1>4, <1>5 DEF CopyInv

-----------------------------------------------------------------------------
(* The invariant, step by step: the scan.                                  *)

SeesTruly(i) ==
    /\ item[i].seen <= file[i].stamp
    /\ item[i].seen = file[i].stamp /\ item[i].hash \in Content => item[i].hash = file[i].bytes
    /\ item[i].obs # None => item[i].obs[1] = item[i].seen
    /\ ~item[i].here => ~Exists(i) \/ Changed(i)

LEMMA SeesAll == SeenTruly <=> \A i \in Item : SeesTruly(i)
BY DEF SeenTruly, SeesTruly

LEMMA HashIsTrue ==
  ASSUME NEW i \in Item, HashOf(i) \in Content
  PROVE  HashOf(i) = file[i].bytes
BY InboxAssumption DEF HashOf

\* What is written of a row that was seen: its hash, or its observation.
LEMMA SeesStill ==
  ASSUME NEW i \in Item, SeesTruly(i), UNCHANGED file, item'[i].seen = item[i].seen, item'[i].here = item[i].here,
         item'[i].hash = item[i].hash \/ item'[i].hash = HashOf(i) \/ item'[i].hash = "none",
         item'[i].obs = item[i].obs \/ (item'[i].obs # None => item'[i].obs[1] = item[i].seen)
  PROVE  SeesTruly(i)'
<1>1. item'[i].hash \in Content => item'[i].hash = item[i].hash \/ item'[i].hash = file[i].bytes
  BY HashIsTrue, InboxAssumption
<1> QED
  BY <1>1 DEF SeesTruly, Exists, Changed

LEMMA FoundSees ==
  ASSUME TypeOK, NEW i \in Item, NEW reuse \in BOOLEAN, SeesTruly(i), UNCHANGED file, item'[i] = Found(i, reuse)
  PROVE  SeesTruly(i)'
<1>1. item[i] \in ItemRow /\ file[i] \in FileRow /\ file[i].stamp \in Nat
  BY RowsTyped DEF FileRow
<1> DEFINE kept == [item[i] EXCEPT !.here = TRUE, !.seen = file[i].stamp]
           anew(d) == [kept EXCEPT !.obs = None, !.class = "pending", !.hash = "pending", !.match = "pending", !.decision = d]
<1>2. /\ kept.here = TRUE /\ kept.seen = file[i].stamp /\ kept.hash = item[i].hash /\ kept.obs = item[i].obs
  BY <1>1 DEF ItemRow
<1>3. \A d : anew(d).here = TRUE /\ anew(d).seen = file[i].stamp /\ anew(d).hash = "pending" /\ anew(d).obs = None
  BY <1>1 DEF ItemRow
<1>4. (item'[i] = kept /\ ~Changed(i)) \/ \E d : item'[i] = anew(d)
  BY DEF Found
<1> HIDE DEF kept, anew
<1>5. CASE item'[i] = kept /\ ~Changed(i)
  BY <1>1, <1>2, <1>5 DEF SeesTruly, Changed
<1>6. CASE \E d : item'[i] = anew(d)
  BY <1>1, <1>3, <1>6, InboxAssumption DEF SeesTruly
<1> QED
  BY <1>4, <1>5, <1>6

LEMMA ScanSees ==
  ASSUME TypeOK, Carrying, SeenTruly, NEW w \in Worker, ScanStep(w), UNCHANGED <<file, approval>>
  PROVE  SeenTruly'
<1>a. \A i \in Item : item[i] \in ItemRow /\ SeesTruly(i)
  BY RowsTyped, SeesAll
<1> SUFFICES ASSUME NEW i \in Item
             PROVE  SeesTruly(i)'
  BY DEF SeenTruly, SeesTruly
<1>1. CASE Discover(w)
  <2> DEFINE reuse == jobs[worker[w].job].of = OnlyChanged
  <2>1. PICK unread \in SUBSET {j \in Item : Exists(j)} :
          LET found == {j \in Item : Exists(j)} \ unread
              rows == [j \in Item |-> IF j \in found THEN Found(j, reuse) ELSE item[j]]
          IN item' = [j \in Item |-> IF unread = {} /\ j \notin found THEN [rows[j] EXCEPT !.here = FALSE] ELSE rows[j]]
    BY <1>1 DEF Discover
  <2>2. \/ item'[i] = Found(i, reuse)
        \/ item'[i] = item[i]
        \/ item'[i] = [item[i] EXCEPT !.here = FALSE] /\ ~Exists(i)
    BY <2>1
  <2>3. CASE item'[i] = Found(i, reuse)
    BY <1>a, <2>3, FoundSees
  <2>4. CASE item'[i] = item[i]
    BY <1>a, <2>4, SeesStill
  <2>5. CASE item'[i] = [item[i] EXCEPT !.here = FALSE] /\ ~Exists(i)
    <3>1. item'[i].seen = item[i].seen /\ item'[i].hash = item[i].hash /\ item'[i].obs = item[i].obs
      BY <1>a, <2>5 DEF ItemRow
    <3> QED
      BY <1>a, <2>5, <3>1 DEF SeesTruly, Exists
  <2> QED
    BY <2>2, <2>3, <2>4, <2>5
<1>2. CASE ReadItem(w)
  BY <1>a, <1>2, SeesStill DEF ReadItem
<1>3. CASE HashItem(w)
  <2> DEFINE Made(r, c, d, h, m) == [r EXCEPT !.class = c, !.decision = d, !.hash = h, !.match = m]
  <2>1. \A r \in ItemRow : \A c, d, h, m : /\ Made(r, c, d, h, m).seen = r.seen /\ Made(r, c, d, h, m).here = r.here
                                        /\ Made(r, c, d, h, m).hash = h /\ Made(r, c, d, h, m).obs = r.obs
    BY DEF ItemRow
  <2>2. PICK j \in Item : j = worker[w].item
    BY <1>3 DEF HashItem, At, Carrying
  <2> DEFINE r1 == [Classified(worker[w].row, "media", "include") EXCEPT !.hash = HashOf(j)]
             r2 == [Classified(worker[w].row, "non_media", "exclude") EXCEPT !.hash = "none", !.match = "none"]
  <2>3. r1.hash = HashOf(j) /\ r2.hash = "none"
    <3>1. \A r \in ItemRow, c \in Class, d \in Decision : Classified(r, c, d) \in ItemRow
      BY RowsTyped
    <3>2. worker[w].row \in ItemRow
      BY <1>3 DEF HashItem, At, Carrying
    <3>3. \A r \in ItemRow : \A h : [r EXCEPT !.hash = h].hash = h /\ [r EXCEPT !.hash = h, !.match = "none"].hash = h
      BY DEF ItemRow
    <3> QED
      BY <3>1, <3>2, <3>3 DEF Class, Decision
  <2>4. PICK c, d, h, m : /\ h = HashOf(j) \/ h = "none"
                          /\ item' = [item EXCEPT ![j] = Made(item[j], c, d, h, m)]
    <3>1. CASE SidecarOf[j] = 0
      BY <1>3, <2>2, <2>3, <3>1, Zenon DEF HashItem
    <3>2. CASE SidecarOf[j] # 0
      BY <1>3, <2>2, <2>3, <3>2, Zenon DEF HashItem
    <3> QED
      BY <3>1, <3>2
  <2> HIDE DEF Made
  <2>5. item \in [Item -> ItemRow]
    BY DEF TypeOK
  <2>6. CASE i = j
    BY <1>a, <2>1, <2>4, <2>5, <2>6, SeesStill
  <2>7. CASE i # j
    BY <1>a, <2>4, <2>5, <2>7, SeesStill
  <2> QED
    BY <2>6, <2>7
<1>4. CASE Associate(w)
  <2> DEFINE Made(r, h) == [Classified(r, "sidecar", "include") EXCEPT !.hash = h]
  <2>1. \A r \in ItemRow : \A h : /\ Made(r, h).seen = r.seen /\ Made(r, h).here = r.here
                              /\ Made(r, h).hash = h /\ Made(r, h).obs = r.obs
    BY DEF ItemRow, Classified
  <2>2. item'[i] = Made(item[i], HashOf(i)) \/ item'[i] = item[i]
    BY <1>4 DEF Associate
  <2> HIDE DEF Made
  <2> QED
    BY <1>a, <2>1, <2>2, SeesStill
<1>5. CASE Match(w)
  <2> DEFINE Made(r, m, o) == [[r EXCEPT !.match = m] EXCEPT !.obs = o]
  <2>1. \A r \in ItemRow : \A m, o : /\ Made(r, m, o).seen = r.seen /\ Made(r, m, o).here = r.here
                                  /\ Made(r, m, o).hash = r.hash /\ Made(r, m, o).obs = o
    BY DEF ItemRow
  <2>2. \A r \in ItemRow : \A m : Observation([r EXCEPT !.match = m])[1] = r.seen
    BY DEF Observation, ItemRow
  <2>3. item'[i] = item[i] \/ \E m : item'[i] = Made(item[i], m, Observation([item[i] EXCEPT !.match = m]))
    BY <1>5 DEF Match
  <2> HIDE DEF Made
  <2>4. CASE item'[i] = item[i]
    BY <1>a, <2>4, SeesStill
  <2>5. CASE \E m : item'[i] = Made(item[i], m, Observation([item[i] EXCEPT !.match = m]))
    <3>1. PICK m, o : item'[i] = Made(item[i], m, o) /\ o[1] = item[i].seen
      BY <1>a, <2>2, <2>5
    <3>2. item'[i].seen = item[i].seen /\ item'[i].here = item[i].here /\ item'[i].hash = item[i].hash /\ item'[i].obs = o
      BY <1>a, <2>1, <3>1
    <3> QED
      BY <1>a, <3>1, <3>2, SeesStill
  <2> QED
    BY <2>3, <2>4, <2>5
<1> QED
  BY <1>1, <1>2, <1>3, <1>4, <1>5 DEF ScanStep

LEMMA ScanStepKeeps ==
  ASSUME CopyInv, NEW w \in Worker, ScanStep(w), UNCHANGED approval
  PROVE  CopyInv'
<1>1. /\ TypeOK' /\ AsCopied /\ Alone(w) /\ BatchKept
      /\ worker[w].at \in ScanPlaces /\ worker'[w].at \in ScanPlaces
      /\ worker'[w].at = "classify" => worker'[w].item \in Item /\ worker'[w].row \in ItemRow
      /\ UNCHANGED <<file, jobs, store, asset, holder>>
      /\ batch'.status = batch.status \/ batch'.status \in {"hashing", "matching"}
  BY ScanStepTyped DEF CopyInv
<1>2. JobsInv'
  BY ScanStepJobs DEF CopyInv
<1>3. RowsKept
  BY DEF RowsKept
<1>4. Carrying'
  <2> SUFFICES ASSUME NEW v \in Worker
               PROVE  /\ worker'[v].at \in {"classify"} \union ItemPlaces =>
                           worker'[v].item \in Item /\ worker'[v].row \in ItemRow
                      /\ worker'[v].at \in ItemPlaces \ {"started"} => worker'[v].key \in Key
    BY DEF Carrying
  <2>1. CASE v = w
    BY <1>1, <2>1 DEF ItemPlaces, ScanPlaces
  <2>2. CASE v # w
    BY <1>1, <2>2 DEF Alone, CopyInv, Carrying
  <2> QED
    BY <2>1, <2>2
<1>5. ManifestInv'
  <2>1. SeenTruly'
    BY <1>1, ScanSees DEF CopyInv, ManifestInv
  <2>2. ApprovedTruly'
    BY <1>1 DEF CopyInv, ManifestInv, ApprovedTruly, Bound
  <2>3. UnderApproval'
    <3>1. \A i \in Item : item'[i].under = item[i].under
      BY <1>1 DEF AsCopied
    <3>2. batch.active # 0 => DOMAIN approval[batch.active].rows \subseteq Item
      BY ActiveIsApproval DEF CopyInv
    <3> QED
      BY <1>1, <3>1, <3>2 DEF CopyInv, ManifestInv, UnderApproval, BatchKept
  <2> QED
    BY <2>1, <2>2, <2>3 DEF ManifestInv
<1>6. VerifiedIsKept'
  BY <1>1, KeptStays DEF CopyInv
<1>7. batch'.status # "complete"
  BY <1>1 DEF CopyInv, ClaimInv, ClaimOf, NotYetComplete
<1>8. CompleteIsVerified'
  BY <1>7 DEF CompleteIsVerified
<1>9. ClaimInv'
  <2>1. ClaimOf(w)'
    <3>1. worker'[w].at \notin {"checked"} \union CopyPlaces \union ItemPlaces
      BY <1>1 DEF ScanPlaces, CopyPlaces, ItemPlaces
    <3> QED
      BY <1>7, <3>1 DEF ClaimOf, ClaimOutlived, DoneOrFailed, InHand, NotYetComplete
  <2>2. worker[w].at \in Locks
    BY <1>1 DEF Locks
  <2> QED
    BY <1>1, <2>1, <2>2, OthersWait DEF ClaimInv
<1> QED
  BY <1>1, <1>2, <1>4, <1>5, <1>6, <1>8, <1>9 DEF CopyInv

LEMMA ScanEndKeeps ==
  ASSUME CopyInv, NEW w \in Worker, EndScan(w) \/ FailScan(w), UNCHANGED approval
  PROVE  CopyInv'
<1>1. /\ TypeOK' /\ AsCopied /\ AsApproved /\ Alone(w) /\ BatchKept /\ worker[w].at \in ScanPlaces
      /\ worker'[w].at \in {"idle", "down"} /\ holder' = None
      /\ UNCHANGED <<file, store, asset>> /\ batch'.status \in {"awaiting_review", "failed"}
      /\ OneJob(worker[w].job, "completed") \/ OneJob(worker[w].job, "failed")
  BY ScanEndTyped DEF CopyInv, JobsInv
<1>2. JobsInv'
  BY <1>1, EndsJobs DEF CopyInv
<1>3. RowsKept
  BY DEF RowsKept
<1>4. Carrying'
  BY <1>1, Carried DEF CopyInv, ItemPlaces
<1>5. ManifestInv' /\ VerifiedIsKept' /\ CompleteIsVerified'
  BY <1>1, <1>3, ManifestStays, KeptStays DEF CopyInv, BatchKept, CompleteIsVerified
<1>6. ClaimInv'
  <2>1. ClaimOf(w)'
    <3>1. worker'[w].at \notin {"checked"} \union CopyPlaces \union ItemPlaces \union ScanPlaces
      BY <1>1 DEF ScanPlaces, CopyPlaces, ItemPlaces
    <3> QED
      BY <3>1 DEF ClaimOf, ClaimOutlived, DoneOrFailed, InHand, NotYetComplete
  <2>2. worker[w].at \in Locks
    BY <1>1 DEF Locks
  <2> QED
    BY <1>1, <2>1, <2>2, OthersWait DEF ClaimInv
<1> QED
  BY <1>1, <1>2, <1>4, <1>5, <1>6 DEF CopyInv

\* A copy ends, or is interrupted; it is shown as complete only when nothing is left.
LEMMA CopyEndKeeps ==
  ASSUME CopyInv, NEW w \in Worker, NEW st \in JobStatus, NEW control \in Control, NEW shown \in BatchStatus,
         worker[w].at \in CopyPlaces, CopyEnds(w, st, control, shown),
         shown = "complete" => worker[w].at = "verify" /\ FailedItems = {}
  PROVE  CopyInv'
<1>1. /\ TypeOK' /\ Alone(w) /\ BatchKept /\ worker'[w].at \in {"idle", "down"}
      /\ batch'.status = shown /\ OneJob(worker[w].job, st)
      /\ holder' = None /\ UNCHANGED <<file, item, store, asset, approval>>
  BY CopyEndTyped DEF CopyInv, JobsInv
<1>2. JobsInv'
  BY <1>1, EndsJobs DEF CopyInv
<1>3. RowsKept /\ AsCopied /\ AsApproved
  BY <1>1 DEF RowsKept, AsCopied, AsApproved
<1>4. Carrying'
  BY <1>1, Carried DEF CopyInv, ItemPlaces
<1>5. ManifestInv' /\ VerifiedIsKept'
  BY <1>1, <1>3, ManifestStays, KeptStays DEF CopyInv, BatchKept
<1>6. CompleteIsVerified'
  <2> SUFFICES ASSUME shown = "complete", batch.job # 0, jobs'[batch.job].status = "completed", NEW i \in Here,
                      i \in DOMAIN approval[batch.active].rows, approval[batch.active].rows[i].ok
               PROVE  item[i].copy = "verified"
    BY <1>1 DEF CompleteIsVerified, BatchKept, Here
  <2>1. ClaimOf(w) /\ JobFits(w) /\ worker[w].at = "verify"
    BY DEF CopyInv, ClaimInv, JobsInv, JobsHeld
  <2>2. CASE InForce(w)
    <3>1. worker[w].todo = {} /\ ApprovedOf(w) = approval[batch.active].rows
      BY <2>1, <2>2 DEF ClaimOf, DoneOrFailed, ApprovedOf, InForce
    <3>2. item[i].copy \in {"verified", "failed"}
      BY <2>1, <2>2, <3>1 DEF ClaimOf, DoneOrFailed
    <3> QED
      BY <3>2 DEF FailedItems
  <2>3. CASE ~InForce(w)
    <3>1. jobs[batch.job].status # "completed"
      BY <2>1, <2>3 DEF ClaimOf, ClaimOutlived
    <3>2. batch.job \in DOMAIN jobs /\ jobs[batch.job].of = batch.active
      BY DEF CopyInv, JobsInv, CopiedOnce, Of
    <3>3. batch.job # worker[w].job
      BY <2>3, <3>2 DEF InForce, OfClaim
    <3> QED
      BY <1>1, <3>1, <3>2, <3>3 DEF OneJob
  <2> QED
    BY <2>2, <2>3
<1>7. ClaimInv'
  <2>1. ClaimOf(w)'
    <3>1. worker'[w].at \notin {"checked"} \union CopyPlaces \union ItemPlaces \union ScanPlaces
      BY <1>1 DEF ScanPlaces, CopyPlaces, ItemPlaces
    <3> QED
      BY <3>1 DEF ClaimOf, ClaimOutlived, DoneOrFailed, InHand, NotYetComplete
  <2>2. worker[w].at \in Locks
    BY DEF Locks, ClaimPlaces
  <2> QED
    BY <1>1, <2>1, <2>2, OthersWait DEF ClaimInv
<1> QED
  BY <1>1, <1>2, <1>4, <1>5, <1>6, <1>7 DEF CopyInv

-----------------------------------------------------------------------------
(* The invariant, step by step: one item.                                  *)

\* The approval of a claim, and what a row in its hand means.
LEMMA ClaimIsOfApproval ==
  ASSUME TypeOK, JobsInv, NEW w \in Worker, worker[w].at \in ClaimPlaces
  PROVE  OfClaim(w) \in DOMAIN approval /\ worker[w].job \in DOMAIN jobs /\ DOMAIN ApprovedOf(w) \subseteq Item
<1>1. worker[w].job \in Of("copy")
  BY Apart DEF JobsInv, JobsHeld, JobFits, Of
<1>2. OfClaim(w) \in DOMAIN approval
  BY <1>1 DEF JobsInv, CopiedOnce, OfClaim
<1> QED
  BY <1>1, <1>2, ActiveIsApproval DEF Of, ApprovedOf

\* A row under the approval of a claim that may be copied: it is in the manifest, the
\* approval is the one in force, and the bytes are the approved ones.
LEMMA CopyableIsApproved ==
  ASSUME CopyInv, NEW w \in Worker, worker[w].at = "copy", NEW i \in worker[w].todo, Copyable(w, i)
  PROVE  /\ InForce(w) /\ item[i].under = batch.active /\ item[i].hash \in Content
         /\ Bound(ApprovedOf(w)[i]) => ApprovedOf(w)[i].hash = item[i].hash
<1>1. /\ worker[w].at \in ClaimPlaces /\ worker[w].at \in CopyPlaces /\ ClaimOf(w) /\ i \in Item
  BY DEF CopyInv, ClaimInv, ClaimPlaces, CopyPlaces, TypeOK, WorkerRow
<1>2. OfClaim(w) \in DOMAIN approval /\ i \in DOMAIN ApprovedOf(w) /\ ApprovedOf(w)[i].ok
  BY <1>1, ClaimIsOfApproval DEF CopyInv, ClaimOf, DoneOrFailed
<1>3. /\ Exists(i) /\ ~Changed(i) /\ item[i].hash \in Content
      /\ item[i].under = OfClaim(w) /\ ApprovedOf(w)[i].obs = item[i].obs
  BY DEF Copyable, Hashed, OfClaim, Approved, ApprovedOf
<1>4. item[i].here /\ item[i].hash = file[i].bytes /\ (item[i].obs # None => item[i].obs[1] = file[i].stamp)
  BY <1>1, <1>3 DEF CopyInv, ManifestInv, SeenTruly, Changed
<1>5. InForce(w)
  BY <1>1, <1>3, <1>4 DEF ClaimOf, ClaimOutlived, Here
<1>6. ApprovedOf(w)[i].hash \in Content /\ (Bound(ApprovedOf(w)[i]) /\ ApprovedOf(w)[i].obs[1] = file[i].stamp
                                               => ApprovedOf(w)[i].hash = file[i].bytes)
  BY <1>2 DEF CopyInv, ManifestInv, ApprovedTruly, ApprovedOf
<1> QED
  BY <1>3, <1>4, <1>5, <1>6 DEF InForce, Bound

\* What the step leaves of another item's copy, and of the objects and assets.
LEMMA CopiesStay ==
  ASSUME CopyInv, NEW w \in Worker, ItemStep(w)
  PROVE  /\ \A i \in Item : \/ item'[i].copy = item[i].copy
                            \/ item'[i].copy \in {"failed", "copying"}
                            \/ i = worker[w].item /\ worker[w].at = "published" /\ item'[i].copy = "verified"
                                 /\ asset'[worker[w].key] = "verified" /\ UNCHANGED store
         /\ \A k \in Key : \/ store'[k] = store[k]
                           \/ store[k] = None /\ k = worker[w].key /\ worker[w].at = "fetched"
                                /\ store'[k] = worker[w].row.hash
         /\ \A k \in Key : asset[k] \in {"verified", "conflict"} => asset'[k] \in {"verified", "conflict"}
<1>a. TypeOK /\ Carrying /\ InHand(w) /\ item \in [Item -> ItemRow] /\ store \in [Key -> Content \union {None}]
  BY DEF CopyInv, ClaimInv, ClaimOf, TypeOK
<1>b. asset \in [Key -> {None, "missing", "conflict", "verified"}] /\ worker[w].todo \in SUBSET Item
  BY DEF CopyInv, TypeOK, WorkerRow
<1>c. \A i \in Item : Failed(w, i) => \A j \in Item : item'[j].copy = item[j].copy \/ item'[j].copy = "failed"
  BY <1>a DEF Failed, ItemRow
<1>d. worker[w].at \in ItemPlaces => worker[w].item \in Item
  BY <1>a DEF Carrying
<1>e. worker[w].at \in ItemPlaces \ {"started"} => worker[w].key \in Key
  BY <1>a DEF Carrying
<1>1. CASE UNCHANGED <<item, store, asset>>
  BY <1>1
<1>2. CASE StartItem(w)
  <2>1. First(worker[w].todo) \in Item
    BY <1>2, <1>b, FirstIsIn DEF StartItem, Next1
  <2>2. UNCHANGED <<store, asset>>
    BY <1>2 DEF StartItem, Rest
  <2>3. \A j \in Item : item'[j].copy = item[j].copy \/ item'[j].copy \in {"failed", "copying"}
    <3>1. CASE item' = [item EXCEPT ![First(worker[w].todo)].copy = "copying"]
      BY <1>a, <2>1, <3>1 DEF ItemRow
    <3> QED
      BY <1>2, <1>c, <2>1, <3>1 DEF StartItem
  <2> QED
    BY <2>2, <2>3
<1>3. CASE Place(w)
  <2>1. worker[w].item \in Item /\ UNCHANGED store
    BY <1>3, <1>d DEF Place, At, ItemPlaces
  <2>2. CASE Exists(worker[w].item)
    <3>1. PICK k \in AssetOf(worker[w].item, worker[w].row) :
             /\ asset' = [asset EXCEPT ![k] = IF @ = None THEN "missing" ELSE @]
             /\ item' = [item EXCEPT ![worker[w].item].source = IF @ = None THEN k ELSE @]
      BY <1>3, <2>2 DEF Place
    <3>2. \A j \in Item : item'[j].copy = item[j].copy
      BY <1>a, <2>1, <3>1 DEF ItemRow
    <3>3. \A q \in Key : asset[q] \in {"verified", "conflict"} => asset'[q] \in {"verified", "conflict"}
      BY <1>b, <3>1, InboxAssumption
    <3> QED
      BY <2>1, <3>2, <3>3
  <2>3. CASE ~Exists(worker[w].item)
    BY <1>3, <1>c, <2>1, <2>3 DEF Place
  <2> QED
    BY <2>2, <2>3
<1>4. CASE Reuse(w)
  <2>1. worker[w].item \in Item /\ worker[w].key \in Key /\ UNCHANGED store
    BY <1>4, <1>d, <1>e DEF Reuse, At, ItemPlaces
  <2>2. CASE UNCHANGED <<item, asset>>
    BY <2>1, <2>2
  <2>3. CASE asset' = [asset EXCEPT ![worker[w].key] = "conflict"] /\ Failed(w, worker[w].item)
    <3>1. \A q \in Key : asset[q] \in {"verified", "conflict"} => asset'[q] \in {"verified", "conflict"}
      BY <1>b, <2>1, <2>3
    <3> QED
      BY <1>c, <2>1, <2>3, <3>1
  <2> QED
    BY <1>4, <2>2, <2>3 DEF Reuse
<1>5. CASE Fetch(w)
  <2>1. worker[w].item \in Item /\ UNCHANGED <<store, asset>>
    BY <1>5, <1>d DEF Fetch, At, ItemPlaces, Rest
  <2> QED
    BY <1>5, <1>c, <2>1 DEF Fetch
<1>6. CASE Publish(w)
  <2>1. worker[w].item \in Item /\ worker[w].key \in Key /\ worker[w].at = "fetched" /\ UNCHANGED asset
    BY <1>6, <1>d, <1>e DEF Publish, At, ItemPlaces
  <2>2. CASE UNCHANGED <<item, store>>
    BY <2>1, <2>2
  <2>3. CASE store' = [store EXCEPT ![worker[w].key] = worker[w].row.hash] /\ UNCHANGED item
             /\ store[worker[w].key] \in {None, worker[w].row.hash}
    BY <1>a, <2>1, <2>3
  <2>4. CASE Failed(w, worker[w].item) /\ UNCHANGED store
    BY <1>c, <2>1, <2>4
  <2> QED
    BY <1>6, <2>2, <2>3, <2>4 DEF Publish
<1>7. CASE Book(w)
  <2>1. worker[w].item \in Item /\ worker[w].key \in Key /\ worker[w].at = "published" /\ UNCHANGED store
    BY <1>7, <1>d, <1>e DEF Book, At, ItemPlaces
  <2>2. asset' = [asset EXCEPT ![worker[w].key] = "verified"] /\ item' = [item EXCEPT ![worker[w].item].copy = "verified"]
    BY <1>7 DEF Book
  <2>3. \A j \in Item \ {worker[w].item} : item'[j].copy = item[j].copy
    BY <1>a, <2>2
  <2>4. item'[worker[w].item].copy = "verified"
    BY <1>a, <2>1, <2>2 DEF ItemRow
  <2>5. \A q \in Key : asset[q] \in {"verified", "conflict"} => asset'[q] \in {"verified", "conflict"}
    BY <1>b, <2>2
  <2>6. asset'[worker[w].key] = "verified"
    BY <1>b, <2>1, <2>2
  <2> QED
    BY <2>1, <2>3, <2>4, <2>5, <2>6
<1>8. CASE FailItem(w)
  <2>1. worker[w].item \in Item /\ UNCHANGED <<store, asset>> /\ Failed(w, worker[w].item)
    BY <1>8, <1>d DEF FailItem, ItemPlaces, Rest
  <2> QED
    BY <1>c, <2>1
<1> QED
  BY <1>1, <1>2, <1>3, <1>4, <1>5, <1>6, <1>7, <1>8
  DEF ItemStep, HeedBefore, SkipVerified, VerifyCopy, Rest

\* An item passed is done or has failed; one that is gone on with stays in hand.
PassedOn(w) ==
    /\ worker'[w].at \notin ItemPlaces
    /\ worker'[w].at = "verify" => worker'[w].todo = {}
    /\ worker'[w].todo # worker[w].todo =>
         /\ worker[w].todo # {} /\ worker'[w].todo = worker[w].todo \ {First(worker[w].todo)}
         /\ item'[First(worker[w].todo)].copy \in {"verified", "failed"}
    /\ \A j \in Item : item'[j].copy = item[j].copy \/ item'[j].copy \in {"verified", "failed"}

GoneOn(w) ==
    /\ worker'[w].at \in ItemPlaces /\ worker'[w].todo = worker[w].todo /\ InHand(w)'
    /\ \A j \in Item \ worker[w].todo : item'[j].copy = item[j].copy

LEMMA FailedPasses ==
  ASSUME CopyInv, NEW w \in Worker, worker[w].todo # {}, Failed(w, First(worker[w].todo))
  PROVE  PassedOn(w)
<1>1. TypeOK /\ First(worker[w].todo) \in Item
  BY FirstIsIn DEF CopyInv, TypeOK, WorkerRow
<1>2. /\ item' = [item EXCEPT ![First(worker[w].todo)].copy = "failed"] /\ worker'[w].at = "copy"
      /\ worker'[w].todo = worker[w].todo \ {First(worker[w].todo)}
  BY <1>1, FailedTyped
<1>3. item'[First(worker[w].todo)].copy = "failed" /\ \A j \in Item \ {First(worker[w].todo)} : item'[j].copy = item[j].copy
  BY <1>1, <1>2, CopyWritten DEF CopyStatus
<1> QED
  BY <1>1, <1>2, <1>3 DEF PassedOn, ItemPlaces

LEMMA StoppedPasses ==
  ASSUME CopyInv, NEW w \in Worker, Stopped(w), UNCHANGED item
  PROVE  PassedOn(w)
<1>1. worker'[w].at \in {"pausing", "cancelling"} /\ worker'[w].todo = worker[w].todo
  BY StoppedTyped DEF CopyInv
<1> QED
  BY <1>1 DEF PassedOn, ItemPlaces

\* The item in hand goes on to its next place.
LEMMA HandGoesOn ==
  ASSUME CopyInv, NEW w \in Worker, worker[w].at \in ItemPlaces, NEW at \in ItemPlaces \ {"started"}, Goto(w, at),
         UNCHANGED <<item, jobs, batch, approval>>, worker[w].key[1] = worker[w].row.hash,
         at = "published" => store'[worker[w].key] = worker[w].row.hash
  PROVE  GoneOn(w)
<1>1. TypeOK /\ InHand(w) /\ at \in Places
  BY DEF CopyInv, ClaimInv, ClaimOf, Places, ClaimPlaces, CopyPlaces
<1>2. /\ worker'[w].at = at /\ worker'[w].job = worker[w].job
      /\ worker'[w].item = worker[w].item /\ worker'[w].row = worker[w].row
      /\ worker'[w].key = worker[w].key /\ worker'[w].todo = worker[w].todo
  BY <1>1, GotoTyped
<1>3. InHand(w)'
  BY <1>1, <1>2 DEF InHand, InForce, OfClaim, ApprovedOf, Bound
<1> QED
  BY <1>2, <1>3 DEF GoneOn

LEMMA StartItemPasses ==
  ASSUME CopyInv, NEW w \in Worker, StartItem(w)
  PROVE  PassedOn(w) \/ GoneOn(w)
<1> DEFINE i == First(worker[w].todo)
<1>1. /\ worker[w].at = "copy" /\ worker[w].todo # {} /\ i \in Item /\ i \in worker[w].todo
      /\ UNCHANGED <<batch, jobs, approval>>
  BY FirstIsIn DEF StartItem, Next1, CopyInv, TypeOK, WorkerRow
<1>2. CASE ~Copyable(w, i)
  BY <1>1, <1>2, FailedPasses DEF StartItem
<1>3. CASE Copyable(w, i)
  <2>1. /\ InForce(w) /\ item[i].under = batch.active /\ item[i].hash \in Content
        /\ Bound(ApprovedOf(w)[i]) => ApprovedOf(w)[i].hash = item[i].hash
    BY <1>1, <1>3, CopyableIsApproved
  <2>2. worker' = [worker EXCEPT ![w] = [@ EXCEPT !.at = "started", !.item = i, !.key = None, !.row = item[i]]]
    BY <1>3 DEF StartItem, Go1
  <2>3. worker[w] \in WorkerRow /\ worker \in [Worker -> WorkerRow]
    BY DEF CopyInv, TypeOK
  <2>4. worker'[w] = [worker[w] EXCEPT !.at = "started", !.item = i, !.key = None, !.row = item[i]]
    BY <2>2, <2>3
  <2>5. /\ worker'[w].at = "started" /\ worker'[w].item = i /\ worker'[w].row = item[i]
        /\ worker'[w].job = worker[w].job /\ worker'[w].todo = worker[w].todo
    BY <2>3, <2>4 DEF WorkerRow
  <2>6. item' = [item EXCEPT ![i].copy = "copying"]
    BY <1>3 DEF StartItem
  <2>7. AsApproved /\ item'[i].copy = "copying" /\ \A j \in Item \ {i} : item'[j].copy = item[j].copy
    <3> HIDE DEF i
    <3> QED
      BY <1>1, <2>6, CopyWritten DEF CopyStatus, CopyInv
  <2>8. InHand(w)'
    <3>1. item'[i].under = batch.active
      BY <1>1, <2>1, <2>7 DEF AsApproved
    <3> HIDE DEF i
    <3>2. i = First(worker[w].todo)
      BY DEF i
    <3> QED
      BY <1>1, <2>1, <2>5, <2>7, <3>1, <3>2 DEF InHand, InForce, OfClaim, ApprovedOf, Bound
  <2> QED
    BY <1>1, <2>5, <2>7, <2>8 DEF GoneOn, ItemPlaces
<1> QED
  BY <1>2, <1>3

LEMMA PlacePasses ==
  ASSUME CopyInv, NEW w \in Worker, Place(w)
  PROVE  PassedOn(w) \/ GoneOn(w)
<1>1. /\ worker[w].at = "started" /\ InHand(w) /\ TypeOK /\ worker[w].item \in Item /\ worker[w].row \in ItemRow
      /\ worker[w].item = First(worker[w].todo) /\ worker[w].todo # {} /\ worker[w].row.hash \in Content
      /\ UNCHANGED <<file, batch, jobs, approval>>
  BY DEF Place, At, CopyInv, ClaimInv, ClaimOf, Carrying, InHand, ItemPlaces
<1>2. CASE ~Exists(worker[w].item)
  BY <1>1, <1>2, FailedPasses DEF Place
<1>3. CASE Exists(worker[w].item)
  <2>1. PICK k \in AssetOf(worker[w].item, worker[w].row) :
           /\ item' = [item EXCEPT ![worker[w].item].source = IF @ = None THEN k ELSE @]
           /\ worker' = [worker EXCEPT ![w].at = "placed", ![w].key = k]
    BY <1>3 DEF Place
  <2>2. k \in Key /\ k[1] = worker[w].row.hash
    BY <1>1, <1>3, <2>1, AssetsAreKeys
  <2>3. \A j \in Item : item'[j].copy = item[j].copy /\ item'[j].under = item[j].under
    BY <1>1, <2>1 DEF TypeOK, ItemRow
  <2>4. worker[w] \in WorkerRow /\ worker \in [Worker -> WorkerRow]
    BY <1>1 DEF TypeOK
  <2>5. /\ worker'[w].at = "placed" /\ worker'[w].key = k /\ worker'[w].job = worker[w].job
        /\ worker'[w].item = worker[w].item /\ worker'[w].row = worker[w].row /\ worker'[w].todo = worker[w].todo
    BY <2>1, <2>4 DEF WorkerRow
  <2>6. InHand(w)'
    BY <1>1, <2>2, <2>3, <2>5 DEF InHand, InForce, OfClaim, ApprovedOf, Bound, ItemPlaces
  <2> QED
    BY <2>3, <2>5, <2>6 DEF GoneOn, ItemPlaces
<1> QED
  BY <1>2, <1>3

LEMMA ItemStepPasses ==
  ASSUME CopyInv, NEW w \in Worker, ItemStep(w)
  PROVE  PassedOn(w) \/ GoneOn(w)
<1>a. TypeOK /\ InHand(w) /\ item \in [Item -> ItemRow]
  BY DEF CopyInv, ClaimInv, ClaimOf, TypeOK
<1>b. worker[w].at \in ItemPlaces => worker[w].todo # {} /\ worker[w].item = First(worker[w].todo)
                                       /\ worker[w].item \in Item
  BY DEF CopyInv, ClaimInv, ClaimOf, InHand, Carrying
<1>c. worker[w].at \in ItemPlaces \ {"started"} => worker[w].key[1] = worker[w].row.hash
  BY DEF CopyInv, ClaimInv, ClaimOf, InHand
<1>1. CASE Stopped(w) /\ UNCHANGED item
  BY <1>1, StoppedPasses
<1>2. CASE worker[w].at \in ItemPlaces /\ Failed(w, worker[w].item)
  BY <1>2, <1>b, FailedPasses
<1>3. CASE SkipVerified(w)
  <2>1. /\ worker[w].todo # {} /\ UNCHANGED item /\ item[First(worker[w].todo)].copy = "verified"
        /\ worker'[w].at = "copy" /\ worker'[w].todo = worker[w].todo \ {First(worker[w].todo)}
    BY <1>3, <1>a, PastTyped DEF SkipVerified, Next1
  <2> QED
    BY <2>1 DEF PassedOn, ItemPlaces
<1>4. CASE StartItem(w)
  BY <1>4, StartItemPasses
<1>5. CASE Place(w)
  BY <1>5, PlacePasses
<1>6. CASE Reuse(w)
  <2>1. worker[w].at = "placed" /\ UNCHANGED <<batch, jobs, approval, store>>
    BY <1>6 DEF Reuse, At
  <2>2. CASE Goto(w, "published") /\ UNCHANGED item /\ store[worker[w].key] = worker[w].row.hash
    BY <1>c, <2>1, <2>2, HandGoesOn DEF ItemPlaces
  <2> QED
    BY <1>2, <1>6, <2>1, <2>2 DEF Reuse, ItemPlaces
<1>7. CASE Fetch(w)
  <2>1. worker[w].at = "placed" /\ UNCHANGED <<batch, jobs, approval>>
    BY <1>7 DEF Fetch, At
  <2>2. CASE Goto(w, "fetched") /\ UNCHANGED item
    BY <1>c, <2>1, <2>2, HandGoesOn DEF ItemPlaces
  <2> QED
    BY <1>1, <1>2, <1>7, <2>1, <2>2 DEF Fetch, ItemPlaces
<1>8. CASE Publish(w)
  <2>1. worker[w].at = "fetched" /\ UNCHANGED <<batch, jobs, approval>>
    BY <1>8 DEF Publish, At
  <2>2. CASE Goto(w, "published") /\ UNCHANGED item /\ store' = [store EXCEPT ![worker[w].key] = worker[w].row.hash]
    <3>1. store'[worker[w].key] = worker[w].row.hash
      BY <1>a, <2>1, <2>2 DEF CopyInv, Carrying, ItemPlaces, TypeOK
    <3> QED
      BY <1>c, <2>1, <2>2, <3>1, HandGoesOn DEF ItemPlaces
  <2> QED
    BY <1>1, <1>2, <1>8, <2>1, <2>2 DEF Publish, ItemPlaces
<1>9. CASE Book(w)
  <2>1. /\ worker[w].at = "published" /\ Past(w) /\ item' = [item EXCEPT ![worker[w].item].copy = "verified"]
    BY <1>9 DEF Book, At
  <2>2. worker[w].item \in Item /\ worker[w].todo # {} /\ worker[w].item = First(worker[w].todo)
    BY <1>b, <2>1 DEF ItemPlaces
  <2>3. item'[worker[w].item].copy = "verified" /\ \A j \in Item \ {worker[w].item} : item'[j].copy = item[j].copy
    BY <1>a, <2>1, <2>2, CopyWritten DEF CopyStatus
  <2>4. worker'[w].at = "copy" /\ worker'[w].todo = worker[w].todo \ {First(worker[w].todo)}
    BY <1>a, <2>1, PastTyped
  <2> QED
    BY <2>2, <2>3, <2>4 DEF PassedOn, ItemPlaces
<1>10. CASE VerifyCopy(w)
  <2>1. worker[w].todo = {} /\ UNCHANGED item /\ Goto(w, "verify") /\ "verify" \in Places
    BY <1>10 DEF VerifyCopy, Places, ClaimPlaces, CopyPlaces
  <2>2. worker'[w].at = "verify" /\ worker'[w].todo = worker[w].todo
    BY <1>a, <2>1, GotoTyped
  <2> QED
    BY <2>1, <2>2 DEF PassedOn, ItemPlaces
<1> QED
  BY <1>1, <1>2, <1>3, <1>4, <1>5, <1>6, <1>7, <1>8, <1>9, <1>10
  DEF ItemStep, HeedBefore, FailItem, ItemPlaces

LEMMA ItemStepVerifies ==
  ASSUME CopyInv, NEW w \in Worker, ItemStep(w)
  PROVE  VerifiedIsKept'
<1>a. /\ TypeOK' /\ AsApproved /\ UNCHANGED <<file, jobs, approval, holder>>
      /\ store \in [Key -> Content \union {None}]
  BY ItemStepTyped DEF CopyInv, ClaimInv, ClaimOf, TypeOK
<1> SUFFICES ASSUME NEW i \in Item, item'[i].copy = "verified"
             PROVE  item'[i].under # 0 /\ Kept(item[i].under, i)'
  BY <1>a DEF VerifiedIsKept
<1>1. item'[i].under = item[i].under
  BY <1>a DEF AsApproved
<1>2. CASE item[i].copy = "verified"
  <2>1. item[i].under # 0 /\ Kept(item[i].under, i)
    BY <1>2 DEF CopyInv, VerifiedIsKept
  <2>2. CASE ~Bound(approval[item[i].under].rows[i])
    BY <1>a, <1>1, <2>1, <2>2 DEF Kept, Bound
  <2>3. CASE Bound(approval[item[i].under].rows[i])
    <3>1. PICK k \in Key : /\ k[1] = approval[item[i].under].rows[i].hash /\ store[k] = k[1]
                           /\ asset[k] \in {"verified", "conflict"}
      BY <2>1, <2>3 DEF Kept
    <3>2. k[1] \in Content /\ store[k] # None
      BY <3>1, InboxAssumption DEF Key
    <3>3. store'[k] = store[k] /\ asset'[k] \in {"verified", "conflict"}
      BY <3>1, <3>2, CopiesStay
    <3> QED
      BY <1>a, <1>1, <2>1, <3>1, <3>3 DEF Kept
  <2> QED
    BY <2>2, <2>3
<1>3. CASE item[i].copy # "verified"
  <2>1. i = worker[w].item /\ worker[w].at = "published" /\ asset'[worker[w].key] = "verified" /\ UNCHANGED store
    BY <1>3, CopiesStay
  <2>2. worker[w].key \in Key /\ InHand(w)
    BY <2>1 DEF CopyInv, Carrying, ClaimInv, ClaimOf, ItemPlaces
  <2>3. /\ worker[w].key[1] = worker[w].row.hash /\ store[worker[w].key] = worker[w].row.hash
        /\ item[i].under = batch.active /\ InForce(w)
        /\ Bound(ApprovedOf(w)[i]) => ApprovedOf(w)[i].hash = worker[w].row.hash
    BY <2>1, <2>2 DEF InHand, ItemPlaces
  <2>4. batch.active # 0
    <3>1. OfClaim(w) \in DOMAIN approval /\ 0 \notin DOMAIN approval
      BY <2>1, ClaimIsOfApproval, ApprovalsTyped DEF CopyInv, ClaimPlaces, CopyPlaces, ItemPlaces
    <3> QED
      BY <2>3, <3>1 DEF InForce
  <2> QED
    BY <1>a, <1>1, <2>1, <2>2, <2>3, <2>4 DEF Kept, Bound, ApprovedOf, InForce
<1> QED
  BY <1>2, <1>3

LEMMA ItemStepKeeps ==
  ASSUME CopyInv, NEW w \in Worker, ItemStep(w)
  PROVE  CopyInv'
<1>a. ClaimOf(w) /\ TypeOK /\ Carrying
  BY DEF CopyInv, ClaimInv
<1>1. /\ TypeOK' /\ AsApproved /\ Alone(w)
      /\ worker'[w].job = worker[w].job
      /\ worker[w].at \in CopyPlaces /\ worker'[w].at \in CopyPlaces
      /\ worker'[w].at \in ItemPlaces => worker'[w].item \in Item /\ worker'[w].row \in ItemRow
      /\ worker'[w].at \in ItemPlaces \ {"started"} => worker'[w].key \in Key
      /\ UNCHANGED <<file, jobs, approval, holder>>
      /\ batch'.active = batch.active /\ batch'.job = batch.job
      /\ batch'.status = batch.status \/ batch'.status = "verifying"
  BY <1>a, ItemStepTyped DEF ClaimOf
<1>2. JobsInv'
  BY <1>a, ItemStepJobs DEF CopyInv, ClaimOf
<1>3. Carrying'
  BY <1>1 DEF CopyInv, Carrying, Alone, CopyPlaces, ItemPlaces
<1>4. ManifestInv'
  BY <1>1, ManifestStays DEF CopyInv, RowsKept
<1>5. VerifiedIsKept'
  BY ItemStepVerifies
<1>6. batch'.status # "complete"
  BY <1>a, <1>1 DEF ClaimOf, NotYetComplete
<1>7. CompleteIsVerified'
  BY <1>6 DEF CompleteIsVerified
<1>8. ClaimInv'
  <2>1. /\ OfClaim(w)' = OfClaim(w) /\ InForce(w)' = InForce(w) /\ ApprovedOf(w)' = ApprovedOf(w) /\ Here' = Here
        /\ \A i \in Item : item'[i].under = item[i].under
    BY <1>1, HereStays DEF OfClaim, InForce, ApprovedOf, AsApproved
  <2>2. ClaimOutlived(w)'
    BY <1>a, <1>1, <2>1 DEF ClaimOf, ClaimOutlived, Here
  <2>3. NotYetComplete(w)'
    BY <1>6 DEF NotYetComplete
  <2>4. CASE PassedOn(w)
    <3>1. InHand(w)'
      BY <2>4 DEF InHand, PassedOn
    <3>2. worker'[w].todo \subseteq worker[w].todo
      BY <2>4 DEF PassedOn
    <3>3. \A i \in Here \ worker'[w].todo :
             InForce(w) /\ i \in DOMAIN ApprovedOf(w) /\ ApprovedOf(w)[i].ok => item'[i].copy \in {"verified", "failed"}
      <4> TAKE i \in Here \ worker'[w].todo
      <4>1. CASE i \in worker[w].todo
        BY <2>4, <4>1 DEF PassedOn
      <4>2. CASE i \notin worker[w].todo
        <5>1. InForce(w) /\ i \in DOMAIN ApprovedOf(w) /\ ApprovedOf(w)[i].ok => item[i].copy \in {"verified", "failed"}
          BY <1>a, <1>1, <4>2 DEF ClaimOf, DoneOrFailed
        <5>2. item'[i].copy = item[i].copy \/ item'[i].copy \in {"verified", "failed"}
          BY <2>4 DEF PassedOn, Here
        <5> QED
          BY <5>1, <5>2
      <4> QED
        BY <4>1, <4>2
    <3>4. DoneOrFailed(w)'
      BY <1>a, <1>1, <2>1, <2>4, <3>2, <3>3 DEF ClaimOf, DoneOrFailed, PassedOn
    <3> QED
      BY <1>1, <2>2, <2>3, <3>1, <3>4, OthersWait DEF ClaimInv, ClaimOf, Locks, ClaimPlaces
  <2>5. CASE GoneOn(w)
    <3>1. DoneOrFailed(w)'
      BY <1>a, <1>1, <2>1, <2>5 DEF ClaimOf, DoneOrFailed, GoneOn, Here, ItemPlaces
    <3> QED
      BY <1>1, <2>2, <2>3, <2>5, <3>1, OthersWait DEF ClaimInv, ClaimOf, Locks, ClaimPlaces, GoneOn
  <2> QED
    BY <2>4, <2>5, ItemStepPasses
<1> QED
  BY <1>1, <1>2, <1>3, <1>4, <1>5, <1>7, <1>8 DEF CopyInv

-----------------------------------------------------------------------------
(* The invariant, step by step: where a copy ends, and all of it together. *)

LEMMA CopyEndsKeep ==
  ASSUME CopyInv, NEW w \in Worker, (Heed(w) /\ ~At(w, "copy")) \/ Interrupt(w) \/ FinishCopy(w)
  PROVE  CopyInv'
<1> USE DEF JobStatus, Control, BatchStatus
<1>1. CASE Heed(w) /\ ~At(w, "copy")
  <2>1. worker[w].at \in CopyPlaces
    BY <1>1 DEF Heed, At, CopyPlaces
  <2>2. CopyEnds(w, "paused", "paused", "paused") \/ CopyEnds(w, "cancelled", "cancelled", "cancelled")
    BY <1>1 DEF Heed, EndCopy, CopyEnds
  <2> QED
    BY <2>1, <2>2, CopyEndKeeps
<1>2. CASE Interrupt(w)
  <2>1. worker[w].at \in CopyPlaces
    BY <1>2 DEF Interrupt, Copying, CopyPlaces, ItemPlaces
  <2>2. CopyEnds(w, "interrupted", "run", "interrupted")
    BY <1>2 DEF Interrupt, CopyEnds
  <2> QED
    BY <2>1, <2>2, CopyEndKeeps
<1>3. CASE FinishCopy(w)
  <2>1. worker[w].at = "verify" /\ worker[w].at \in CopyPlaces
    BY <1>3 DEF FinishCopy, At, CopyPlaces
  <2>2. CASE FailedItems = {} /\ CopyEnds(w, "completed", "run", "complete")
    BY <2>1, <2>2, CopyEndKeeps
  <2>3. CASE CopyEnds(w, "failed", "run", "failed")
    BY <2>1, <2>3, CopyEndKeeps
  <2> QED
    BY <1>3, <2>2, <2>3 DEF FinishCopy, EndCopy, CopyEnds
<1> QED
  BY <1>1, <1>2, <1>3

LEMMA StartsTyped ==
  ASSUME Init
  PROVE  TypeOK
<1>1. PICK world \in Worlds :
        /\ file = [i \in Item |-> [bytes |-> world.files[i], stamp |-> 1]]
        /\ store = [k \in Key |-> IF k \in DOMAIN world.foreign THEN world.foreign[k] ELSE None]
        /\ worker = [w \in Worker |-> IF w \in world.up THEN Idle ELSE Down]
        /\ item = [i \in Item |-> Unseen] /\ asset = [k \in Key |-> None]
        /\ batch = [status |-> "discovered", rev |-> 0, whole |-> FALSE, active |-> 0, job |-> 0]
        /\ jobs = <<>> /\ approval = <<>>
  BY DEF Init
<1>2. file \in [Item -> FileRow]
  BY <1>1, WorldsAssumption DEF FileRow
<1>3. store \in [Key -> Content \union {None}]
  BY <1>1, WorldsAssumption
<1>4. item \in [Item -> ItemRow]
  <2>1. Unseen \in ItemRow
    BY DEF Unseen, ItemRow, Class, Hashes, MatchOutcome, Observations, Decision, CopyStatus
  <2> QED
    BY <1>1, <2>1
<1>5. worker \in [Worker -> WorkerRow]
  <2>1. Down \in WorkerRow /\ Idle \in WorkerRow
    BY DEF Down, Idle, WorkerRow, Places
  <2> QED
    BY <1>1, <2>1
<1>6. batch \in BatchRow
  BY <1>1 DEF BatchRow, BatchStatus
<1>7. jobs \in Seq(JobRow) /\ approval \in Seq(Approval)
  BY <1>1, EmptySeq
<1> QED
  BY <1>1, <1>2, <1>3, <1>4, <1>5, <1>6, <1>7 DEF TypeOK

LEMMA Starts ==
  ASSUME Init
  PROVE  CopyInv
<1>1. /\ item = [i \in Item |-> Unseen] /\ batch.status = "discovered" /\ batch.active = 0 /\ batch.job = 0
      /\ jobs = <<>> /\ approval = <<>>
      /\ \A i \in Item : file[i].stamp = 1
      /\ \A w \in Worker : worker[w] = Idle \/ worker[w] = Down
  BY DEF Init
<1>2. \A w \in Worker : worker[w].at \in {"down", "idle"}
  BY <1>1 DEF Idle, Down
<1>3. DOMAIN jobs = {} /\ DOMAIN approval = {} /\ Len(approval) = 0
  BY <1>1
<1>4. Carrying
  BY <1>2 DEF Carrying, ItemPlaces
<1>5. JobsInv
  <2>1. LockHeld /\ JobsHeld
    BY <1>2 DEF LockHeld, JobsHeld, JobFits, Locks, ScanPlaces, ClaimPlaces, CopyPlaces, ItemPlaces
  <2>2. ExecutedOnce /\ CopiedOnce
    BY <1>1, <1>2, <1>3 DEF ExecutedOnce, CopiedOnce, Of, Executing
  <2> QED
    BY <2>1, <2>2 DEF JobsInv
<1>6. \A i \in Item : /\ item[i].seen = 0 /\ item[i].hash = "pending" /\ item[i].obs = None /\ item[i].here = FALSE
                      /\ item[i].under = 0 /\ item[i].copy = "none"
  BY <1>1 DEF Unseen
<1>7. ManifestInv
  BY <1>1, <1>3, <1>6 DEF ManifestInv, SeenTruly, ApprovedTruly, UnderApproval, Changed
<1>8. ClaimInv
  BY <1>2 DEF ClaimInv, ClaimOf, ClaimOutlived, DoneOrFailed, InHand, NotYetComplete, ScanPlaces, CopyPlaces, ItemPlaces
<1>9. VerifiedIsKept /\ CompleteIsVerified
  BY <1>1, <1>6 DEF VerifiedIsKept, CompleteIsVerified
<1> QED
  BY <1>4, <1>5, <1>7, <1>8, <1>9, StartsTyped DEF CopyInv

LEMMA StuttersKeep ==
  ASSUME CopyInv, UNCHANGED vars
  PROVE  CopyInv'
<1>1. UNCHANGED <<file, item, batch, jobs, store, asset, approval, worker, holder>>
  BY DEF vars
<1>2. TypeOK' /\ JobsInv'
  BY <1>1 DEF CopyInv, TypeOK, JobsInv, LockHeld, JobsHeld, JobFits, ExecutedOnce, CopiedOnce, Of, At
<1> QED
  BY <1>1, <1>2, CalmKeeps DEF AsApproved, AsCopied, RowsKept, BatchKept

LEMMA NextKeeps ==
  ASSUME CopyInv, Next
  PROVE  CopyInv'
<1>a. TypeOK /\ JobsInv /\ Carrying
  BY DEF CopyInv
<1>1. ASSUME NEW w \in Worker, Work(w) \/ (FailScan(w) /\ UNCHANGED approval) \/ Interrupt(w) \/ FailItem(w) \/ Wake(w) \/ Kill(w)
      PROVE  CopyInv'
  <2>1. CASE \/ (NextJob(w) \/ MarkRunning(w)) /\ UNCHANGED approval
             \/ Preflight(w) \/ EndAuthorize(w) \/ Wake(w) \/ Kill(w)
    BY <1>a, <2>1, NextJobAside, MarkRunningAside, PreflightAside, EndAuthorizeAside, WakeKillAside, AsideKeeps
  <2>2. CASE Scan(w) /\ UNCHANGED approval
    BY <2>2, StartScanKeeps, ScanStepKeeps, ScanEndKeeps DEF Scan, ScanStep
  <2>3. CASE FailScan(w) /\ UNCHANGED approval
    BY <2>3, ScanEndKeeps
  <2>4. CASE Authorize(w)
    BY <2>4, AuthorizeKeeps
  <2>5. CASE Claim(w) \/ CheckClaim(w) \/ StartCopy(w)
    BY <2>5, ClaimKeeps, CheckClaimKeeps, StartCopyKeeps
  <2>6. CASE Heed(w)
    <3>1. CASE At(w, "copy")
      <4>1. HeedBefore(w)
        BY <2>6, <3>1 DEF Heed, HeedBefore, At
      <4> QED
        BY <4>1, ItemStepKeeps DEF ItemStep
    <3> QED
      BY <2>6, <3>1, CopyEndsKeep
  <2>7. CASE \/ SkipVerified(w) \/ StartItem(w) \/ Place(w) \/ Reuse(w) \/ Fetch(w) \/ Publish(w) \/ Book(w)
             \/ VerifyCopy(w) \/ FailItem(w)
    BY <2>7, ItemStepKeeps DEF ItemStep
  <2>8. CASE FinishCopy(w) \/ Interrupt(w)
    BY <2>8, CopyEndsKeep
  <2> QED
    BY <1>1, <2>1, <2>2, <2>3, <2>4, <2>5, <2>6, <2>7, <2>8 DEF Work, Copy
<1>2. CASE Request
  <2>1. CASE (RequestScan /\ UNCHANGED approval) \/ RequestPreflight \/ RequestExecute
    BY <1>a, <2>1, RequestsAside, AsideKeeps
  <2>2. CASE (Decide \/ Edit) /\ UNCHANGED approval
    BY <2>2, DecideKeeps, EditKeeps
  <2>3. CASE Approve
    BY <2>3, ApproveKeeps
  <2>4. CASE Pause \/ Resume \/ Cancel
    BY <2>4, ControlsKeep
  <2> QED
    BY <1>2, <2>1, <2>2, <2>3, <2>4 DEF Request
<1> QED
  BY <1>1, <1>2 DEF Next

-----------------------------------------------------------------------------
(* What the copy promises.                                                 *)

\* Through every scan, edit, approval, claim, pause, death and recovery, whoever reads
\* the inbox or copies holds the lock, the one job that copies for the approval in force
\* has in hand what was approved, and what is down as verified is in the vault.
THEOREM CopyInvariant == Spec => []CopyInv
<1>1. Init => CopyInv
  BY Starts
<1>2. CopyInv /\ [Next]_vars => CopyInv'
  BY NextKeeps, StuttersKeep
<1> QED
  BY <1>1, <1>2, PTL DEF Spec

\* No step but a publication writes an object.
LEMMA OnlyPublishWrites ==
  ASSUME Next, \A w \in Worker : ~Publish(w)
  PROVE  UNCHANGED store
<1>1. ASSUME NEW w \in Worker, Work(w) \/ (FailScan(w) /\ UNCHANGED approval) \/ Interrupt(w) \/ FailItem(w) \/ Wake(w) \/ Kill(w)
      PROVE  UNCHANGED store
  <2>1. CASE NextJob(w) \/ MarkRunning(w) \/ Scan(w) \/ FailScan(w)
    BY <2>1 DEF NextJob, MarkRunning, Scan, StartScan, Discover, ReadItem, HashItem, Associate, Match, EndScan, FailScan
  <2>2. CASE Preflight(w) \/ Authorize(w) \/ EndAuthorize(w) \/ Wake(w) \/ Kill(w) \/ FailItem(w) \/ Interrupt(w)
    BY <2>2 DEF Preflight, Authorize, EndAuthorize, Wake, Kill, FailItem, Interrupt, Rest
  <2>3. CASE Claim(w) \/ CheckClaim(w) \/ StartCopy(w) \/ Heed(w) \/ FinishCopy(w)
    BY <2>3 DEF Claim, CheckClaim, StartCopy, Heed, FinishCopy, EndCopy, Rest
  <2>4. CASE SkipVerified(w) \/ StartItem(w) \/ Place(w) \/ Reuse(w) \/ Fetch(w) \/ Book(w) \/ VerifyCopy(w)
    BY <2>4 DEF SkipVerified, StartItem, Place, Reuse, Fetch, Book, VerifyCopy, Rest
  <2> QED
    BY <1>1, <2>1, <2>2, <2>3, <2>4 DEF Work, Copy
<1>2. CASE Request
  BY <1>2 DEF Request, RequestScan, Decide, Edit, RequestPreflight, Approve, RequestExecute, Pause, Resume, Cancel,
              Controlled, Rest
<1> QED
  BY <1>1, <1>2 DEF Next

PublishesAsApproved == \A k \in Key : store'[k] # store[k] => store[k] = None /\ store'[k] = k[1] /\ Backed(store'[k])

LEMMA PublishIsBacked ==
  ASSUME CopyInv, NEW w \in Worker, Publish(w)
  PROVE  PublishesAsApproved
<1>1. worker[w].at = "fetched" /\ InHand(w) /\ DoneOrFailed(w) /\ JobFits(w) /\ worker[w].key \in Key
  BY DEF Publish, At, CopyInv, ClaimInv, ClaimOf, JobsInv, JobsHeld, Carrying, ItemPlaces
<1> DEFINE i == worker[w].item
<1>2. /\ InForce(w) /\ item[i].copy = "copying" /\ item[i].under = batch.active /\ i \in worker[w].todo
      /\ Bound(ApprovedOf(w)[i]) => ApprovedOf(w)[i].hash = worker[w].row.hash
      /\ worker[w].key[1] = worker[w].row.hash
  BY <1>1 DEF InHand, ItemPlaces
<1>3. i \in DOMAIN ApprovedOf(w) /\ ApprovedOf(w)[i].ok
  BY <1>1, <1>2 DEF DoneOrFailed, CopyPlaces, ItemPlaces
<1>4. worker[w].job \in Of("copy") /\ jobs[worker[w].job].status = "running" /\ worker[w].job # 0
  <2>1. worker[w].job \in DOMAIN jobs /\ 0 \notin DOMAIN jobs
    BY <1>1, JobsTyped DEF JobFits, CopyInv, TypeOK
  <2> QED
    BY <1>1, <2>1 DEF JobFits, Of, ClaimPlaces, CopyPlaces, ItemPlaces
<1>5. batch.job = worker[w].job
  BY <1>2, <1>4 DEF CopyInv, JobsInv, CopiedOnce, InForce, OfClaim
<1>6. Backed(worker[w].row.hash)
  BY <1>2, <1>3, <1>4, <1>5 DEF Backed, InForce, OfClaim, ApprovedOf
<1>7. \A k \in Key : \/ store'[k] = store[k]
                     \/ store[k] = None /\ k = worker[w].key /\ store'[k] = worker[w].row.hash
  BY CopiesStay DEF ItemStep
<1> QED
  BY <1>2, <1>6, <1>7 DEF PublishesAsApproved

\* No object is ever written over, and the bytes published are those an item had when it
\* was approved, by the running job of the approval in force, whatever was edited,
\* scanned, approved, killed or taken over meanwhile (_copy_item, run_claim).
THEOREM PublishedAsApprovedAlways == Spec => PublishedAsApproved
<1>1. CopyInv /\ [Next]_vars => [PublishesAsApproved]_vars
  <2> SUFFICES ASSUME CopyInv, Next
               PROVE  PublishesAsApproved
    OBVIOUS
  <2>1. CASE \E w \in Worker : Publish(w)
    BY <2>1, PublishIsBacked
  <2>2. CASE \A w \in Worker : ~Publish(w)
    BY <2>2, OnlyPublishWrites DEF PublishesAsApproved
  <2> QED
    BY <2>1, <2>2
<1>2. [][PublishesAsApproved]_vars => PublishedAsApproved
  BY DEF PublishesAsApproved, PublishedAsApproved
<1> QED
  BY <1>1, <1>2, CopyInvariant, PTL DEF Spec

\* A batch shown complete has every approved item still in its manifest in the vault, with
\* the approved bytes, and an item shown as verified is there (_reconcile, run_claim).
THEOREM CompleteMeansKeptAlways == Spec => []CompleteMeansKept
<1>1. CopyInv => CompleteMeansKept
  <2> SUFFICES ASSUME CopyInv
               PROVE  CompleteMeansKept
    OBVIOUS
  <2>1. \A i \in Item : item[i].copy = "verified" => item[i].under # 0 /\ Kept(item[i].under, i)
    BY DEF CopyInv, VerifiedIsKept
  <2>2. ASSUME batch.status = "complete", batch.job # 0, jobs[batch.job].status = "completed", NEW i \in Here,
               i \in DOMAIN approval[jobs[batch.job].of].rows, approval[jobs[batch.job].of].rows[i].ok
        PROVE  item[i].copy = "verified" /\ Kept(jobs[batch.job].of, i)
    <3>1. jobs[batch.job].of = batch.active /\ batch.active # 0
      <4>1. batch.job \in Of("copy") /\ jobs[batch.job].of = batch.active
        BY <2>2 DEF CopyInv, JobsInv, CopiedOnce
      <4>2. batch.active \in DOMAIN approval
        BY <4>1 DEF CopyInv, JobsInv, CopiedOnce
      <4> QED
        BY <4>1, <4>2, ApprovalsTyped DEF CopyInv
    <3>2. item[i].copy = "verified"
      BY <2>2, <3>1 DEF CopyInv, CompleteIsVerified
    <3>3. item[i].under = batch.active
      BY <2>2, <3>1 DEF CopyInv, ManifestInv, UnderApproval
    <3> QED
      BY <2>1, <3>1, <3>2, <3>3 DEF Here
  <2> QED
    BY <2>1, <2>2 DEF CompleteMeansKept
<1> QED
  BY <1>1, CopyInvariant, PTL
=============================================================================
