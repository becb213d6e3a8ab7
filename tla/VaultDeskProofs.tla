-------------------------- MODULE VaultDeskProofs --------------------------
(***************************************************************************)
(* VaultDesk, proved for any library, clients, workers and budgets: what   *)
(* is decided is kept and nothing is overwritten unseen; the pages that    *)
(* are served are right and the stacks on show stay.                       *)
(*                                                                         *)
(* The ledger is followed by what a step does to each of its jobs: it      *)
(* keeps what the job shows (Still), takes it from show (Dropped), or the  *)
(* job is the one at work. The decisions are followed by their revisions.  *)
(***************************************************************************)
EXTENDS VaultDesk, SequenceTheorems, FiniteSetTheorems, TLAPS

JobFields == {"kind", "key", "gen", "status", "attempt", "limit", "held", "row", "cur", "rows", "tally", "plan"}
IsJob(j) == DOMAIN j = JobFields
Listed(js) == js \in Seq({js[i] : i \in DOMAIN js}) /\ \A i \in DOMAIN js : IsJob(js[i])

\* The kinds whose rows are pages.
Shown == {"catalog", "view", "stacks", "junk"}
\* Those that are ready only when they are completed.
Whole == {"catalog", "view", "stacks"}

Same(j, k) == k.kind = j.kind /\ k.key = j.key /\ k.gen = j.gen
\* What becomes of a job that is not the one at work: it shows what it did, is no
\* longer current, or is no longer ready.
Still(j, k) ==
    /\ IsJob(k) /\ Same(j, k)
    /\ j.kind \in Shown => /\ k.row = j.row /\ k.rows = j.rows /\ k.tally = j.tally
                           /\ k.status = j.status /\ k.cur = j.cur
Shelved(j, k) ==
    /\ IsJob(k) /\ Same(j, k) /\ ~k.cur
    /\ k.row = j.row /\ k.rows = j.rows /\ k.status = j.status
Dropped(j, k) ==
    /\ IsJob(k) /\ Same(j, k) /\ k.row \in {"queued", "error"}
    /\ j.kind = "stacks" => k.rows = j.rows
Fares(j, k) == Still(j, k) \/ Shelved(j, k) \/ Dropped(j, k)

\* What is new in the ledger.
Fresh(js, k) ==
    /\ js[k].row = "queued" /\ js[k].rows = {}
    /\ js[k].kind = "catalog" => /\ js[k].gen \in 1..Len(js)
                                 /\ \A m \in Of(jobs, "catalog") : jobs[m].gen # js[k].gen
    /\ js[k].kind = "view" => js[k].key[2] = generation

\* A request only asks.
Asks(js) ==
    /\ Listed(js) /\ Len(js) \in {Len(jobs), Len(jobs) + 1}
    /\ \A k \in DOMAIN jobs : Still(jobs[k], js[k])
    /\ \A k \in DOMAIN js \ DOMAIN jobs : Fresh(js, k)

\* A step at job i leaves the others to fare as above.
MovesAt(i, js) ==
    /\ Listed(js) /\ Len(js) \in {Len(jobs), Len(jobs) + 1}
    /\ \A k \in DOMAIN jobs : Same(jobs[k], js[k]) /\ (k # i => Fares(jobs[k], js[k]))
    /\ \A k \in DOMAIN js \ DOMAIN jobs : Fresh(js, k)

Decision == [fav : BOOLEAN, rej : BOOLEAN, rev : Nat]
Cover == Asset \union {Ranked(S) : S \in (SUBSET Asset) \ {{}}}
Stack == [members : SUBSET Asset, ranked : Cover, cover : Cover, rev : Nat]
JunkVerdict == [e : Asset, agrees : BOOLEAN, hidden : BOOLEAN, shielded : BOOLEAN]

\* One verdict per photo, counted, and the favourites as they are unless raced.
Judges(i) ==
    LET j == jobs[i]
    IN /\ j.rows \subseteq JunkVerdict /\ IsFiniteSet(j.rows)
       /\ \A r, s \in j.rows : r.e = s.e => r = s
       /\ j.tally = Tally(j.rows)
       /\ \A r \in j.rows : <<i, r.e>> \in raced \/
            /\ r.shielded = (decisions[r.e].fav /\ j.key[2] /\ r.agrees)
            /\ r.hidden = (r.agrees /\ ~r.shielded)

JobOK(i) ==
    LET j == jobs[i]
    IN /\ j.kind = "catalog" => j.gen \in 1..Len(jobs)
       /\ j.kind \in Whole /\ j.row = "ready" => j.status = "completed"
       /\ j.kind = "view" =>
            /\ j.key[2] \in Nat /\ j.key[2] <= generation
            /\ j.row = "ready" /\ j.key[2] = generation => j.rows = Answer(j.key[1], j.gen)
       /\ j.kind = "stacks" => j.rows \subseteq Stack
       /\ j.kind = "junk" /\ Ready(i) => Judges(i)

OneCatalog ==
    /\ \A i, k \in Of(jobs, "catalog") : jobs[i].gen = jobs[k].gen => i = k
    /\ \A i, k \in Catalogs : i = k

Library == decisions \in [Asset -> Decision] /\ verified \subseteq Asset /\ generation \in Nat

LedgerOK == Listed(jobs) /\ OneCatalog /\ \A i \in DOMAIN jobs : JobOK(i)

Places == {"down", "recover", "idle", "picked", "begun", "catalog", "view", "stacks", "stacked",
           "signals", "read", "shown", "assets", "save"}

\* A worker at a job holds the lock, and is where the job sends it.
WorkOK(w) ==
    LET at == worker[w].at
        i == worker[w].job
        j == jobs[i]
    IN /\ DOMAIN worker[w] = {"at", "job", "read"} /\ at \in Places
       /\ at = "picked" => i \in DOMAIN jobs
       /\ Working(w) => /\ holder = w /\ i \in DOMAIN jobs
                        /\ j.kind \in Whole => j.status = "running" /\ j.row = "building"
       /\ at = "catalog" => j.kind = "catalog"
       /\ at = "view" =>
            /\ j.kind = "view" /\ DOMAIN worker[w].read = {"rest", "seen"}
            /\ j.key[2] = generation => j.rows \union worker[w].read.rest = Answer(j.key[1], j.gen)
       /\ at \in {"stacks", "stacked"} => j.kind = "stacks"
       /\ at \in {"signals", "read"} => j.kind = "junk" /\ DOMAIN worker[w].read \subseteq Asset
       /\ at = "shown" => j.kind \in {"calibrate", "junk"} /\ (j.kind = "junk" => j.row = "ready")
       /\ at \in {"assets", "save"} => j.kind = "backfill"

WorkersOK == DOMAIN worker = Worker /\ \A w \in Worker : WorkOK(w)

PagesInv == Library /\ LedgerOK /\ WorkersOK

-----------------------------------------------------------------------------
(* The desk. *)

Seat == [at : {"idle", "looking", "sent", "told"}, rows : [Asset -> Decision], of : Nat, stacks : SUBSET Stack,
         gen : Nat, req : [do : Requests \union {"nothing"}, arg : SUBSET Nat, key : Nat],
         told : {"nothing", "ok", "refused"}]
Event == [e : Asset, do : Requests, key : Nat, before : Decision, after : Decision, undoes : Nat]

\* What a client saw of a photo is how it is, or was at an earlier revision.
Saw(rows) == \A e \in Asset : /\ rows[e].rev <= decisions[e].rev
                              /\ rows[e].rev = decisions[e].rev => rows[e] = decisions[e]

\* What a request that was sent names.
Names(l) ==
    LET a == l.req.arg
    IN /\ l.req.do \in Requests
       /\ l.req.do \in {"favour", "unfavour", "reject"} => \E e \in Asset : a = {e}
       /\ l.req.do = "bulk" => a \subseteq Asset
       /\ l.req.do \in {"rest", "cover"} => \E s \in l.stacks : a = s.members
       /\ l.req.do = "undo" => \E k \in replies : a = {k}
       /\ l.req.do = "feedback" => \E i \in a : i \in Nat /\ a = {i}

SeatOK(c) ==
    LET l == client[c]
    IN /\ l \in Seat /\ Saw(l.rows)
       /\ IF l.at = "idle" THEN l.req.key = 0 ELSE l.req.key > budget.ask
       /\ l.at = "looking" => l.req.key \notin replies
       /\ l.at = "sent" => Names(l)
       /\ l.at = "told" => (l.told = "ok") = (l.req.key \in replies)

Keys ==
    /\ budget \in World
    /\ replies \subseteq Nat /\ \A k \in replies : k > budget.ask
    /\ \A c, d \in Client : client[c].at # "idle" /\ client[d].at # "idle" /\ Request(c).key = Request(d).key => c = d

EventOK(v) ==
    /\ v \in Event /\ v.key \in replies
    /\ v.after.rev = v.before.rev + 1 /\ v.after.rev <= decisions[v.e].rev
    /\ v.do \in {"bulk", "rest"} => v.after.fav = v.before.fav
    /\ v.after = decisions[v.e] \/ \E n \in events : n.e = v.e /\ n.before = v.after
Alone(v, n) ==
    v.e = n.e /\ (v.key = n.key \/ v.before.rev = n.before.rev \/ (v.undoes = n.undoes /\ v.undoes # 0)) => v = n
\* The events of a photo.
Past(e) == {v \in events : v.e = e}
Eventful(e) == IsFiniteSet(Past(e)) /\ Cardinality(Past(e)) + 1 >= decisions[e].rev
EventsOK ==
    /\ \A v \in events : EventOK(v)
    /\ \A v, n \in events : Alone(v, n)
    /\ \A e \in Asset : Eventful(e)

\* A photo nobody has decided is neither a favourite nor rejected.
Undecided == \A e \in Asset : decisions[e].rev = 0 => ~decisions[e].fav /\ ~decisions[e].rej

DeskInv == Keys /\ Undecided /\ EventsOK /\ DOMAIN client = Client /\ \A c \in Client : SeatOK(c)

-----------------------------------------------------------------------------
(* One job.                                                                *)

LEMMA RequeuedIs ==
  ASSUME NEW j, IsJob(j)
  PROVE  /\ Dropped(j, Requeued(j)) /\ Requeued(j).status \in {"queued", "failed"}
         /\ Requeued(j).cur = j.cur
BY DEF IsJob, JobFields, Requeued, Dropped, Same

LEMMA TakenIs ==
  ASSUME NEW j, IsJob(j)
  PROVE  /\ IsJob(Taken(j)) /\ Same(j, Taken(j)) /\ Taken(j).status = "running"
         /\ Taken(j).rows = j.rows /\ Taken(j).cur = j.cur
         /\ j.kind # "backfill" => Taken(j).row = "building"
BY DEF IsJob, JobFields, Taken, Running, Same

LEMMA CompletedIs ==
  ASSUME NEW j, IsJob(j)
  PROVE  /\ IsJob(Completed(j)) /\ Same(j, Completed(j)) /\ Completed(j).status = "completed"
         /\ Completed(j).row = "ready" /\ Completed(j).rows = j.rows /\ Completed(j).cur = j.cur
         /\ Completed(j).tally = j.tally
BY DEF IsJob, JobFields, Completed, Same

LEMMA JobIs ==
  ASSUME NEW kind, NEW key, NEW gen
  PROVE  LET j == Job(kind, key, gen)
         IN /\ IsJob(j) /\ j.kind = kind /\ j.key = key /\ j.gen = gen
            /\ j.status = "queued" /\ j.row = "queued" /\ j.rows = {}
BY DEF IsJob, JobFields, Job

-----------------------------------------------------------------------------
(* The ledger as a sequence.                                               *)

LEMMA ListedIs ==
  ASSUME NEW js, Listed(js)
  PROVE  Len(js) \in Nat /\ DOMAIN js = 1..Len(js) /\ \A i \in DOMAIN js : IsJob(js[i])
BY LenProperties DEF Listed

LEMMA SeqIsListed ==
  ASSUME NEW S, NEW js \in Seq(S), \A j \in S : IsJob(j)
  PROVE  Listed(js)
<1>1. Len(js) \in Nat /\ DOMAIN js = 1..Len(js) /\ js \in [1..Len(js) -> S]
  BY LenProperties, SeqDef
<1>2. js \in [1..Len(js) -> {js[i] : i \in DOMAIN js}]
  BY <1>1
<1> QED
  BY <1>1, <1>2, SeqDef DEF Listed

\* Every job made anew.
LEMMA Rewritten ==
  ASSUME NEW js, Listed(js), NEW f, f = [i \in DOMAIN js |-> f[i]], \A i \in DOMAIN js : IsJob(f[i])
  PROVE  Listed(f) /\ Len(f) = Len(js) /\ DOMAIN f = DOMAIN js
<1> DEFINE T == {f[i] : i \in DOMAIN js}
<1>1. DOMAIN js = 1..Len(js) /\ Len(js) \in Nat
  BY ListedIs
<1>2. f \in [1..Len(js) -> T]
  BY <1>1
<1>3. f \in Seq(T)
  BY <1>1, <1>2, SeqDef
<1>4. DOMAIN f = 1..Len(js)
  BY <1>1
<1>5. Len(f) = Len(js)
  BY <1>1, <1>3, <1>4, LenProperties
<1>6. T = {f[i] : i \in DOMAIN f}
  BY <1>1, <1>4
<1> QED
  BY <1>1, <1>3, <1>4, <1>5, <1>6 DEF Listed

LEMMA Appended ==
  ASSUME NEW js, Listed(js), NEW j, IsJob(j)
  PROVE  LET f == Append(js, j)
         IN /\ Listed(f) /\ Len(f) = Len(js) + 1 /\ DOMAIN f = 1..(Len(js) + 1)
            /\ \A i \in DOMAIN js : i \in DOMAIN f /\ f[i] = js[i]
            /\ f[Len(js) + 1] = j
<1> DEFINE S == {js[i] : i \in DOMAIN js} \union {j}
<1>1. js \in Seq(S) /\ DOMAIN js = 1..Len(js) /\ Len(js) \in Nat
  <2>1. DOMAIN js = 1..Len(js) /\ Len(js) \in Nat /\ js \in Seq({js[i] : i \in DOMAIN js})
    BY ListedIs DEF Listed
  <2>2. js \in [1..Len(js) -> {js[i] : i \in DOMAIN js}]
    BY <2>1, LenProperties, SeqDef
  <2>3. js \in [1..Len(js) -> S]
    BY <2>2
  <2> QED
    BY <2>1, <2>3, SeqDef
<1>2. \A x \in S : IsJob(x)
  BY ListedIs
<1> HIDE DEF S
<1>3. j \in S
  BY DEF S
<1>4. Append(js, j) \in Seq(S) /\ Len(Append(js, j)) = Len(js) + 1
      /\ \A i \in 1..Len(js) : Append(js, j)[i] = js[i]
      /\ Append(js, j)[Len(js) + 1] = j
  BY <1>1, <1>3, AppendProperties
<1>5. DOMAIN Append(js, j) = 1..(Len(js) + 1)
  BY <1>4, LenProperties
<1>6. Listed(Append(js, j))
  BY <1>2, <1>4, SeqIsListed
<1> QED
  BY <1>1, <1>4, <1>5, <1>6

-----------------------------------------------------------------------------
(* What asks for a job.                                                    *)

LEMMA TheIsIn ==
  ASSUME NEW S, S # {}
  PROVE  The(S) \in S
BY DEF The

LEMMA SelfAsks ==
  ASSUME Listed(jobs)
  PROVE  Asks(jobs)
BY ListedIs DEF Asks, Still, Same

LEMMA NewAsks ==
  ASSUME Listed(jobs), NEW kind, NEW key, NEW g,
         kind = "catalog" => g \in 1..(Len(jobs) + 1) /\ \A m \in Of(jobs, "catalog") : jobs[m].gen # g,
         kind = "view" => key[2] = generation
  PROVE  Asks(New(jobs, kind, key, g).jobs)
<1> DEFINE js == New(jobs, kind, key, g).jobs
           j == Job(kind, key, g)
<1>1. js = Append(jobs, j)
  BY DEF New, Asked
<1>2. /\ IsJob(j) /\ j.kind = kind /\ j.key = key /\ j.gen = g /\ j.row = "queued" /\ j.rows = {}
  BY JobIs
<1> HIDE DEF j
<1>3. /\ Listed(js) /\ Len(js) = Len(jobs) + 1 /\ DOMAIN js = 1..(Len(jobs) + 1)
      /\ \A i \in DOMAIN jobs : js[i] = jobs[i]
      /\ js[Len(jobs) + 1] = j
  BY <1>1, <1>2, Appended
<1> HIDE DEF js
<1>4. \A k \in DOMAIN jobs : Still(jobs[k], js[k])
  BY <1>3, ListedIs DEF Still, Same
<1>5. \A k \in DOMAIN js \ DOMAIN jobs : Fresh(js, k)
  <2>1. DOMAIN jobs = 1..Len(jobs) /\ Len(jobs) \in Nat
    BY ListedIs
  <2>2. \A k \in DOMAIN js \ DOMAIN jobs : k = Len(jobs) + 1
    BY <2>1, <1>3
  <2> QED
    BY <2>2, <1>2, <1>3 DEF Fresh
<1> QED
  BY <1>3, <1>4, <1>5 DEF Asks, js

LEMMA ProfileAsks ==
  ASSUME Listed(jobs), NEW kind, NEW key, NEW g, kind # "catalog", kind = "view" => key[2] = generation
  PROVE  Asks(Profile(jobs, kind, key, g).jobs)
<1>1. CASE Matching(jobs, kind, key, g) = {}
  BY <1>1, NewAsks DEF Profile
<1>2. CASE Matching(jobs, kind, key, g) # {}
  <2>1. Profile(jobs, kind, key, g).jobs = jobs
    BY <1>2 DEF Profile, Asked
  <2> QED
    BY <2>1, SelfAsks
<1> QED
  BY <1>1, <1>2

\* A set of numbers up to some number has a greatest.
LEMMA GreatestExists ==
  ASSUME NEW n \in Nat, NEW S \in SUBSET (0..n), S # {}
  PROVE  \E x \in S : \A y \in S : y <= x
<1> DEFINE above == {n - x : x \in S}
<1>1. above \subseteq Nat /\ above # {}
  <2>1. \A x \in S : n - x \in Nat
    OBVIOUS
  <2> QED
    BY <2>1
<1> DEFINE below == {0..x : x \in above}
<1>2. below \subseteq FiniteSubsetsOf(Nat) /\ below # {}
  <2> HIDE DEF above
  <2>1. \A x \in above : IsFiniteSet(0..x) /\ 0..x \in SUBSET Nat
    BY <1>1, FS_Interval
  <2> QED
    BY <1>1, <2>1 DEF FiniteSubsetsOf
<1>3. PICK t \in below : \A u \in below : <<u, t>> \notin StrictSubsetOrdering(Nat)
  <2> HIDE DEF below
  <2> QED
    BY <1>2, FS_StrictSubsetOrderingWellFounded, WFMin
<1>4. PICK x \in S : t = 0..(n - x)
  OBVIOUS
<1>5. ASSUME NEW y \in S, ~(y <= x)
      PROVE  FALSE
  <2>1. 0..(n - y) \subseteq 0..(n - x) /\ 0..(n - y) # 0..(n - x)
    <3>1. (n - x) \in 0..(n - x) /\ (n - x) \notin 0..(n - y)
      BY <1>5
    <3> QED
      BY <1>5, <3>1
  <2>2. 0..(n - y) \in SUBSET Nat /\ 0..(n - x) \in SUBSET Nat
    OBVIOUS
  <2>3. <<0..(n - y), 0..(n - x)>> \in StrictSubsetOrdering(Nat)
    <3> DEFINE A == 0..(n - y)
               B == 0..(n - x)
    <3>1. A \in SUBSET Nat /\ B \in SUBSET Nat /\ A \subseteq B /\ A # B
      BY <2>1, <2>2
    <3> HIDE DEF A, B
    <3>2. <<A, B>> \in StrictSubsetOrdering(Nat)
      BY <3>1 DEF StrictSubsetOrdering
    <3> QED
      BY <3>2 DEF A, B
  <2> QED
    BY <1>3, <1>4, <2>3
<1> QED
  BY <1>5

LEMMA NewCatalogAsks ==
  ASSUME LedgerOK
  PROVE  Asks(NewCatalog(jobs).jobs)
<1> DEFINE gens == {jobs[i].gen : i \in Of(jobs, "catalog")}
           top == IF gens = {} THEN 0 ELSE CHOOSE g \in gens : \A h \in gens : h <= g
<1>1. Listed(jobs) /\ Len(jobs) \in Nat
  BY ListedIs DEF LedgerOK
<1>2. gens \in SUBSET (1..Len(jobs))
  BY DEF LedgerOK, JobOK, Of
<1>3. top \in 0..Len(jobs) /\ \A h \in gens : h <= top
  <2> HIDE DEF gens
  <2>1. CASE gens = {}
    BY <2>1, <1>1
  <2>2. CASE gens # {}
    <3> gens \in SUBSET (0..Len(jobs))
      BY <1>1, <1>2
    <3>1. \E g \in gens : \A h \in gens : h <= g
      BY <1>1, <2>2, GreatestExists
    <3>2. top \in gens /\ \A h \in gens : h <= top
      BY <2>2, <3>1
    <3> QED
      BY <3>2, <1>1, <1>2
  <2> QED
    BY <2>1, <2>2
<1>4. \A m \in Of(jobs, "catalog") : jobs[m].gen # top + 1
  <2>1. \A m \in Of(jobs, "catalog") : jobs[m].gen \in gens
    OBVIOUS
  <2> HIDE DEF top, gens
  <2> QED
    BY <2>1, <1>1, <1>2, <1>3
<1>5. NewCatalog(jobs) = New(jobs, "catalog", <<>>, top + 1)
  BY DEF NewCatalog
<1> HIDE DEF top, gens
<1>6. top + 1 \in 1..(Len(jobs) + 1)
  BY <1>1, <1>3
<1> QED
  BY <1>1, <1>4, <1>5, <1>6, NewAsks

\* Jobs of another kind written anew, and controls.
LEMMA RewriteAsks ==
  ASSUME Listed(jobs), NEW f, f = [i \in DOMAIN jobs |-> f[i]], \A i \in DOMAIN jobs : Still(jobs[i], f[i])
  PROVE  Asks(f)
<1>1. \A i \in DOMAIN jobs : IsJob(f[i])
  BY DEF Still
<1>2. Listed(f) /\ Len(f) = Len(jobs) /\ DOMAIN f = DOMAIN jobs
  BY <1>1, Rewritten
<1> QED
  BY <1>2 DEF Asks

LEMMA OrganizationAsks ==
  ASSUME Listed(jobs), NEW force \in BOOLEAN
  PROVE  Asks(Organization(jobs, force).jobs)
<1> DEFINE there == Matching(jobs, "organization", <<>>, Catalog)
           i == The(there)
           f == [jobs EXCEPT ![i] = [@ EXCEPT !.status = "queued", !.held = FALSE, !.row = "queued", !.cur = TRUE]]
<1>1. CASE there = {}
  <2>1. Organization(jobs, force) = New(jobs, "organization", <<>>, Catalog)
    BY <1>1 DEF Organization
  <2> QED
    BY <2>1, NewAsks
<1>2. CASE there # {}
  <2>1. i \in DOMAIN jobs /\ jobs[i].kind = "organization"
    <3>1. i \in there
      BY <1>2, TheIsIn
    <3> QED
      BY <3>1 DEF Matching, Of
  <2>2. Organization(jobs, force).jobs = f \/ Organization(jobs, force).jobs = jobs
    BY <1>2 DEF Organization, Asked
  <2> HIDE DEF i
  <2>3. \A k \in DOMAIN jobs : IsJob(jobs[k])
    BY ListedIs
  <2>4. \A k \in DOMAIN jobs : Still(jobs[k], f[k])
    BY <2>1, <2>3 DEF Still, Same, IsJob, JobFields, Shown
  <2>5. Asks(f)
    BY <2>4, RewriteAsks
  <2> QED
    BY <2>2, <2>5, SelfAsks
<1> QED
  BY <1>1, <1>2

LEMMA PreprocessingAsks ==
  ASSUME Listed(jobs), NEW a
  PROVE  Asks(Preprocessing(jobs, a).jobs)
<1> DEFINE there == Matching(jobs, "asset", <<a>>, 0)
           i == The(there)
           f == [jobs EXCEPT ![i] = [@ EXCEPT !.status = "queued", !.held = FALSE,
                                              !.limit = jobs[i].attempt + MaxAttempts]]
<1>1. CASE there = {}
  <2>1. Preprocessing(jobs, a) = New(jobs, "asset", <<a>>, 0)
    BY <1>1 DEF Preprocessing
  <2> QED
    BY <2>1, NewAsks
<1>2. CASE there # {}
  <2>1. i \in DOMAIN jobs /\ jobs[i].kind = "asset"
    <3>1. i \in there
      BY <1>2, TheIsIn
    <3> QED
      BY <3>1 DEF Matching, Of
  <2>2. Preprocessing(jobs, a).jobs = f \/ Preprocessing(jobs, a).jobs = jobs
    BY <1>2 DEF Preprocessing, Asked
  <2> HIDE DEF i
  <2>3. \A k \in DOMAIN jobs : IsJob(jobs[k])
    BY ListedIs
  <2>4. \A k \in DOMAIN jobs : Still(jobs[k], f[k])
    BY <2>1, <2>3 DEF Still, Same, IsJob, JobFields, Shown
  <2>5. Asks(f)
    BY <2>4, RewriteAsks
  <2> QED
    BY <2>2, <2>5, SelfAsks
<1> QED
  BY <1>1, <1>2

LEMMA StartedAsks ==
  ASSUME Listed(jobs), NEW again \in BOOLEAN
  PROVE  Asks(Started(jobs, again))
<1>1. CASE Started(jobs, again) = jobs
  BY <1>1, SelfAsks
<1>2. CASE Started(jobs, again) # jobs
  <2>1. Started(jobs, again) = Append(jobs, NewBackfill)
    BY <1>2 DEF Started
  <2>2. IsJob(NewBackfill) /\ NewBackfill.kind = "backfill" /\ NewBackfill.row = "queued" /\ NewBackfill.rows = {}
    <3>1. \A j : IsJob(j) => LET n == [j EXCEPT !.plan.owed = verified]
                             IN IsJob(n) /\ n.kind = j.kind /\ n.row = j.row /\ n.rows = j.rows
      BY DEF IsJob, JobFields
    <3> QED
      BY <3>1, JobIs DEF NewBackfill
  <2> DEFINE js == Append(jobs, NewBackfill)
  <2>3. /\ Listed(js) /\ Len(js) = Len(jobs) + 1 /\ DOMAIN js = 1..(Len(jobs) + 1)
        /\ \A i \in DOMAIN jobs : js[i] = jobs[i]
        /\ js[Len(jobs) + 1] = NewBackfill
    BY <2>2, Appended
  <2> HIDE DEF js
  <2>4. \A k \in DOMAIN jobs : Still(jobs[k], js[k])
    BY <2>3, ListedIs DEF Still, Same
  <2>5. \A k \in DOMAIN js \ DOMAIN jobs : k = Len(jobs) + 1
    BY <2>3, ListedIs
  <2>6. \A k \in DOMAIN js \ DOMAIN jobs : Fresh(js, k)
    BY <2>2, <2>3, <2>5 DEF Fresh
  <2> QED
    BY <2>1, <2>3, <2>4, <2>6 DEF Asks, js
<1> QED
  BY <1>1, <1>2

LEMMA ControlsAsk ==
  ASSUME Listed(jobs), CanControl
  PROVE  Asks(Paused(jobs)) /\ Asks(Resumed(jobs))
<1>1. \A k \in DOMAIN jobs : IsJob(jobs[k])
  BY ListedIs
<1>2. ASSUME NEW k \in DOMAIN jobs, k = Latest
      PROVE  jobs[k].kind = "backfill"
  <2>1. Len(jobs) \in Nat /\ Backfills \in SUBSET (0..Len(jobs)) /\ Backfills # {}
    BY ListedIs DEF Backfills, Of, CanControl
  <2>2. \E i \in Backfills : \A m \in Backfills : m <= i
    BY <2>1, GreatestExists
  <2>3. Latest \in Backfills
    BY <2>2 DEF Latest
  <2> QED
    BY <1>2, <2>3 DEF Backfills, Of
<1>3. \A k \in DOMAIN jobs : Still(jobs[k], Paused(jobs)[k])
  BY <1>1, <1>2 DEF Paused, Still, Same, IsJob, JobFields, Shown
<1>4. \A k \in DOMAIN jobs : Still(jobs[k], Resumed(jobs)[k])
  BY <1>1, <1>2 DEF Resumed, Still, Same, IsJob, JobFields, Shown
<1>5. Asks(Paused(jobs))
  BY <1>3, RewriteAsks DEF Paused
<1>6. Asks(Resumed(jobs))
  BY <1>4, RewriteAsks DEF Resumed
<1> QED
  BY <1>5, <1>6

LEMMA AskedAlso ==
  ASSUME Listed(jobs), NEW told, Asks(told), DOMAIN told = DOMAIN jobs, NEW key
  PROVE  Asks(Append(told, Job("calibrate", key, 0)))
<1> DEFINE js == Append(told, Job("calibrate", key, 0))
<1>1. IsJob(Job("calibrate", key, 0)) /\ Job("calibrate", key, 0).kind = "calibrate"
      /\ Job("calibrate", key, 0).row = "queued" /\ Job("calibrate", key, 0).rows = {}
  BY JobIs
<1>2. Listed(told) /\ Len(told) = Len(jobs)
  BY ListedIs DEF Asks
<1>3. /\ Listed(js) /\ Len(js) = Len(jobs) + 1 /\ DOMAIN js = 1..(Len(jobs) + 1)
      /\ \A k \in DOMAIN told : js[k] = told[k]
      /\ js[Len(jobs) + 1] = Job("calibrate", key, 0)
  BY <1>1, <1>2, Appended
<1> HIDE DEF js
<1>4. \A k \in DOMAIN js \ DOMAIN jobs : k = Len(jobs) + 1
  BY <1>3, ListedIs
<1>5. \A k \in DOMAIN js \ DOMAIN jobs : Fresh(js, k)
  BY <1>1, <1>3, <1>4 DEF Fresh
<1> QED
  BY <1>3, <1>5 DEF Asks, js

LEMMA HeardAsks ==
  ASSUME Listed(jobs), NEW c, NEW i, i \in DOMAIN jobs, NEW by
  PROVE  Asks(Heard(c, i, by))
<1> DEFINE got == jobs[i].plan.owed \union {Request(c).key}
           left == IF Cardinality(got) < Feedback THEN got ELSE {}
           told == [jobs EXCEPT ![i].plan.owed = left]
           key == <<jobs[i].key[1] + by, jobs[i].key[2]>>
<1> HIDE DEF got, left, key
<1>1. i \in DOMAIN jobs /\ \A k \in DOMAIN jobs : IsJob(jobs[k])
  BY ListedIs DEF Of
<1>2. \A j : IsJob(j) => LET n == [j EXCEPT !.plan.owed = left]
                         IN IsJob(n) /\ Still(j, n)
  BY DEF Still, Same, IsJob, JobFields, Shown
<1>3. \A k \in DOMAIN jobs : Still(jobs[k], told[k])
  <2>1. \A k \in DOMAIN jobs : told[k] = IF k = i THEN [jobs[k] EXCEPT !.plan.owed = left] ELSE jobs[k]
    OBVIOUS
  <2>2. \A k \in DOMAIN jobs : Still(jobs[k], jobs[k])
    BY <1>1 DEF Still, Same
  <2> HIDE DEF told
  <2> QED
    BY <1>1, <1>2, <2>1, <2>2
<1>4. told = [k \in DOMAIN jobs |-> told[k]]
  OBVIOUS
<1> HIDE DEF told
<1>5. Asks(told) /\ DOMAIN told = DOMAIN jobs
  BY <1>3, <1>4, RewriteAsks
<1>6. Heard(c, i, by) = told \/ Heard(c, i, by) = Append(told, Job("calibrate", key, 0))
  BY DEF Heard, told, left, got, key, New, Asked
<1>7. Asks(Append(told, Job("calibrate", key, 0)))
  BY <1>5, AskedAlso
<1> QED
  BY <1>5, <1>6, <1>7

LEMMA AsksMoves ==
  ASSUME NEW js, Asks(js)
  PROVE  MovesAt(0, js)
BY DEF Asks, MovesAt, Fares, Still

-----------------------------------------------------------------------------
(* What a step leaves as right as it was.                                  *)

\* The answers of views change only with the generation.
Onward ==
    /\ generation' \in Nat
    /\ generation' > generation \/ (generation' = generation /\ entities' = entities /\ decisions' = decisions)
FavsStay == \A e \in Asset : decisions'[e].fav = decisions[e].fav
RacedBut(i) == \A k, e : (k # i /\ <<k, e>> \in raced) => <<k, e>> \in raced'

LEMMA DomainGrows ==
  ASSUME Listed(jobs), NEW js, Listed(js), Len(js) \in {Len(jobs), Len(jobs) + 1}
  PROVE  DOMAIN jobs \subseteq DOMAIN js /\ \A n \in DOMAIN js \ DOMAIN jobs : n = Len(jobs) + 1
<1>1. Len(jobs) \in Nat /\ DOMAIN jobs = 1..Len(jobs) /\ Len(js) \in Nat /\ DOMAIN js = 1..Len(js)
  BY ListedIs
<1>2. \A m, n \in Nat : n \in {m, m + 1} => 1..m \subseteq 1..n /\ \A x \in (1..n) \ (1..m) : x = m + 1
  OBVIOUS
<1> QED
  BY <1>1, <1>2

LEMMA FaresOK ==
  ASSUME Library, Listed(jobs), Listed(jobs)', Onward, FavsStay, NEW k \in DOMAIN jobs, JobOK(k),
         \A e : <<k, e>> \in raced => <<k, e>> \in raced',
         Len(jobs') \in {Len(jobs), Len(jobs) + 1}, Fares(jobs[k], jobs'[k])
  PROVE  JobOK(k)'
<1>1. Same(jobs[k], jobs'[k]) /\ Len(jobs) \in Nat /\ k \in DOMAIN jobs'
  BY ListedIs, DomainGrows DEF Fares, Still, Shelved, Dropped
<1>2. generation \in Nat /\ generation' \in Nat /\ generation' >= generation
  BY DEF Library, Onward
<1>3. jobs'[k].kind = "catalog" => jobs'[k].gen \in 1..Len(jobs')
  BY <1>1 DEF JobOK, Same
<1>4. jobs'[k].kind \in Whole /\ jobs'[k].row = "ready" => jobs'[k].status = "completed"
  BY <1>1 DEF JobOK, Same, Fares, Still, Shelved, Dropped, Whole, Shown
<1>5. jobs'[k].kind = "view" => jobs'[k].key[2] \in Nat /\ jobs'[k].key[2] <= generation'
  BY <1>1, <1>2 DEF JobOK, Same
<1>6. ASSUME jobs'[k].kind = "view", jobs'[k].row = "ready", jobs'[k].key[2] = generation'
      PROVE  jobs'[k].rows = Answer(jobs[k].key[1], jobs[k].gen)'
  <2>1. generation' = generation
    BY <1>1, <1>2, <1>6 DEF JobOK, Same
  <2>2. jobs[k].row = "ready" /\ jobs'[k].rows = jobs[k].rows
    BY <1>1, <1>6 DEF Same, Fares, Still, Shelved, Dropped, Shown
  <2>3. jobs[k].rows = Answer(jobs[k].key[1], jobs[k].gen)
    BY <1>1, <1>6, <2>1, <2>2 DEF JobOK, Same
  <2>4. Answer(jobs[k].key[1], jobs[k].gen)' = Answer(jobs[k].key[1], jobs[k].gen)
    <3>1. jobs'[k].key = jobs[k].key /\ jobs'[k].gen = jobs[k].gen
      BY <1>1 DEF Same
    <3>2. entities' = entities /\ decisions' = decisions
      BY <2>1, <1>2 DEF Onward
    <3> QED
      BY <3>1, <3>2 DEF Answer, Live
  <2> QED
    BY <2>2, <2>3, <2>4
<1>7. jobs'[k].kind = "stacks" => jobs'[k].rows \subseteq Stack
  BY <1>1 DEF JobOK, Same, Fares, Still, Shelved, Dropped, Shown
<1>8. ASSUME jobs'[k].kind = "junk", Ready(k)'
      PROVE  Judges(k)'
  <2>1. Ready(k) /\ jobs'[k].rows = jobs[k].rows /\ jobs'[k].tally = jobs[k].tally /\ jobs'[k].key = jobs[k].key
    BY <1>1, <1>8 DEF Ready, Same, Fares, Still, Shelved, Dropped, Shown
  <2>2. Judges(k)
    BY <1>1, <1>8, <2>1 DEF JobOK, Same
  <2>3. \A r \in jobs[k].rows : decisions'[r.e].fav = decisions[r.e].fav
    BY <2>2 DEF FavsStay, Judges, JunkVerdict
  <2> QED
    BY <2>1, <2>2, <2>3 DEF Judges
<1> QED
  BY <1>3, <1>4, <1>5, <1>6, <1>7, <1>8 DEF JobOK

LEMMA OthersOK ==
  ASSUME Library, LedgerOK, NEW i, MovesAt(i, jobs'), Onward, FavsStay, RacedBut(i)
  PROVE  \A k \in DOMAIN jobs' \ {i} : JobOK(k)'
<1>1. /\ Listed(jobs) /\ Listed(jobs)' /\ Len(jobs') \in {Len(jobs), Len(jobs) + 1}
      /\ \A k \in DOMAIN jobs : JobOK(k)
  BY DEF LedgerOK, MovesAt
<1>2. generation \in Nat /\ generation' \in Nat /\ generation' >= generation
  BY DEF Library, Onward
<1>3. ASSUME NEW k \in DOMAIN jobs', k # i, k \in DOMAIN jobs
      PROVE  JobOK(k)'
  <2>1. Fares(jobs[k], jobs'[k]) /\ \A e : <<k, e>> \in raced => <<k, e>> \in raced'
    BY <1>3 DEF MovesAt, RacedBut
  <2> QED
    BY <1>1, <1>3, <2>1, FaresOK
<1>4. ASSUME NEW k \in DOMAIN jobs', k \notin DOMAIN jobs
      PROVE  JobOK(k)'
  <2>1. Fresh(jobs', k)
    BY <1>4 DEF MovesAt
  <2> QED
    BY <1>2, <2>1 DEF JobOK, Fresh, Ready, Whole, Stack
<1> QED
  BY <1>3, <1>4

\* A catalog on show was on show, or is the one at work.
LEMMA CatalogsShrink ==
  ASSUME LedgerOK, NEW i, MovesAt(i, jobs')
  PROVE  /\ \A k \in Catalogs' : k \in Catalogs \/ k = i
         /\ \A k, m \in Of(jobs', "catalog") : jobs'[k].gen = jobs'[m].gen => k = m
<1>1. /\ Listed(jobs) /\ Listed(jobs)' /\ Len(jobs') \in {Len(jobs), Len(jobs) + 1} /\ Len(jobs) \in Nat
      /\ DOMAIN jobs = 1..Len(jobs) /\ DOMAIN jobs' = 1..Len(jobs')
  BY ListedIs DEF LedgerOK, MovesAt
<1>2. ASSUME NEW k \in Catalogs', k # i
      PROVE  k \in Catalogs
  <2>1. k \in DOMAIN jobs' /\ jobs'[k].kind = "catalog" /\ jobs'[k].cur /\ jobs'[k].row = "ready"
    BY <1>2 DEF Catalogs, Of
  <2>2. k \in DOMAIN jobs
    BY <2>1 DEF MovesAt, Fresh
  <2>3. Fares(jobs[k], jobs'[k]) /\ Same(jobs[k], jobs'[k])
    BY <1>2, <2>2 DEF MovesAt
  <2> QED
    BY <2>1, <2>2, <2>3 DEF Catalogs, Of, Same, Fares, Still, Shelved, Dropped, Shown
<1>3. ASSUME NEW k \in Of(jobs', "catalog"), NEW m \in Of(jobs', "catalog"), jobs'[k].gen = jobs'[m].gen
      PROVE  k = m
  <2>1. \A n \in DOMAIN jobs : Same(jobs[n], jobs'[n])
    BY DEF MovesAt
  <2>2. \A n \in DOMAIN jobs' \ DOMAIN jobs : Fresh(jobs', n) /\ n = Len(jobs) + 1
    <3>1. \A n \in DOMAIN jobs' \ DOMAIN jobs : Fresh(jobs', n)
      BY DEF MovesAt
    <3>2. \A n \in DOMAIN jobs' \ DOMAIN jobs : n = Len(jobs) + 1
      BY <1>1, DomainGrows
    <3> QED
      BY <3>1, <3>2
  <2>3. CASE k \in DOMAIN jobs /\ m \in DOMAIN jobs
    BY <2>1, <2>3, <1>3 DEF LedgerOK, OneCatalog, Of, Same
  <2>4. CASE k \in DOMAIN jobs /\ m \notin DOMAIN jobs
    BY <2>1, <2>2, <2>4, <1>3 DEF Of, Same, Fresh
  <2>5. CASE k \notin DOMAIN jobs /\ m \in DOMAIN jobs
    BY <2>1, <2>2, <2>5, <1>3 DEF Of, Same, Fresh
  <2>6. CASE k \notin DOMAIN jobs /\ m \notin DOMAIN jobs
    BY <2>2, <2>6, <1>3 DEF Of
  <2> QED
    BY <2>3, <2>4, <2>5, <2>6
<1> QED
  BY <1>2, <1>3

LEMMA LedgerKeeps ==
  ASSUME Library, LedgerOK, NEW i, MovesAt(i, jobs'), Onward, FavsStay, RacedBut(i),
         i \in DOMAIN jobs => JobOK(i)' /\ (i \in Catalogs' => i \in Catalogs \/ \A k \in Catalogs' : k = i),
         i \notin DOMAIN jobs => i \notin DOMAIN jobs'
  PROVE  LedgerOK'
<1>1. Listed(jobs') /\ \A k \in DOMAIN jobs' \ {i} : JobOK(k)'
  BY OthersOK DEF MovesAt
<1>2. \A k \in DOMAIN jobs' : JobOK(k)'
  BY <1>1
<1>3. \A k, m \in Catalogs' : k = m
  <2>1. \A k \in Catalogs' : k \in Catalogs \/ k = i
    BY CatalogsShrink
  <2>2. \A k, m \in Catalogs : k = m
    BY DEF LedgerOK, OneCatalog
  <2>3. \A k \in Catalogs' : k \in DOMAIN jobs'
    BY DEF Catalogs, Of
  <2> QED
    BY <2>1, <2>2, <2>3
<1>4. \A k, m \in Of(jobs', "catalog") : jobs'[k].gen = jobs'[m].gen => k = m
  BY CatalogsShrink
<1> QED
  BY <1>1, <1>2, <1>3, <1>4 DEF LedgerOK, OneCatalog

-----------------------------------------------------------------------------
(* The workers.                                                            *)

LEMMA IdleOK ==
  ASSUME NEW w, worker'[w] = Idle \/ worker'[w] = Down
  PROVE  WorkOK(w)'
BY DEF WorkOK, Idle, Down, Places, Working

\* The workers but the one at work are not at a job.
LEMMA BystandersOK ==
  ASSUME WorkersOK, NEW w \in Worker, holder \in {w, NoOne}, Listed(jobs), Listed(jobs)',
         Len(jobs') \in {Len(jobs), Len(jobs) + 1},
         NEW v \in Worker \ {w}, worker'[v] = worker[v]
  PROVE  WorkOK(v)'
<1>1. NoOne \notin Worker
  BY JobsAssumption
<1>2. DOMAIN jobs \subseteq DOMAIN jobs'
  BY DomainGrows
<1>3. WorkOK(v)
  BY DEF WorkersOK
<1>4. worker[v].at \in {"down", "recover", "idle", "picked"}
  BY <1>1, <1>3 DEF WorkOK, Working
<1> QED
  BY <1>2, <1>3, <1>4 DEF WorkOK, Working

Others(w) == DOMAIN worker' = Worker /\ \A v \in Worker \ {w} : worker'[v] = worker[v]

LEMMA CrewOK ==
  ASSUME LedgerOK, WorkersOK, NEW w \in Worker, holder \in {w, NoOne}, Others(w), NEW i, MovesAt(i, jobs'),
         WorkOK(w)'
  PROVE  WorkersOK'
<1>1. \A v \in Worker \ {w} : WorkOK(v)'
  BY BystandersOK DEF Others, MovesAt, LedgerOK
<1> QED
  BY <1>1 DEF WorkersOK, Others

\* A worker goes on with its job by writing less than what it is judged by.
LEMMA HolderIs ==
  ASSUME WorkersOK, NEW w \in Worker, Working(w)
  PROVE  /\ holder = w /\ worker[w].job \in DOMAIN jobs /\ WorkOK(w) /\ w # NoOne
         /\ DOMAIN worker[w] = {"at", "job", "read"} /\ DOMAIN worker = Worker
         /\ worker[w].at \notin {"down", "recover", "idle", "picked"}
BY JobsAssumption DEF WorkersOK, WorkOK, Working

\* A step of the desk, which leaves the workers where they are.
LEMMA CrewStays ==
  ASSUME Library, LedgerOK, WorkersOK, UNCHANGED <<worker, holder>>, Onward, Listed(jobs)',
         Len(jobs') \in {Len(jobs), Len(jobs) + 1},
         \A k \in DOMAIN jobs :
            /\ Same(jobs[k], jobs'[k])
            /\ jobs[k].kind \in Whole \union {"junk"} => jobs'[k].row = jobs[k].row /\ jobs'[k].status = jobs[k].status
            /\ jobs[k].kind = "view" => jobs'[k].rows = jobs[k].rows
  PROVE  WorkersOK'
<1>1. DOMAIN jobs \subseteq DOMAIN jobs'
  BY DomainGrows DEF LedgerOK
<1>2. SUFFICES ASSUME NEW w \in Worker
               PROVE  WorkOK(w)'
  BY DEF WorkersOK
<1>3. WorkOK(w)
  BY DEF WorkersOK
<1>4. CASE ~Working(w)
  BY <1>1, <1>3, <1>4 DEF WorkOK, Working, Places
<1>5. CASE Working(w)
  <2> DEFINE i == worker[w].job
  <2>1. i \in DOMAIN jobs /\ i \in DOMAIN jobs' /\ worker[w].job = i /\ worker'[w] = worker[w]
    BY <1>1, <1>3, <1>5 DEF WorkOK
  <2>2. Same(jobs[i], jobs'[i]) /\ JobOK(i)
    BY <2>1 DEF LedgerOK
  <2>3. /\ DOMAIN worker'[w] = {"at", "job", "read"} /\ worker'[w].at \in Places /\ holder' = w
        /\ worker'[w].at # "picked"
    BY <1>3, <1>5, <2>1 DEF WorkOK, Working
  <2>4. jobs'[i].kind \in Whole => jobs'[i].status = "running" /\ jobs'[i].row = "building"
    BY <1>3, <1>5, <2>1, <2>2 DEF WorkOK, Same
  <2>5. ASSUME worker'[w].at = "view"
        PROVE  /\ jobs'[i].kind = "view" /\ DOMAIN worker'[w].read = {"rest", "seen"}
               /\ jobs'[i].key[2] = generation'
                    => jobs'[i].rows \union worker'[w].read.rest = Answer(jobs[i].key[1], jobs[i].gen)'
    <3>1. /\ jobs[i].kind = "view" /\ jobs'[i].kind = "view" /\ jobs'[i].rows = jobs[i].rows
          /\ DOMAIN worker'[w].read = {"rest", "seen"}
          /\ jobs'[i].key = jobs[i].key /\ jobs'[i].gen = jobs[i].gen
      BY <1>3, <2>1, <2>2, <2>5 DEF WorkOK, Same
    <3>2. jobs[i].key[2] \in Nat /\ jobs[i].key[2] <= generation /\ generation \in Nat /\ generation' \in Nat
      BY <2>2, <3>1 DEF JobOK, Library, Onward
    <3>3. ASSUME jobs'[i].key[2] = generation'
          PROVE  jobs'[i].rows \union worker'[w].read.rest = Answer(jobs[i].key[1], jobs[i].gen)'
      <4>1. generation' = generation /\ entities' = entities /\ decisions' = decisions
        BY <3>1, <3>2, <3>3 DEF Onward
      <4>2. jobs[i].rows \union worker[w].read.rest = Answer(jobs[i].key[1], jobs[i].gen)
        BY <1>3, <2>1, <2>5, <3>1, <3>3, <4>1 DEF WorkOK
      <4>3. Answer(jobs[i].key[1], jobs[i].gen)' = Answer(jobs[i].key[1], jobs[i].gen)
        BY <2>1, <3>1, <4>1 DEF Answer, Live
      <4> QED
        BY <2>1, <3>1, <4>2, <4>3
    <3> QED
      BY <3>1, <3>3
  <2>6. /\ worker'[w].at = "catalog" => jobs'[i].kind = "catalog"
        /\ worker'[w].at \in {"stacks", "stacked"} => jobs'[i].kind = "stacks"
        /\ worker'[w].at \in {"signals", "read"} => jobs'[i].kind = "junk" /\ DOMAIN worker'[w].read \subseteq Asset
        /\ worker'[w].at = "shown" =>
             jobs'[i].kind \in {"calibrate", "junk"} /\ (jobs'[i].kind = "junk" => jobs'[i].row = "ready")
        /\ worker'[w].at \in {"assets", "save"} => jobs'[i].kind = "backfill"
    BY <1>3, <2>1, <2>2 DEF WorkOK, Same
  <2>7. worker'[w].job = i /\ Working(w)'
    BY <1>5, <2>1 DEF Working
  <2> QED
    BY <2>1, <2>3, <2>4, <2>5, <2>6, <2>7 DEF WorkOK
<1> QED
  BY <1>4, <1>5

-----------------------------------------------------------------------------
(* Steps of the ledger.                                                    *)

LEMMA WrittenMoves ==
  ASSUME Listed(jobs), NEW i, NEW f, f = [k \in DOMAIN jobs |-> f[k]],
         i \in DOMAIN jobs => IsJob(f[i]) /\ Same(jobs[i], f[i]),
         \A k \in DOMAIN jobs \ {i} : Fares(jobs[k], f[k])
  PROVE  MovesAt(i, f) /\ DOMAIN f = DOMAIN jobs
<1>1. \A k \in DOMAIN jobs : IsJob(f[k])
  BY DEF Fares, Still, Shelved, Dropped
<1>2. Listed(f) /\ Len(f) = Len(jobs) /\ DOMAIN f = DOMAIN jobs
  BY <1>1, Rewritten
<1>3. \A k \in DOMAIN jobs \ {i} : Same(jobs[k], f[k])
  BY DEF Fares, Still, Shelved, Dropped
<1> QED
  BY <1>2, <1>3 DEF MovesAt

LEMMA KeptFares ==
  ASSUME Listed(jobs)
  PROVE  \A k \in DOMAIN jobs : Fares(jobs[k], jobs[k])
BY ListedIs DEF Fares, Still, Same

LEMMA RequeueMoves ==
  ASSUME Listed(jobs), NEW S
  PROVE  LET f == [k \in DOMAIN jobs |-> IF k \in S THEN Requeued(jobs[k]) ELSE jobs[k]]
         IN MovesAt(0, f) /\ DOMAIN f = DOMAIN jobs
<1> DEFINE f == [k \in DOMAIN jobs |-> IF k \in S THEN Requeued(jobs[k]) ELSE jobs[k]]
<1>1. \A k \in DOMAIN jobs : IsJob(jobs[k])
  BY ListedIs
<1>2. \A k \in DOMAIN jobs : Fares(jobs[k], f[k])
  BY <1>1, RequeuedIs, KeptFares DEF Fares
<1>3. 0 \notin DOMAIN jobs
  BY ListedIs
<1> QED
  BY <1>2, <1>3, WrittenMoves

LEMMA SelfMoves ==
  ASSUME Listed(jobs)
  PROVE  MovesAt(0, jobs)
BY SelfAsks, AsksMoves

\* A step at no job in particular.
LEMMA AloofKeeps ==
  ASSUME Library, LedgerOK, MovesAt(0, jobs'), Onward, FavsStay, RacedBut(0)
  PROVE  LedgerOK'
<1>1. Listed(jobs) /\ Listed(jobs')
  BY DEF LedgerOK, MovesAt
<1>2. 0 \notin DOMAIN jobs /\ 0 \notin DOMAIN jobs'
  BY <1>1, ListedIs
<1> QED
  BY <1>2, LedgerKeeps

LEMMA StandStill ==
  ASSUME UNCHANGED library, Library
  PROVE  Library' /\ Onward /\ FavsStay /\ \A i : RacedBut(i)
BY DEF library, Library, Onward, FavsStay, RacedBut

\* A worker's step at no job in particular, or one that only asks.
LEMMA AloofStep ==
  ASSUME PagesInv, NEW w \in Worker, holder \in {w, NoOne}, Others(w), WorkOK(w)',
         MovesAt(0, jobs'), Library', Onward, FavsStay, RacedBut(0)
  PROVE  PagesInv'
<1>1. LedgerOK'
  BY AloofKeeps DEF PagesInv
<1>2. WorkersOK'
  BY CrewOK DEF PagesInv
<1> QED
  BY <1>1, <1>2 DEF PagesInv

\* A worker's step at its job.
LEMMA JobStep ==
  ASSUME PagesInv, NEW w \in Worker, holder \in {w, NoOne}, Others(w), WorkOK(w)',
         NEW i \in DOMAIN jobs, MovesAt(i, jobs'), Library', Onward, FavsStay, RacedBut(i),
         JobOK(i)', i \in Catalogs' => i \in Catalogs \/ \A k \in Catalogs' : k = i
  PROVE  PagesInv'
<1>1. LedgerOK'
  BY LedgerKeeps DEF PagesInv
<1>2. WorkersOK'
  BY CrewOK DEF PagesInv
<1> QED
  BY <1>1, <1>2 DEF PagesInv

LEMMA OnlyMine ==
  ASSUME WorkersOK, NEW w \in Worker, NEW r, worker' = [worker EXCEPT ![w] = r]
  PROVE  Others(w) /\ worker'[w] = r
BY DEF WorkersOK, Others

LEMMA LeavesIdle ==
  ASSUME WorkersOK, NEW w \in Worker, NEW js, Leave(w, js)
  PROVE  Others(w) /\ WorkOK(w)' /\ jobs' = js /\ holder' = NoOne
<1>1. Others(w) /\ worker'[w] = Idle
  BY OnlyMine DEF Leave
<1> QED
  BY <1>1, IdleOK DEF Leave

-----------------------------------------------------------------------------
(* The loop.                                                               *)

LEMMA WakePages ==
  ASSUME PagesInv, NEW w \in Worker, Wake(w), UNCHANGED library
  PROVE  PagesInv'
<1>1. Others(w) /\ worker'[w] = [at |-> "recover", job |-> 7, read |-> <<>>]
  BY OnlyMine DEF PagesInv, Wake
<1>2. WorkOK(w)'
  BY <1>1 DEF WorkOK, Working, Places
<1>3. LedgerOK' /\ Library'
  BY SelfMoves, StandStill, AloofKeeps DEF PagesInv, LedgerOK, Wake
<1>4. \A v \in Worker \ {w} : WorkOK(v)'
  BY <1>1 DEF Others, PagesInv, WorkersOK, WorkOK, Working, Wake, Answer, Live, library
<1> QED
  BY <1>1, <1>2, <1>3, <1>4 DEF PagesInv, WorkersOK, Others

LEMMA KillPages ==
  ASSUME PagesInv, NEW w \in Worker, Kill(w), UNCHANGED library
  PROVE  PagesInv'
<1>1. Others(w) /\ worker'[w] = Down
  BY OnlyMine DEF PagesInv, Kill
<1>2. WorkOK(w)'
  BY <1>1, IdleOK
<1>3. LedgerOK' /\ Library'
  BY SelfMoves, StandStill, AloofKeeps DEF PagesInv, LedgerOK, Kill
<1>4. \A v \in Worker \ {w} : WorkOK(v)'
  <2>1. \A v \in Worker \ {w} : holder = v => holder' = v
    BY DEF Kill
  <2> QED
    BY <1>1, <2>1 DEF Others, PagesInv, WorkersOK, WorkOK, Working, Kill, Answer, Live, library
<1> QED
  BY <1>1, <1>2, <1>3, <1>4 DEF PagesInv, WorkersOK, Others

LEMMA FailPages ==
  ASSUME PagesInv, NEW w \in Worker, Fail(w), UNCHANGED library
  PROVE  PagesInv'
<1> DEFINE i == worker[w].job
           f == [k \in DOMAIN jobs |-> IF k \in {i} THEN Requeued(jobs[k]) ELSE jobs[k]]
<1>1. holder = w /\ i \in DOMAIN jobs
  BY HolderIs DEF PagesInv, Fail
<1>2. [jobs EXCEPT ![i] = Requeued(@)] = f
  BY <1>1
<1>3. Others(w) /\ WorkOK(w)' /\ jobs' = f
  BY <1>2, LeavesIdle DEF PagesInv, Fail
<1>4. MovesAt(0, jobs')
  BY <1>3, RequeueMoves DEF PagesInv, LedgerOK
<1> QED
  BY <1>1, <1>3, <1>4, StandStill, AloofStep DEF PagesInv

LEMMA RecoverPages ==
  ASSUME PagesInv, NEW w \in Worker, Recover(w), UNCHANGED library
  PROVE  PagesInv'
<1>1. Others(w) /\ WorkOK(w)'
  <2>1. Others(w) /\ worker'[w] \in {Down, Idle, [worker[w] EXCEPT !.job = worker[w].job + 1]}
    BY DEF Recover, PagesInv, WorkersOK, Others
  <2>2. CASE worker'[w] = [worker[w] EXCEPT !.job = worker[w].job + 1]
    <3>1. worker'[w].at = "recover" /\ DOMAIN worker'[w] = {"at", "job", "read"}
      BY <2>2 DEF Recover, At, PagesInv, WorkersOK, WorkOK
    <3> QED
      BY <2>1, <3>1 DEF WorkOK, Working, Places
  <2> QED
    BY <2>1, <2>2, IdleOK
<1>2. MovesAt(0, jobs') /\ DOMAIN jobs' = DOMAIN jobs
  BY RequeueMoves, SelfMoves DEF Recover, PagesInv, LedgerOK
<1>3. CASE holder = NoOne
  BY <1>1, <1>2, <1>3, StandStill, AloofStep DEF PagesInv
<1>4. CASE holder # NoOne
  <2>1. jobs' = jobs /\ holder' = holder
    BY <1>4 DEF Recover
  <2>2. LedgerOK' /\ Library'
    BY <1>2, StandStill, AloofKeeps DEF PagesInv
  <2>3. \A v \in Worker \ {w} : WorkOK(v)'
    BY <1>1, <2>1 DEF Others, PagesInv, WorkersOK, WorkOK, Working, Answer, Live, library
  <2> QED
    BY <1>1, <2>2, <2>3 DEF PagesInv, WorkersOK, Others
<1> QED
  BY <1>3, <1>4

LEMMA NextJobPages ==
  ASSUME PagesInv, NEW w \in Worker, NextJob(w), UNCHANGED library
  PROVE  PagesInv'
<1>1. PICK i \in Waiting : worker' = [worker EXCEPT ![w] = [Idle EXCEPT !.at = "picked", !.job = i]]
  BY DEF NextJob
<1>2. Others(w) /\ worker'[w] = [Idle EXCEPT !.at = "picked", !.job = i]
  BY <1>1, OnlyMine DEF PagesInv
<1>3. WorkOK(w)'
  <2>1. i \in DOMAIN jobs'
    BY <1>1 DEF NextJob, Waiting
  <2>2. /\ worker'[w].at = "picked" /\ worker'[w].job = i
        /\ DOMAIN worker'[w] = {"at", "job", "read"}
    BY <1>2 DEF Idle
  <2> QED
    BY <2>1, <2>2 DEF WorkOK, Working, Places
<1>4. LedgerOK' /\ Library'
  BY SelfMoves, StandStill, AloofKeeps DEF PagesInv, LedgerOK, NextJob
<1>5. \A v \in Worker \ {w} : WorkOK(v)'
  BY <1>2 DEF Others, PagesInv, WorkersOK, WorkOK, Working, NextJob, Answer, Live, library
<1> QED
  BY <1>2, <1>3, <1>4, <1>5 DEF PagesInv, WorkersOK, Others

LEMMA BeginPages ==
  ASSUME PagesInv, NEW w \in Worker, Begin(w), UNCHANGED library
  PROVE  PagesInv'
<1> PICK i : i = worker[w].job
  OBVIOUS
<1>1. worker[w].at = "picked" /\ i \in DOMAIN jobs /\ DOMAIN worker[w] = {"at", "job", "read"}
      /\ Listed(jobs) /\ \A k \in DOMAIN jobs : IsJob(jobs[k])
  BY ListedIs DEF Begin, At, PagesInv, WorkersOK, WorkOK, LedgerOK
<1>2. CASE holder # NoOne
  <2>1. Others(w) /\ worker'[w] = Idle /\ jobs' = jobs /\ holder' = holder
    BY <1>2, OnlyMine DEF Begin, PagesInv
  <2>2. WorkOK(w)'
    BY <2>1, IdleOK
  <2>3. LedgerOK' /\ Library'
    BY <1>1, <2>1, SelfMoves, StandStill, AloofKeeps DEF PagesInv
  <2>4. \A v \in Worker \ {w} : WorkOK(v)'
    BY <2>1 DEF Others, PagesInv, WorkersOK, WorkOK, Working, Answer, Live, library
  <2> QED
    BY <2>1, <2>2, <2>3, <2>4 DEF PagesInv, WorkersOK, Others
<1>3. CASE holder = NoOne
  <2>1. PICK back \in {{}, Lapsed(jobs[i].kind)} :
          LET js == [k \in DOMAIN jobs |-> IF k \in back THEN Requeued(jobs[k]) ELSE jobs[k]]
          IN IF Takes(js[i])
             THEN /\ jobs' = [js EXCEPT ![i] = Taken(@)]
                  /\ worker' = [worker EXCEPT ![w].at = "begun"]
                  /\ holder' = w
             ELSE /\ jobs' = [js EXCEPT ![i] = Refused(@)]
                  /\ worker' = [worker EXCEPT ![w] = Idle]
                  /\ UNCHANGED holder
    BY <1>3 DEF Begin
  <2> DEFINE js == [k \in DOMAIN jobs |-> IF k \in back THEN Requeued(jobs[k]) ELSE jobs[k]]
             f(j) == [k \in DOMAIN jobs |-> IF k = i THEN j ELSE js[k]]
  <2>2. \A k \in DOMAIN jobs : /\ IsJob(js[k]) /\ Same(jobs[k], js[k]) /\ Fares(jobs[k], js[k])
                               /\ jobs[k].kind = "stacks" => js[k].rows = jobs[k].rows
    BY <1>1, RequeuedIs, KeptFares DEF Fares, Dropped, Same
  <2>3. \A j : [js EXCEPT ![i] = j] = f(j)
    OBVIOUS
  <2>4. CASE Takes(js[i])
    <3> DEFINE t == Taken(js[i])
    <3>1. jobs' = f(t) /\ worker' = [worker EXCEPT ![w].at = "begun"] /\ holder' = w
      BY <2>1, <2>3, <2>4
    <3> HIDE DEF js
    <3>2. /\ IsJob(t) /\ Same(jobs[i], t) /\ t.status = "running"
          /\ jobs[i].kind = "stacks" => t.rows = jobs[i].rows
          /\ jobs[i].kind # "backfill" => t.row = "building"
      BY <1>1, <2>2, TakenIs DEF Same
    <3> HIDE DEF t
    <3>3. f(t)[i] = t /\ \A k \in DOMAIN jobs \ {i} : f(t)[k] = js[k]
      BY <1>1
    <3>4. MovesAt(i, jobs') /\ DOMAIN jobs' = DOMAIN jobs /\ jobs'[i] = t
      BY <1>1, <2>2, <3>1, <3>2, <3>3, WrittenMoves
    <3> HIDE DEF f
    <3>5. Len(jobs') = Len(jobs)
      BY <1>1, <3>4, ListedIs DEF MovesAt
    <3>6. Others(w) /\ worker'[w] = [worker[w] EXCEPT !.at = "begun"]
      <4>1. worker' = [worker EXCEPT ![w] = [worker[w] EXCEPT !.at = "begun"]]
        BY <3>1
      <4> QED
        BY <4>1, OnlyMine DEF PagesInv
    <3>7. /\ worker'[w].at = "begun" /\ worker'[w].job = i /\ DOMAIN worker'[w] = {"at", "job", "read"}
      BY <1>1, <3>6
    <3>8. WorkOK(w)'
      BY <1>1, <3>1, <3>2, <3>4, <3>7 DEF WorkOK, Working, Places, Whole, Same
    <3>9. JobOK(i)
      BY <1>1 DEF PagesInv, LedgerOK
    <3>10. JobOK(i)' /\ i \notin Catalogs'
      <4>1. generation' = generation /\ JobOK(i)
        BY <3>9 DEF library
      <4> QED
        BY <3>2, <3>4, <3>5, <4>1 DEF JobOK, Same, Whole, Ready, Catalogs, Of
    <3> QED
      BY <1>1, <1>3, <3>4, <3>6, <3>8, <3>10, StandStill, JobStep DEF PagesInv
  <2>5. CASE ~Takes(js[i])
    <3> DEFINE t == Refused(js[i])
    <3>1. jobs' = f(t) /\ worker' = [worker EXCEPT ![w] = Idle] /\ holder' = holder
      BY <2>1, <2>3, <2>5
    <3> HIDE DEF js
    <3>2. Fares(jobs[i], t)
      <4>1. t = js[i] \/ t = Requeued(js[i])
        BY DEF Refused
      <4>2. Dropped(js[i], Requeued(js[i]))
        BY <1>1, <2>2, RequeuedIs
      <4>3. Dropped(jobs[i], Requeued(js[i]))
        BY <1>1, <2>2, <4>2 DEF Dropped, Same
      <4> QED
        BY <1>1, <2>2, <4>1, <4>3 DEF Fares
    <3> HIDE DEF t
    <3>3. f(t)[i] = t /\ \A k \in DOMAIN jobs \ {i} : f(t)[k] = js[k]
      BY <1>1
    <3>4. 0 \notin DOMAIN jobs /\ \A k \in DOMAIN jobs : Fares(jobs[k], f(t)[k])
      BY <1>1, <2>2, <3>2, <3>3, ListedIs
    <3>5. MovesAt(0, jobs')
      BY <1>1, <3>1, <3>4, WrittenMoves
    <3>6. Others(w) /\ WorkOK(w)'
      BY <3>1, OnlyMine, IdleOK DEF PagesInv
    <3> QED
      BY <1>3, <3>5, <3>6, StandStill, AloofStep DEF PagesInv
  <2> QED
    BY <2>4, <2>5
<1> QED
  BY <1>2, <1>3

\* The record of a worker that goes on.
LEMMA Placed ==
  ASSUME NEW r, DOMAIN r = {"at", "job", "read"}, NEW a, NEW b
  PROVE  LET n == [r EXCEPT !.at = a, !.read = b]
         IN n.at = a /\ n.read = b /\ n.job = r.job /\ DOMAIN n = {"at", "job", "read"}
OBVIOUS

LEMMA GoesOn ==
  ASSUME WorkersOK, NEW w \in Worker, Working(w), NEW at, NEW read, Step(w, at, read), holder' = holder
  PROVE  /\ Others(w) /\ worker'[w].at = at /\ worker'[w].read = read /\ worker'[w].job = worker[w].job
         /\ DOMAIN worker'[w] = {"at", "job", "read"} /\ holder = w /\ holder' = w
         /\ worker[w].job \in DOMAIN jobs /\ WorkOK(w)
<1>1. /\ holder = w /\ worker[w].job \in DOMAIN jobs /\ WorkOK(w)
      /\ DOMAIN worker[w] = {"at", "job", "read"}
  BY HolderIs
<1>2. Others(w) /\ worker'[w] = [worker[w] EXCEPT !.at = at, !.read = read]
  BY OnlyMine DEF Step
<1> QED
  BY <1>1, <1>2, Placed

\* A step that only reads, to a place where the job may be.
LEMMA ReadingStep ==
  ASSUME PagesInv, NEW w \in Worker, Working(w), NEW at, NEW read, Step(w, at, read),
         UNCHANGED <<jobs, holder, verified, entities, decisions, generation, raced>>,
         \/ at = "catalog" /\ Mine(w).kind = "catalog"
         \/ at \in {"stacks", "stacked"} /\ Mine(w).kind = "stacks"
         \/ at \in {"signals", "read"} /\ Mine(w).kind = "junk" /\ DOMAIN read \subseteq Asset
         \/ at = "shown" /\ Mine(w).kind = "calibrate"
         \/ at \in {"assets", "save"} /\ Mine(w).kind = "backfill"
  PROVE  PagesInv'
<1>1. /\ Others(w) /\ worker'[w].at = at /\ worker'[w].read = read /\ worker'[w].job = worker[w].job
      /\ DOMAIN worker'[w] = {"at", "job", "read"} /\ holder = w /\ holder' = w
      /\ worker[w].job \in DOMAIN jobs /\ WorkOK(w)
  BY GoesOn DEF PagesInv
<1>2. at \in Places /\ at \notin {"down", "recover", "idle", "picked", "view"}
  BY DEF Places
<1>3. WorkOK(w)'
  BY <1>1, <1>2 DEF WorkOK, Working, Mine, Places
<1>4. MovesAt(0, jobs') /\ Library' /\ Onward /\ FavsStay /\ RacedBut(0)
  BY SelfMoves DEF PagesInv, LedgerOK, Library, Onward, FavsStay, RacedBut
<1> QED
  BY <1>1, <1>3, <1>4, AloofStep

-----------------------------------------------------------------------------
(* The catalog.                                                            *)

LEMMA BeginCatalogPages ==
  ASSUME PagesInv, NEW w \in Worker, BeginCatalog(w)
  PROVE  PagesInv'
BY ReadingStep DEF BeginCatalog, Began, At, Open, Working, library

LEMMA FinishCatalogPages ==
  ASSUME PagesInv, Undecided, NEW w \in Worker, FinishCatalog(w)
  PROVE  PagesInv'
<1> PICK i : i = worker[w].job
  OBVIOUS
<1> PICK now : now = Anchors
  OBVIOUS
<1> DEFINE t == [Completed(jobs[i]) EXCEPT !.cur = TRUE, !.rows = now]
           f == [k \in DOMAIN jobs |-> IF k = i THEN t
                                       ELSE IF jobs[k].kind = "catalog" THEN [jobs[k] EXCEPT !.cur = FALSE] ELSE jobs[k]]
<1>1. /\ holder = w /\ i \in DOMAIN jobs /\ WorkOK(w) /\ jobs[i].kind = "catalog"
      /\ Listed(jobs) /\ \A k \in DOMAIN jobs : IsJob(jobs[k])
  BY HolderIs, ListedIs DEF FinishCatalog, At, Working, PagesInv, LedgerOK, WorkOK
<1>2. Others(w) /\ WorkOK(w)' /\ jobs' = f
  <2>1. Leave(w, f)
    BY DEF FinishCatalog
  <2> HIDE DEF f
  <2> QED
    BY <2>1, LeavesIdle DEF PagesInv
<1>3. IsJob(t) /\ Same(jobs[i], t) /\ t.status = "completed" /\ t.row = "ready" /\ t.cur
  <2>1. \A j : IsJob(j) => LET n == [j EXCEPT !.cur = TRUE, !.rows = now]
                           IN IsJob(n) /\ Same(j, n) /\ n.status = j.status /\ n.row = j.row /\ n.cur
    BY DEF IsJob, JobFields, Same
  <2> DEFINE j == Completed(jobs[i])
  <2>2. IsJob(j) /\ Same(jobs[i], j) /\ j.status = "completed" /\ j.row = "ready"
    BY <1>1, CompletedIs
  <2> HIDE DEF j
  <2>3. LET n == [j EXCEPT !.cur = TRUE, !.rows = now]
        IN IsJob(n) /\ Same(j, n) /\ n.status = j.status /\ n.row = j.row /\ n.cur
    BY <2>1, <2>2
  <2>4. t = [j EXCEPT !.cur = TRUE, !.rows = now]
    BY DEF j
  <2> HIDE DEF t
  <2> QED
    BY <2>2, <2>3, <2>4 DEF Same
<1> HIDE DEF t
<1>4. \A j : IsJob(j) => Fares(j, [j EXCEPT !.cur = FALSE]) /\ ~[j EXCEPT !.cur = FALSE].cur
  BY DEF Fares, Shelved, IsJob, JobFields, Same
<1>5. \A k \in DOMAIN jobs \ {i} : Fares(jobs[k], f[k])
  BY <1>1, <1>4, KeptFares
<1>6. MovesAt(i, f) /\ DOMAIN f = DOMAIN jobs /\ f[i] = t
  <2>1. f[i] = t /\ f = [k \in DOMAIN jobs |-> f[k]]
    BY <1>1
  <2> HIDE DEF f
  <2> QED
    BY <1>1, <1>3, <1>5, <2>1, WrittenMoves
<1>7. Len(f) = Len(jobs) /\ Len(jobs) \in Nat
  BY <1>1, <1>6, ListedIs DEF MovesAt
<1>8. \A k \in Catalogs' : k = i
  <2>1. \A k \in DOMAIN jobs : k # i /\ f[k].kind = "catalog" => ~f[k].cur
    BY <1>1, <1>4 DEF IsJob, JobFields
  <2> HIDE DEF f
  <2> QED
    BY <1>2, <1>6, <2>1 DEF Catalogs, Of
<1>9. /\ generation' = generation + 1 /\ verified' = verified /\ raced' = raced
      /\ decisions' = KeptDecisions(now)
  BY DEF FinishCatalog
<1>10. Library' /\ Onward /\ FavsStay /\ RacedBut(i)
  <2>1. generation' \in Nat /\ generation' > generation
    BY <1>9 DEF PagesInv, Library
  <2>2. decisions' \in [Asset -> Decision]
    BY <1>9 DEF PagesInv, Library, KeptDecisions, Decision
  <2>3. FavsStay
    BY <1>9 DEF PagesInv, Library, KeptDecisions, Decision, Undecided, FavsStay
  <2> QED
    BY <1>9, <2>1, <2>2, <2>3 DEF PagesInv, Library, Onward, RacedBut
<1> HIDE DEF f
<1>11. JobOK(i)'
  <2>1. JobOK(i)
    BY <1>1 DEF PagesInv, LedgerOK
  <2> QED
    BY <1>1, <1>2, <1>3, <1>6, <1>7, <2>1 DEF JobOK, Same, Whole
<1> QED
  BY <1>1, <1>2, <1>6, <1>8, <1>10, <1>11, JobStep DEF PagesInv

-----------------------------------------------------------------------------
(* Views, rollups and stacks.                                              *)

LEMMA RowsMove ==
  ASSUME Listed(jobs), NEW i \in DOMAIN jobs, NEW S, jobs' = [jobs EXCEPT ![i].rows = S]
  PROVE  /\ MovesAt(i, jobs') /\ DOMAIN jobs' = DOMAIN jobs /\ Len(jobs') = Len(jobs) /\ Same(jobs[i], jobs'[i])
         /\ jobs'[i].rows = S /\ jobs'[i].row = jobs[i].row /\ jobs'[i].status = jobs[i].status
         /\ jobs'[i].cur = jobs[i].cur
<1>1. \A k \in DOMAIN jobs : IsJob(jobs[k]) /\ Fares(jobs[k], jobs[k])
  BY ListedIs, KeptFares
<1>2. \A j : IsJob(j) => LET n == [j EXCEPT !.rows = S]
                         IN /\ IsJob(n) /\ Same(j, n) /\ n.rows = S /\ n.row = j.row /\ n.status = j.status
                            /\ n.cur = j.cur
  BY DEF IsJob, JobFields, Same
<1>3. jobs' = [k \in DOMAIN jobs |-> IF k = i THEN [jobs[i] EXCEPT !.rows = S] ELSE jobs[k]]
  OBVIOUS
<1>4. jobs'[i] = [jobs[i] EXCEPT !.rows = S] /\ \A k \in DOMAIN jobs \ {i} : jobs'[k] = jobs[k]
  BY <1>3
<1>5. jobs' = [k \in DOMAIN jobs |-> jobs'[k]]
  BY <1>3
<1>6. /\ IsJob(jobs'[i]) /\ Same(jobs[i], jobs'[i]) /\ jobs'[i].rows = S /\ jobs'[i].row = jobs[i].row
      /\ jobs'[i].status = jobs[i].status /\ jobs'[i].cur = jobs[i].cur
  BY <1>1, <1>2, <1>4
<1>7. MovesAt(i, jobs') /\ DOMAIN jobs' = DOMAIN jobs
  BY <1>1, <1>4, <1>5, <1>6, WrittenMoves
<1>8. Len(jobs') = Len(jobs)
  BY <1>7, ListedIs DEF MovesAt
<1> QED
  BY <1>6, <1>7, <1>8

\* A job that is being built shows nothing.
LEMMA BuildingOK ==
  ASSUME PagesInv, NEW i \in DOMAIN jobs, Same(jobs[i], jobs'[i]), Len(jobs') = Len(jobs), generation' = generation,
         jobs'[i].row = "building", jobs[i].kind = "stacks" => jobs'[i].rows \subseteq Stack
  PROVE  JobOK(i)' /\ i \notin Catalogs'
<1>1. JobOK(i)
  BY DEF PagesInv, LedgerOK
<1> QED
  BY <1>1 DEF JobOK, Same, Whole, Ready, Catalogs, Of

\* The end of a job that is not a junk profile.
LEMMA CompletedMoves ==
  ASSUME Listed(jobs), NEW i \in DOMAIN jobs, NEW f, f = [jobs EXCEPT ![i] = Completed(@)]
  PROVE  /\ MovesAt(i, f) /\ DOMAIN f = DOMAIN jobs /\ Len(f) = Len(jobs) /\ Same(jobs[i], f[i])
         /\ f[i].rows = jobs[i].rows /\ f[i].row = "ready" /\ f[i].status = "completed"
         /\ f[i].cur = jobs[i].cur /\ f[i].tally = jobs[i].tally
<1>1. \A k \in DOMAIN jobs : IsJob(jobs[k]) /\ Fares(jobs[k], jobs[k])
  BY ListedIs, KeptFares
<1>2. f[i] = Completed(jobs[i]) /\ \A k \in DOMAIN jobs \ {i} : f[k] = jobs[k]
  OBVIOUS
<1>3. f = [k \in DOMAIN jobs |-> f[k]]
  OBVIOUS
<1>4. /\ IsJob(f[i]) /\ Same(jobs[i], f[i]) /\ f[i].status = "completed"
      /\ f[i].row = "ready" /\ f[i].rows = jobs[i].rows /\ f[i].cur = jobs[i].cur
      /\ f[i].tally = jobs[i].tally
  BY <1>1, <1>2, CompletedIs
<1>5. MovesAt(i, f) /\ DOMAIN f = DOMAIN jobs
  BY <1>1, <1>2, <1>3, <1>4, WrittenMoves
<1>6. Len(f) = Len(jobs)
  BY <1>5, ListedIs DEF MovesAt
<1> QED
  BY <1>4, <1>5, <1>6

LEMMA LowestIsIn ==
  ASSUME NEW S, NEW n
  PROVE  Lowest(S, n) \subseteq S
BY DEF Lowest

LEMMA BeginViewPages ==
  ASSUME PagesInv, NEW w \in Worker, BeginView(w)
  PROVE  PagesInv'
<1> PICK i : i = worker[w].job
  OBVIOUS
<1> PICK all : all = Answer(jobs[i].key[1], jobs[i].gen)
  OBVIOUS
<1> PICK some : some = Lowest(all, ViewBatch)
  OBVIOUS
<1>1. /\ Working(w) /\ jobs[i].kind = "view" /\ UNCHANGED library /\ holder' = holder
      /\ Step(w, "view", [rest |-> all \ some, seen |-> Stamp])
      /\ jobs' = [jobs EXCEPT ![i].rows = some]
  BY DEF BeginView, Began, At, Working, Mine, Open
<1>2. /\ Others(w) /\ worker'[w].at = "view" /\ worker'[w].read = [rest |-> all \ some, seen |-> Stamp]
      /\ worker'[w].job = i /\ DOMAIN worker'[w] = {"at", "job", "read"} /\ holder = w /\ holder' = w
      /\ i \in DOMAIN jobs /\ WorkOK(w)
  BY <1>1, GoesOn DEF PagesInv
<1>3. /\ MovesAt(i, jobs') /\ DOMAIN jobs' = DOMAIN jobs /\ Len(jobs') = Len(jobs) /\ Same(jobs[i], jobs'[i])
      /\ jobs'[i].rows = some /\ jobs'[i].row = jobs[i].row /\ jobs'[i].status = jobs[i].status
  BY <1>1, <1>2, RowsMove DEF PagesInv, LedgerOK
<1>4. jobs[i].row = "building" /\ jobs[i].status = "running"
  BY <1>1, <1>2 DEF WorkOK, Whole
<1>5. JobOK(i)' /\ i \notin Catalogs'
  BY <1>1, <1>2, <1>3, <1>4, BuildingOK DEF library
<1>6. WorkOK(w)'
  <2>1. DOMAIN worker'[w].read = {"rest", "seen"} /\ worker'[w].read.rest = all \ some
    BY <1>2
  <2>2. jobs'[i].rows \union worker'[w].read.rest = all
    BY <1>3, <2>1, LowestIsIn
  <2>3. Answer(jobs[i].key[1], jobs[i].gen)' = all
    BY <1>1, <1>3 DEF Answer, Live, library, Same
  <2> QED
    BY <1>1, <1>2, <1>3, <1>4, <2>1, <2>2, <2>3 DEF WorkOK, Working, Places, Same
<1> QED
  BY <1>1, <1>2, <1>3, <1>5, <1>6, StandStill, JobStep DEF PagesInv

LEMMA BatchViewPages ==
  ASSUME PagesInv, NEW w \in Worker, BatchView(w)
  PROVE  PagesInv'
<1> PICK i : i = worker[w].job
  OBVIOUS
<1> PICK some : some = Batch(w)
  OBVIOUS
<1>1. /\ Working(w) /\ worker[w].at = "view" /\ UNCHANGED library /\ holder' = holder
      /\ worker' = [worker EXCEPT ![w].read.rest = @ \ some]
      /\ jobs' = [jobs EXCEPT ![i].rows = @ \union some]
  BY DEF BatchView, At, Working
<1>2. /\ holder = w /\ holder' = w /\ i \in DOMAIN jobs /\ WorkOK(w) /\ DOMAIN worker = Worker
      /\ DOMAIN worker[w] = {"at", "job", "read"} /\ some \subseteq worker[w].read.rest
      /\ jobs[i].kind = "view" /\ DOMAIN worker[w].read = {"rest", "seen"}
  BY <1>1, HolderIs, LowestIsIn DEF PagesInv, Batch, WorkOK
<1>3. jobs' = [jobs EXCEPT ![i].rows = jobs[i].rows \union some]
  BY <1>1, <1>2
<1>4. /\ MovesAt(i, jobs') /\ DOMAIN jobs' = DOMAIN jobs /\ Len(jobs') = Len(jobs) /\ Same(jobs[i], jobs'[i])
      /\ jobs'[i].rows = jobs[i].rows \union some /\ jobs'[i].row = jobs[i].row
      /\ jobs'[i].status = jobs[i].status
  BY <1>2, <1>3, RowsMove DEF PagesInv, LedgerOK
<1>5. jobs[i].row = "building" /\ jobs[i].status = "running"
  BY <1>1, <1>2 DEF WorkOK, Whole
<1>6. JobOK(i)' /\ i \notin Catalogs'
  BY <1>1, <1>2, <1>4, <1>5, BuildingOK DEF library
<1>7. /\ Others(w) /\ worker'[w].at = "view" /\ worker'[w].job = i
      /\ DOMAIN worker'[w] = {"at", "job", "read"} /\ DOMAIN worker'[w].read = {"rest", "seen"}
      /\ worker'[w].read.rest = worker[w].read.rest \ some
  BY <1>1, <1>2 DEF Others
<1>8. WorkOK(w)'
  <2>1. jobs'[i].rows \union worker'[w].read.rest = jobs[i].rows \union worker[w].read.rest
    BY <1>2, <1>4, <1>7
  <2>2. Answer(jobs[i].key[1], jobs[i].gen)' = Answer(jobs[i].key[1], jobs[i].gen)
    BY <1>1, <1>4 DEF Answer, Live, library, Same
  <2>3. jobs[i].key[2] = generation =>
          jobs[i].rows \union worker[w].read.rest = Answer(jobs[i].key[1], jobs[i].gen)
    BY <1>1, <1>2 DEF WorkOK
  <2>4. generation' = generation
    BY <1>1 DEF library
  <2> QED
    BY <1>2, <1>4, <1>5, <1>7, <2>1, <2>2, <2>3, <2>4 DEF WorkOK, Working, Places, Same
<1> QED
  BY <1>1, <1>2, <1>4, <1>6, <1>7, <1>8, StandStill, JobStep DEF PagesInv

LEMMA FinishViewPages ==
  ASSUME PagesInv, NEW w \in Worker, FinishView(w)
  PROVE  PagesInv'
<1> PICK i : i = worker[w].job
  OBVIOUS
<1>1. /\ Working(w) /\ worker[w].at = "view" /\ worker[w].read.rest = {} /\ UNCHANGED library
      /\ Leave(w, [jobs EXCEPT ![i] = Completed(@)])
  BY DEF FinishView, At, Working
<1>2. /\ holder = w /\ i \in DOMAIN jobs /\ WorkOK(w) /\ jobs[i].kind = "view"
  BY <1>1, HolderIs DEF PagesInv, WorkOK
<1>3. Others(w) /\ WorkOK(w)' /\ jobs' = [jobs EXCEPT ![i] = Completed(@)]
  BY <1>1, LeavesIdle DEF PagesInv
<1>4. /\ MovesAt(i, jobs') /\ DOMAIN jobs' = DOMAIN jobs /\ Len(jobs') = Len(jobs) /\ Same(jobs[i], jobs'[i])
      /\ jobs'[i].rows = jobs[i].rows /\ jobs'[i].row = "ready" /\ jobs'[i].status = "completed"
  BY <1>2, <1>3, CompletedMoves DEF PagesInv, LedgerOK
<1>5. JobOK(i)' /\ i \notin Catalogs'
  <2>1. Answer(jobs[i].key[1], jobs[i].gen)' = Answer(jobs[i].key[1], jobs[i].gen) /\ generation' = generation
    BY <1>1, <1>4 DEF Answer, Live, library, Same
  <2>2. jobs[i].key[2] = generation => jobs[i].rows = Answer(jobs[i].key[1], jobs[i].gen)
    BY <1>1, <1>2 DEF WorkOK
  <2>3. JobOK(i)
    BY <1>2 DEF PagesInv, LedgerOK
  <2> QED
    BY <1>2, <1>4, <2>1, <2>2, <2>3 DEF JobOK, Same, Whole, Catalogs, Of
<1> QED
  BY <1>1, <1>2, <1>3, <1>4, <1>5, StandStill, JobStep DEF PagesInv

LEMMA RunOrganizationPages ==
  ASSUME PagesInv, NEW w \in Worker, RunOrganization(w)
  PROVE  PagesInv'
<1> PICK i : i = worker[w].job
  OBVIOUS
<1> PICK g : g = jobs[i].gen
  OBVIOUS
<1>1. Working(w) /\ jobs[i].kind = "organization"
  BY DEF RunOrganization, Began, At, Working, Mine
<1>2. holder = w /\ i \in DOMAIN jobs /\ Listed(jobs) /\ \A k \in DOMAIN jobs : IsJob(jobs[k])
  BY <1>1, HolderIs, ListedIs DEF PagesInv, LedgerOK
<1>3. UNCHANGED <<verified, entities, decisions, raced>>
  BY DEF RunOrganization
<1>4. CASE Catalog # g
  <2> DEFINE f == [k \in DOMAIN jobs |-> IF k \in {i} THEN Requeued(jobs[k]) ELSE jobs[k]]
  <2>1. [jobs EXCEPT ![i] = Requeued(@)] = f
    BY <1>2
  <2>2. Leave(w, f) /\ generation' = generation
    BY <1>4, <2>1 DEF RunOrganization, Mine
  <2> HIDE DEF f
  <2>3. Others(w) /\ WorkOK(w)' /\ jobs' = f
    BY <2>2, LeavesIdle DEF PagesInv
  <2>4. MovesAt(0, jobs')
    BY <1>2, <2>3, RequeueMoves DEF f
  <2>5. Library' /\ Onward /\ FavsStay /\ RacedBut(0)
    BY <1>3, <2>2 DEF PagesInv, Library, Onward, FavsStay, RacedBut
  <2> QED
    BY <1>2, <2>3, <2>4, <2>5, AloofStep
<1>5. CASE Catalog = g
  <2> DEFINE f == [k \in DOMAIN jobs |->
                     IF k = i THEN [Completed(jobs[k]) EXCEPT !.cur = TRUE, !.rows = Rolled(g)]
                     ELSE IF jobs[k].kind = "organization" THEN [jobs[k] EXCEPT !.cur = FALSE]
                     ELSE jobs[k]]
  <2>1. Leave(w, f) /\ generation' = generation + 1
    BY <1>5 DEF RunOrganization, Mine
  <2>2. \A j : IsJob(j) /\ j.kind = "organization" => Fares(j, [j EXCEPT !.cur = FALSE])
    BY DEF Fares, Still, IsJob, JobFields, Same, Shown
  <2>3. /\ IsJob(Completed(jobs[i])) /\ Completed(jobs[i]).kind = "organization"
        /\ Same(jobs[i], Completed(jobs[i]))
    BY <1>1, <1>2, CompletedIs DEF Same
  <2>4. Fares(jobs[i], f[i])
    <3> DEFINE j == Completed(jobs[i])
    <3>1. f[i] = [j EXCEPT !.cur = TRUE, !.rows = Rolled(g)]
      BY <1>2
    <3> HIDE DEF j, f
    <3>2. IsJob(j) /\ Same(jobs[i], j)
      BY <2>3 DEF j
    <3>3. IsJob(f[i]) /\ Same(j, f[i])
      BY <3>1, <3>2 DEF IsJob, JobFields, Same
    <3> QED
      BY <1>1, <3>2, <3>3 DEF Fares, Still, Same, Shown
  <2>5. \A k \in DOMAIN jobs : Fares(jobs[k], f[k])
    BY <1>2, <2>2, <2>4, KeptFares
  <2>6. f = [k \in DOMAIN jobs |-> f[k]]
    OBVIOUS
  <2> HIDE DEF f
  <2>7. Others(w) /\ WorkOK(w)' /\ jobs' = f
    BY <2>1, LeavesIdle DEF PagesInv
  <2>8. MovesAt(0, jobs')
    BY <1>2, <2>5, <2>6, <2>7, ListedIs, WrittenMoves
  <2>9. Library' /\ Onward /\ FavsStay /\ RacedBut(0)
    BY <1>3, <2>1 DEF PagesInv, Library, Onward, FavsStay, RacedBut
  <2> QED
    BY <1>2, <2>7, <2>8, <2>9, AloofStep
<1> QED
  BY <1>4, <1>5

LEMMA BeginStacksPages ==
  ASSUME PagesInv, NEW w \in Worker, BeginStacks(w)
  PROVE  PagesInv'
BY ReadingStep DEF BeginStacks, Began, At, Open, Working, library

LEMMA BatchStacksPages ==
  ASSUME PagesInv, NEW w \in Worker, BatchStacks(w)
  PROVE  PagesInv'
<1> PICK i : i = worker[w].job
  OBVIOUS
<1>1. /\ Working(w) /\ worker[w].at = "stacks" /\ jobs' = jobs /\ holder' = holder
      /\ UNCHANGED <<verified, entities, decisions, generation, raced>>
      /\ worker' = [worker EXCEPT ![w].read.rest = @ \ Batch(w)]
  BY DEF BatchStacks, At, Working
<1>2. /\ holder = w /\ i \in DOMAIN jobs /\ WorkOK(w) /\ DOMAIN worker = Worker
      /\ DOMAIN worker[w] = {"at", "job", "read"} /\ jobs[i].kind = "stacks"
  BY <1>1, HolderIs DEF PagesInv, WorkOK
<1>3. /\ Others(w) /\ worker'[w].at = "stacks" /\ worker'[w].job = i
      /\ DOMAIN worker'[w] = {"at", "job", "read"}
  BY <1>1, <1>2 DEF Others
<1>4. WorkOK(w)'
  BY <1>1, <1>2, <1>3 DEF WorkOK, Working, Places
<1>5. MovesAt(0, jobs') /\ Library' /\ Onward /\ FavsStay /\ RacedBut(0)
  BY <1>1, SelfMoves DEF PagesInv, LedgerOK, Library, Onward, FavsStay, RacedBut
<1> QED
  BY <1>2, <1>3, <1>4, <1>5, AloofStep

LEMMA StacksAreStacks ==
  ASSUME NEW setting, NEW g
  PROVE  Stacks(setting, Live(g)) \subseteq Stack
<1>1. \A b \in Alike(setting, Live(g)) : b \in (SUBSET Asset) \ {{}}
  BY DEF Alike, Live
<1>2. \A b \in Alike(setting, Live(g)) : Ranked(b) \in Cover
  BY <1>1 DEF Cover
<1> QED
  BY <1>1, <1>2 DEF Stacks, Stack

LEMMA BuildStacksPages ==
  ASSUME PagesInv, NEW w \in Worker, BuildStacks(w)
  PROVE  PagesInv'
<1> PICK i : i = worker[w].job
  OBVIOUS
<1> PICK S : S = Stacks(jobs[i].key[1], Live(jobs[i].gen))
  OBVIOUS
<1>1. /\ Working(w) /\ worker[w].at = "stacks" /\ UNCHANGED library /\ holder' = holder
      /\ Step(w, "stacked", <<>>)
      /\ jobs' = [jobs EXCEPT ![i].rows = S]
  BY DEF BuildStacks, At, Working, Mine
<1>2. /\ Others(w) /\ worker'[w].at = "stacked"
      /\ worker'[w].job = i /\ DOMAIN worker'[w] = {"at", "job", "read"} /\ holder = w /\ holder' = w
      /\ i \in DOMAIN jobs /\ WorkOK(w)
  BY <1>1, GoesOn DEF PagesInv
<1>3. /\ MovesAt(i, jobs') /\ DOMAIN jobs' = DOMAIN jobs /\ Len(jobs') = Len(jobs) /\ Same(jobs[i], jobs'[i])
      /\ jobs'[i].rows = S /\ jobs'[i].row = jobs[i].row /\ jobs'[i].status = jobs[i].status
  BY <1>1, <1>2, RowsMove DEF PagesInv, LedgerOK
<1>4. jobs[i].row = "building" /\ jobs[i].status = "running" /\ jobs[i].kind = "stacks"
  BY <1>1, <1>2 DEF WorkOK, Whole
<1>5. JobOK(i)' /\ i \notin Catalogs'
  BY <1>1, <1>2, <1>3, <1>4, BuildingOK, StacksAreStacks DEF library
<1>6. WorkOK(w)'
  BY <1>2, <1>3, <1>4 DEF WorkOK, Working, Places, Same
<1> QED
  BY <1>1, <1>2, <1>3, <1>5, <1>6, StandStill, JobStep DEF PagesInv

LEMMA FinishStacksPages ==
  ASSUME PagesInv, NEW w \in Worker, FinishStacks(w)
  PROVE  PagesInv'
<1> PICK i : i = worker[w].job
  OBVIOUS
<1> DEFINE js == [jobs EXCEPT ![i] = Completed(@)]
           f == Retired(js, i)
<1>1. /\ Working(w) /\ worker[w].at = "stacked" /\ UNCHANGED <<verified, entities, decisions, raced>>
      /\ Leave(w, f) /\ generation' = generation + 1
  BY DEF FinishStacks, At, Working
<1>2. /\ holder = w /\ i \in DOMAIN jobs /\ WorkOK(w) /\ jobs[i].kind = "stacks" /\ Listed(jobs)
      /\ \A k \in DOMAIN jobs : IsJob(jobs[k])
  BY <1>1, HolderIs, ListedIs DEF PagesInv, WorkOK, LedgerOK
<1>3. /\ \A k \in DOMAIN jobs \ {i} : js[k] = jobs[k]
      /\ js[i] = Completed(jobs[i]) /\ DOMAIN js = DOMAIN jobs
  BY <1>2
<1>4. /\ IsJob(js[i]) /\ Same(jobs[i], js[i]) /\ js[i].status = "completed" /\ js[i].row = "ready"
      /\ js[i].rows = jobs[i].rows
  BY <1>2, <1>3, CompletedIs
<1> HIDE DEF js
<1>5. \A j : IsJob(j) => Fares(j, [j EXCEPT !.cur = FALSE])
  BY DEF Fares, Shelved, IsJob, JobFields, Same
<1>6. /\ f[i] = js[i] /\ f = [k \in DOMAIN jobs |-> f[k]]
      /\ \A k \in DOMAIN jobs \ {i} : f[k] = jobs[k] \/ f[k] = [jobs[k] EXCEPT !.cur = FALSE]
  BY <1>2, <1>3 DEF Retired
<1> HIDE DEF f
<1>7. \A k \in DOMAIN jobs \ {i} : Fares(jobs[k], f[k])
  BY <1>2, <1>5, <1>6, KeptFares
<1>8. MovesAt(i, f) /\ DOMAIN f = DOMAIN jobs
  BY <1>2, <1>4, <1>6, <1>7, WrittenMoves
<1>9. Len(f) = Len(jobs)
  BY <1>2, <1>8, ListedIs DEF MovesAt
<1>10. Others(w) /\ WorkOK(w)' /\ jobs' = f
  BY <1>1, LeavesIdle DEF PagesInv
<1>11. JobOK(i)' /\ i \notin Catalogs'
  <2>1. JobOK(i)
    BY <1>2 DEF PagesInv, LedgerOK
  <2> QED
    BY <1>2, <1>4, <1>6, <1>9, <1>10, <2>1 DEF JobOK, Same, Whole, Catalogs, Of
<1>12. Library' /\ Onward /\ FavsStay /\ RacedBut(i)
  BY <1>1 DEF PagesInv, Library, Onward, FavsStay, RacedBut
<1> QED
  BY <1>2, <1>8, <1>10, <1>11, <1>12, JobStep

-----------------------------------------------------------------------------
(* Junk profiles and their calibration.                                    *)

LEMMA SignalJunkPages ==
  ASSUME PagesInv, NEW w \in Worker, SignalJunk(w)
  PROVE  PagesInv'
<1> PICK weigh : weigh = [e \in Live(Mine(w).gen) |-> Weight(e, Mine(w).gen)]
  OBVIOUS
<1>1. DOMAIN weigh \subseteq Asset
  BY DEF Live
<1> QED
  BY <1>1, ReadingStep DEF SignalJunk, Began, At, Working, library

LEMMA ReadJunkPages ==
  ASSUME PagesInv, NEW w \in Worker, ReadJunk(w)
  PROVE  PagesInv'
<1> PICK weigh : weigh = worker[w].read
  OBVIOUS
<1> PICK seen : seen = [e \in DOMAIN weigh |-> [weight |-> weigh[e], fav |-> decisions[e].fav]]
  OBVIOUS
<1>1. Working(w) /\ worker[w].at = "signals" /\ Step(w, "read", seen) /\ UNCHANGED <<jobs, holder, library>>
  BY DEF ReadJunk, At, Working
<1>2. Mine(w).kind = "junk" /\ DOMAIN seen \subseteq Asset
  BY <1>1, HolderIs DEF PagesInv, WorkOK, Mine
<1> QED
  BY <1>1, <1>2, ReadingStep DEF library

LEMMA VerdictIs ==
  ASSUME NEW key, NEW e, NEW weight, NEW fav, NEW v, v = Verdict(key, e, weight, fav)
  PROVE  /\ v.e = e /\ v.agrees \in BOOLEAN /\ v.shielded \in BOOLEAN /\ v.hidden \in BOOLEAN
         /\ v.shielded = (fav /\ key[2] /\ v.agrees) /\ v.hidden = (v.agrees /\ ~v.shielded)
         /\ v = [e |-> v.e, agrees |-> v.agrees, hidden |-> v.hidden, shielded |-> v.shielded]
<1> PICK agrees : agrees = (weight >= key[1])
  OBVIOUS
<1> PICK shielded : shielded = (fav /\ key[2] /\ agrees)
  OBVIOUS
<1> PICK hidden : hidden = (agrees /\ ~shielded)
  OBVIOUS
<1>1. agrees \in BOOLEAN /\ shielded \in BOOLEAN /\ hidden \in BOOLEAN
  OBVIOUS
<1>2. Verdict(key, e, weight, fav) = [e |-> e, agrees |-> agrees, hidden |-> hidden, shielded |-> shielded]
  BY Zenon DEF Verdict
<1>3. v.e = e /\ v.agrees = agrees /\ v.shielded = shielded /\ v.hidden = hidden
  BY <1>2
<1>4. v = [e |-> v.e, agrees |-> v.agrees, hidden |-> v.hidden, shielded |-> v.shielded]
  BY <1>2, <1>3, Zenon
<1>5. /\ v.e = e /\ v.agrees \in BOOLEAN /\ v.shielded \in BOOLEAN /\ v.hidden \in BOOLEAN
      /\ v.shielded = (fav /\ key[2] /\ v.agrees) /\ v.hidden = (v.agrees /\ ~v.shielded)
  BY <1>1, <1>3, Zenon
<1> QED
  BY <1>4, <1>5, Zenon

LEMMA WriteJunkPages ==
  ASSUME PagesInv, NEW w \in Worker, WriteJunk(w)
  PROVE  PagesInv'
<1> PICK i : i = worker[w].job
  OBVIOUS
<1> PICK seen : seen = worker[w].read
  OBVIOUS
<1> PICK rows : rows = {Verdict(jobs[i].key, e, seen[e].weight, seen[e].fav) : e \in DOMAIN seen}
  OBVIOUS
<1> DEFINE t == [jobs[i] EXCEPT !.row = "ready", !.rows = rows, !.tally = Tally(rows)]
           f == [k \in DOMAIN jobs |-> IF k = i THEN t ELSE jobs[k]]
<1>1. /\ Working(w) /\ worker[w].at = "read" /\ Step(w, "shown", <<>>) /\ holder' = holder
      /\ UNCHANGED <<verified, entities, decisions, generation>>
      /\ jobs' = [jobs EXCEPT ![i] = [@ EXCEPT !.row = "ready", !.rows = rows, !.tally = Tally(rows)]]
      /\ raced' = {r \in raced : r[1] # i} \union {<<i, e>> : e \in {x \in DOMAIN seen : seen[x].fav # decisions[x].fav}}
  BY DEF WriteJunk, At, Working, Mine
<1>2. /\ Others(w) /\ worker'[w].at = "shown"
      /\ worker'[w].job = i /\ DOMAIN worker'[w] = {"at", "job", "read"} /\ holder = w /\ holder' = w
      /\ i \in DOMAIN jobs /\ WorkOK(w)
  BY <1>1, GoesOn DEF PagesInv
<1>3. jobs[i].kind = "junk" /\ DOMAIN seen \subseteq Asset
  BY <1>1, <1>2 DEF WorkOK
<1>4. Listed(jobs) /\ \A k \in DOMAIN jobs : IsJob(jobs[k]) /\ Fares(jobs[k], jobs[k])
  BY ListedIs, KeptFares DEF PagesInv, LedgerOK
<1>5. IsFiniteSet(DOMAIN seen) /\ IsFiniteSet(rows)
  <2>1. IsFiniteSet(DOMAIN seen)
    BY <1>3, FS_Subset, StagesAssumption
  <2> DEFINE g == [e \in DOMAIN seen |-> Verdict(jobs[i].key, e, seen[e].weight, seen[e].fav)]
  <2>2. rows = {g[e] : e \in DOMAIN seen}
    OBVIOUS
  <2>3. g \in Surjection(DOMAIN seen, rows)
    BY <2>2 DEF Surjection
  <2> HIDE DEF g
  <2> QED
    BY <2>1, <2>3, FS_Surjection
<1>6. /\ IsJob(t) /\ Same(jobs[i], t) /\ t.row = "ready" /\ t.rows = rows /\ t.tally = Tally(rows)
  <2>1. \A j, y : IsJob(j) => LET n == [j EXCEPT !.row = "ready", !.rows = rows, !.tally = y]
                              IN IsJob(n) /\ Same(j, n) /\ n.row = "ready" /\ n.rows = rows /\ n.tally = y
    BY DEF IsJob, JobFields, Same
  <2> QED
    BY <1>2, <1>4, <2>1
<1>7. jobs' = f
  BY <1>1, <1>2
<1> HIDE DEF t
<1>8. f[i] = t /\ f = [k \in DOMAIN jobs |-> f[k]] /\ \A k \in DOMAIN jobs \ {i} : f[k] = jobs[k]
  BY <1>2
<1> HIDE DEF f
<1>9. MovesAt(i, f) /\ DOMAIN f = DOMAIN jobs
  BY <1>4, <1>6, <1>8, WrittenMoves
<1>10. WorkOK(w)'
  BY <1>2, <1>3, <1>6, <1>7, <1>8, <1>9 DEF WorkOK, Working, Places, Same, Whole
<1>11. Judges(i)'
  <2>1. jobs'[i].rows = rows /\ jobs'[i].tally = Tally(rows) /\ jobs'[i].key = jobs[i].key
    BY <1>6, <1>7, <1>8 DEF Same
  <2>2. \A r \in rows : \E e \in DOMAIN seen : r = Verdict(jobs[i].key, e, seen[e].weight, seen[e].fav)
    OBVIOUS
  <2>3. \A r \in rows :
          /\ r.e \in DOMAIN seen /\ r = Verdict(jobs[i].key, r.e, seen[r.e].weight, seen[r.e].fav)
          /\ r.agrees \in BOOLEAN /\ r.shielded \in BOOLEAN /\ r.hidden \in BOOLEAN
          /\ r.shielded = (seen[r.e].fav /\ jobs[i].key[2] /\ r.agrees)
          /\ r.hidden = (r.agrees /\ ~r.shielded)
          /\ r = [e |-> r.e, agrees |-> r.agrees, hidden |-> r.hidden, shielded |-> r.shielded]
    <3>1. ASSUME NEW r \in rows
          PROVE  /\ r.e \in DOMAIN seen /\ r = Verdict(jobs[i].key, r.e, seen[r.e].weight, seen[r.e].fav)
                 /\ r.agrees \in BOOLEAN /\ r.shielded \in BOOLEAN /\ r.hidden \in BOOLEAN
                 /\ r.shielded = (seen[r.e].fav /\ jobs[i].key[2] /\ r.agrees)
                 /\ r.hidden = (r.agrees /\ ~r.shielded)
                 /\ r = [e |-> r.e, agrees |-> r.agrees, hidden |-> r.hidden, shielded |-> r.shielded]
      <4>1. PICK e \in DOMAIN seen : r = Verdict(jobs[i].key, e, seen[e].weight, seen[e].fav)
        BY <2>2
      <4>2. r.e = e
        BY <4>1, VerdictIs
      <4>3. r.e \in DOMAIN seen /\ r = Verdict(jobs[i].key, r.e, seen[r.e].weight, seen[r.e].fav)
        BY <4>1, <4>2, Zenon
      <4>4. /\ r.agrees \in BOOLEAN /\ r.shielded \in BOOLEAN /\ r.hidden \in BOOLEAN
            /\ r.shielded = (seen[e].fav /\ jobs[i].key[2] /\ r.agrees)
            /\ r.hidden = (r.agrees /\ ~r.shielded)
            /\ r = [e |-> r.e, agrees |-> r.agrees, hidden |-> r.hidden, shielded |-> r.shielded]
        <5> PICK key : key = jobs[i].key
          OBVIOUS
        <5> PICK weight : weight = seen[e].weight
          OBVIOUS
        <5> PICK fav : fav = seen[e].fav
          OBVIOUS
        <5>1. r = Verdict(key, e, weight, fav)
          BY <4>1
        <5>2. /\ r.agrees \in BOOLEAN /\ r.shielded \in BOOLEAN /\ r.hidden \in BOOLEAN
              /\ r.shielded = (fav /\ key[2] /\ r.agrees)
              /\ r.hidden = (r.agrees /\ ~r.shielded)
              /\ r = [e |-> r.e, agrees |-> r.agrees, hidden |-> r.hidden, shielded |-> r.shielded]
          BY <5>1, VerdictIs
        <5> QED
          BY <5>2, Zenon
      <4> QED
        BY <4>2, <4>3, <4>4, Zenon
    <3> QED
      BY <3>1
  <2>4. rows \subseteq JunkVerdict
    BY <1>3, <2>3 DEF JunkVerdict
  <2>5. \A r, s \in rows : r.e = s.e => r = s
    BY <2>3
  <2>6. ASSUME NEW r \in rows, <<i, r.e>> \notin raced'
        PROVE  decisions'[r.e].fav = seen[r.e].fav
    BY <1>1, <2>3, <2>6
  <2>7. \A r \in rows : <<i, r.e>> \in raced' \/
          /\ r.shielded = (decisions'[r.e].fav /\ jobs'[i].key[2] /\ r.agrees)
          /\ r.hidden = (r.agrees /\ ~r.shielded)
    BY <2>1, <2>3, <2>6, Zenon
  <2> QED
    BY <1>5, <2>1, <2>4, <2>5, <2>7 DEF Judges
<1>12. JobOK(i)' /\ i \notin Catalogs'
  BY <1>3, <1>6, <1>7, <1>8, <1>11 DEF JobOK, Same, Whole, Catalogs, Of
<1>13. Library' /\ Onward /\ FavsStay /\ RacedBut(i)
  BY <1>1 DEF PagesInv, Library, Onward, FavsStay, RacedBut
<1> QED
  BY <1>2, <1>7, <1>9, <1>10, <1>12, <1>13, JobStep

LEMMA CompleteJunkPages ==
  ASSUME PagesInv, NEW w \in Worker, CompleteJunk(w)
  PROVE  PagesInv'
<1> PICK i : i = worker[w].job
  OBVIOUS
<1>1. /\ Working(w) /\ worker[w].at = "shown" /\ UNCHANGED library
      /\ Leave(w, [jobs EXCEPT ![i] = Completed(@)])
  BY DEF CompleteJunk, At, Working
<1>2. /\ holder = w /\ i \in DOMAIN jobs /\ WorkOK(w) /\ jobs[i].kind \in {"calibrate", "junk"}
      /\ jobs[i].kind = "junk" => jobs[i].row = "ready"
  BY <1>1, HolderIs DEF PagesInv, WorkOK
<1>3. Others(w) /\ WorkOK(w)' /\ jobs' = [jobs EXCEPT ![i] = Completed(@)]
  BY <1>1, LeavesIdle DEF PagesInv
<1>4. /\ MovesAt(i, jobs') /\ DOMAIN jobs' = DOMAIN jobs /\ Len(jobs') = Len(jobs) /\ Same(jobs[i], jobs'[i])
      /\ jobs'[i].rows = jobs[i].rows /\ jobs'[i].tally = jobs[i].tally /\ jobs'[i].cur = jobs[i].cur
  BY <1>2, <1>3, CompletedMoves DEF PagesInv, LedgerOK
<1>5. ASSUME jobs[i].kind = "junk", Ready(i)'
      PROVE  Judges(i)'
  <2>1. Ready(i)
    BY <1>2, <1>4, <1>5 DEF Ready
  <2>2. Judges(i)
    BY <1>2, <1>5, <2>1 DEF PagesInv, LedgerOK, JobOK
  <2>3. jobs'[i].key = jobs[i].key
    BY <1>4 DEF Same
  <2> QED
    BY <1>1, <1>4, <2>2, <2>3 DEF Judges, library
<1>6. JobOK(i)' /\ i \notin Catalogs'
  BY <1>2, <1>4, <1>5 DEF JobOK, Same, Whole, Catalogs, Of
<1> QED
  BY <1>1, <1>2, <1>3, <1>4, <1>6, StandStill, JobStep DEF PagesInv

\* A step that asks for a job and goes on.
LEMMA AskingStep ==
  ASSUME PagesInv, NEW w \in Worker, Working(w), NEW at, NEW read, Step(w, at, read), Asks(jobs'),
         UNCHANGED <<holder, verified, entities, decisions, generation, raced>>,
         \/ at = "shown" /\ Mine(w).kind = "calibrate"
         \/ at \in {"assets", "save"} /\ Mine(w).kind = "backfill"
  PROVE  PagesInv'
<1>1. /\ Others(w) /\ worker'[w].at = at /\ worker'[w].read = read /\ worker'[w].job = worker[w].job
      /\ DOMAIN worker'[w] = {"at", "job", "read"} /\ holder = w /\ holder' = w
      /\ worker[w].job \in DOMAIN jobs /\ WorkOK(w)
  BY GoesOn DEF PagesInv
<1>2. at \in Places /\ at \notin {"down", "recover", "idle", "picked", "view", "catalog"}
  BY DEF Places
<1> PICK i : i = worker[w].job
  OBVIOUS
<1>3. MovesAt(0, jobs') /\ Library' /\ Onward /\ FavsStay /\ RacedBut(0)
  BY AsksMoves DEF PagesInv, LedgerOK, Library, Onward, FavsStay, RacedBut
<1>4. i \in DOMAIN jobs' /\ Same(jobs[i], jobs'[i])
  BY <1>1, <1>3, DomainGrows DEF MovesAt, PagesInv, LedgerOK
<1>5. WorkOK(w)'
  BY <1>1, <1>2, <1>4 DEF WorkOK, Working, Mine, Places, Same, Whole
<1> QED
  BY <1>1, <1>3, <1>5, AloofStep

\* A job put down as failed.
LEMMA RequeuedStep ==
  ASSUME PagesInv, NEW w \in Worker, Working(w), UNCHANGED library,
         Leave(w, [jobs EXCEPT ![worker[w].job] = Requeued(@)])
  PROVE  PagesInv'
<1> PICK i : i = worker[w].job
  OBVIOUS
<1> DEFINE f == [k \in DOMAIN jobs |-> IF k \in {i} THEN Requeued(jobs[k]) ELSE jobs[k]]
<1>1. holder = w /\ i \in DOMAIN jobs
  BY HolderIs DEF PagesInv
<1>2. [jobs EXCEPT ![i] = Requeued(@)] = f
  BY <1>1
<1>3. Others(w) /\ WorkOK(w)' /\ jobs' = f
  BY <1>2, LeavesIdle DEF PagesInv
<1>4. MovesAt(0, jobs')
  BY <1>3, RequeueMoves DEF PagesInv, LedgerOK
<1> QED
  BY <1>1, <1>3, <1>4, StandStill, AloofStep DEF PagesInv

LEMMA RunCalibrationPages ==
  ASSUME PagesInv, NEW w \in Worker, RunCalibration(w)
  PROVE  PagesInv'
<1> DEFINE key == <<Mine(w).key[1], Mine(w).key[2], worker[w].job>>
<1> HIDE DEF key
<1>1. /\ Working(w) /\ Mine(w).kind = "calibrate" /\ UNCHANGED library
      /\ IF HasCatalog
         THEN Step(w, "shown", <<>>) /\ jobs' = JunkProfile(jobs, key).jobs /\ UNCHANGED holder
         ELSE Leave(w, [jobs EXCEPT ![worker[w].job] = Requeued(@)])
  BY DEF RunCalibration, Began, At, Working, key
<1>2. CASE HasCatalog
  <2>1. Asks(jobs')
    BY <1>1, <1>2, ProfileAsks DEF JunkProfile, PagesInv, LedgerOK
  <2> QED
    BY <1>1, <1>2, <2>1, AskingStep DEF library
<1>3. CASE ~HasCatalog
  BY <1>1, <1>3, RequeuedStep
<1> QED
  BY <1>2, <1>3

LEMMA GiveUpPages ==
  ASSUME PagesInv, NEW w \in Worker, GiveUp(w)
  PROVE  PagesInv'
<1>1. Working(w) /\ Leave(w, jobs) /\ UNCHANGED library
  BY DEF GiveUp, Working
<1>2. holder = w
  BY <1>1, HolderIs DEF PagesInv
<1>3. Others(w) /\ WorkOK(w)' /\ jobs' = jobs
  BY <1>1, LeavesIdle DEF PagesInv
<1>4. MovesAt(0, jobs')
  BY <1>3, SelfMoves DEF PagesInv, LedgerOK
<1> QED
  BY <1>1, <1>2, <1>3, <1>4, StandStill, AloofStep DEF PagesInv

-----------------------------------------------------------------------------
(* The backfill and the preprocessing it asks for.                         *)

LEMMA WantedAsks ==
  ASSUME LedgerOK, NEW phase
  PROVE  Asks(Wanted(phase).jobs)
<1>1. Listed(jobs)
  BY DEF LedgerOK
<1>2. Asks(NewCatalog(jobs).jobs)
  BY NewCatalogAsks
<1>3. Asks(Organization(jobs, TRUE).jobs)
  BY <1>1, OrganizationAsks
<1>4. Asks(StackProfile(jobs, "default").jobs)
  BY <1>1, ProfileAsks DEF StackProfile
<1>5. Asks(JunkProfile(jobs, DefaultJunk).jobs)
  BY <1>1, ProfileAsks DEF JunkProfile
<1> QED
  BY <1>2, <1>3, <1>4, <1>5 DEF Wanted

LEMMA PhasesAsk ==
  ASSUME LedgerOK, NEW w, NEW p
  PROVE  /\ AskAssets(w, p) => Asks(jobs')
         /\ \A phase : MoveOn(w, p, phase) => Asks(jobs')
<1>1. Listed(jobs)
  BY DEF LedgerOK
<1>2. AskAssets(w, p) => jobs' = jobs \/ \E a : jobs' = Preprocessing(jobs, a).jobs
  BY DEF AskAssets
<1>3. \A phase : MoveOn(w, p, phase) => jobs' = jobs \/ jobs' = Wanted(phase).jobs
  BY DEF MoveOn
<1> QED
  BY <1>1, <1>2, <1>3, SelfAsks, PreprocessingAsks, WantedAsks

LEMMA AskAssetsPages ==
  ASSUME PagesInv, NEW w \in Worker, Working(w), Mine(w).kind = "backfill", NEW p, AskAssets(w, p),
         UNCHANGED <<holder, library>>
  PROVE  PagesInv'
<1>1. Asks(jobs')
  BY PhasesAsk DEF PagesInv
<1>2. \E read : Step(w, "save", read) \/ Step(w, "assets", read)
  BY DEF AskAssets
<1> QED
  BY <1>1, <1>2, AskingStep DEF library

LEMMA MoveOnPages ==
  ASSUME PagesInv, NEW w \in Worker, Working(w), Mine(w).kind = "backfill", NEW p, NEW phase, MoveOn(w, p, phase),
         UNCHANGED <<holder, library>>
  PROVE  PagesInv'
<1>1. Asks(jobs')
  BY PhasesAsk DEF PagesInv
<1>2. \E read : Step(w, "save", read)
  BY DEF MoveOn
<1> QED
  BY <1>1, <1>2, AskingStep DEF library

LEMMA AdvancePages ==
  ASSUME PagesInv, NEW w \in Worker, Advance(w)
  PROVE  PagesInv'
<1>1. Working(w) /\ Mine(w).kind = "backfill" /\ UNCHANGED library
  BY DEF Advance, Began, At, Working
<1>2. \/ \E p : Step(w, "save", p) /\ UNCHANGED <<jobs, holder>>
      \/ \E p : AskAssets(w, p) /\ UNCHANGED holder
      \/ Leave(w, [jobs EXCEPT ![worker[w].job] = Requeued(@)])
      \/ \E p, phase : MoveOn(w, p, phase) /\ UNCHANGED holder
  BY DEF Advance
<1>3. ASSUME NEW p, Step(w, "save", p), UNCHANGED <<jobs, holder>>
      PROVE  PagesInv'
  BY <1>1, <1>3, ReadingStep DEF library
<1>4. ASSUME NEW p, AskAssets(w, p), UNCHANGED holder
      PROVE  PagesInv'
  BY <1>1, <1>4, AskAssetsPages
<1>5. ASSUME NEW p, NEW phase, MoveOn(w, p, phase), UNCHANGED holder
      PROVE  PagesInv'
  BY <1>1, <1>5, MoveOnPages
<1> QED
  BY <1>1, <1>2, <1>3, <1>4, <1>5, RequeuedStep

LEMMA AdvanceAssetsPages ==
  ASSUME PagesInv, NEW w \in Worker, AdvanceAssets(w)
  PROVE  PagesInv'
<1>1. Working(w) /\ worker[w].at = "assets" /\ AskAssets(w, worker[w].read) /\ UNCHANGED <<holder, library>>
  BY DEF AdvanceAssets, At, Working
<1>2. Mine(w).kind = "backfill"
  BY <1>1, HolderIs DEF PagesInv, WorkOK, Mine
<1> QED
  BY <1>1, <1>2, AskAssetsPages

LEMMA SavePages ==
  ASSUME PagesInv, NEW w \in Worker, Save(w)
  PROVE  PagesInv'
<1> PICK i : i = worker[w].job
  OBVIOUS
<1> PICK p : p = worker[w].read
  OBVIOUS
<1> PICK status : status = IF p.phase = "complete" THEN "completed" ELSE IF Mine(w).held THEN "paused" ELSE "queued"
  OBVIOUS
<1> DEFINE f == [jobs EXCEPT ![i] = [@ EXCEPT !.status = status, !.plan = p]]
<1>1. Working(w) /\ worker[w].at = "save" /\ UNCHANGED library /\ Leave(w, f)
  BY DEF Save, At, Working
<1>2. holder = w /\ i \in DOMAIN jobs /\ jobs[i].kind = "backfill"
  BY <1>1, HolderIs DEF PagesInv, WorkOK
<1>3. \A k \in DOMAIN jobs : IsJob(jobs[k])
  BY ListedIs DEF PagesInv, LedgerOK
<1>4. \A k \in DOMAIN jobs : Still(jobs[k], f[k])
  BY <1>2, <1>3 DEF Still, Same, IsJob, JobFields, Shown
<1>5. f = [k \in DOMAIN jobs |-> f[k]]
  OBVIOUS
<1> HIDE DEF f
<1>6. MovesAt(0, f)
  BY <1>4, <1>5, RewriteAsks, AsksMoves DEF PagesInv, LedgerOK
<1>7. Others(w) /\ WorkOK(w)' /\ jobs' = f
  BY <1>1, LeavesIdle DEF PagesInv
<1> QED
  BY <1>1, <1>2, <1>6, <1>7, StandStill, AloofStep DEF PagesInv

LEMMA PreprocessPages ==
  ASSUME PagesInv, NEW w \in Worker, Preprocess(w)
  PROVE  PagesInv'
<1> PICK i : i = worker[w].job
  OBVIOUS
<1>1. /\ Working(w) /\ jobs[i].kind = "asset" /\ UNCHANGED library
      /\ Leave(w, [jobs EXCEPT ![i] = Completed(@)])
  BY DEF Preprocess, Began, At, Working, Mine
<1>2. holder = w /\ i \in DOMAIN jobs
  BY <1>1, HolderIs DEF PagesInv
<1>3. Others(w) /\ WorkOK(w)' /\ jobs' = [jobs EXCEPT ![i] = Completed(@)]
  BY <1>1, LeavesIdle DEF PagesInv
<1>4. MovesAt(i, jobs') /\ Same(jobs[i], jobs'[i])
  BY <1>2, <1>3, CompletedMoves DEF PagesInv, LedgerOK
<1>5. JobOK(i)' /\ i \notin Catalogs'
  BY <1>1, <1>4 DEF JobOK, Same, Whole, Catalogs, Of
<1> QED
  BY <1>1, <1>2, <1>3, <1>4, <1>5, StandStill, JobStep DEF PagesInv

-----------------------------------------------------------------------------
(* What a request decides.                                                 *)

\* An event that nothing came after ends in the state the photo is in.
LEMMA LastWord ==
  ASSUME Library, EventsOK, NEW v \in events, decisions[v.e].rev = v.after.rev
  PROVE  v.after = decisions[v.e] /\ v \in Event
<1>1. EventOK(v) /\ \A n \in events : EventOK(n)
  BY DEF EventsOK
<1>2. v \in Event /\ v.after.rev \in Nat
  BY <1>1 DEF EventOK, Event, Decision
<1>3. ASSUME NEW n \in events, n.e = v.e, n.before = v.after
      PROVE  FALSE
  <2>1. n.after.rev = v.after.rev + 1 /\ n.after.rev <= v.after.rev
    BY <1>1, <1>3 DEF EventOK
  <2> QED
    BY <1>2, <2>1
<1> QED
  BY <1>1, <1>2, <1>3 DEF EventOK

LEMMA UndoneIs ==
  ASSUME Library, EventsOK, NEW keys, \A k \in keys : \A v \in Rejections(k) : decisions[v.e].rev = v.after.rev
  PROVE  LET to == Undone(keys)
         IN /\ to = [e \in DOMAIN to |-> to[e]]
            /\ \A e \in DOMAIN to :
                 /\ e \in Asset /\ to[e] \in Decision /\ to[e].rev = decisions[e].rev + 1
                 /\ to[e].fav = decisions[e].fav
                 /\ \E v \in events : v.e = e /\ v.key \in keys /\ v.after = decisions[e]
<1> PICK old : old = UNION {Rejections(k) : k \in keys}
  OBVIOUS
<1> DEFINE was(e) == The({v.before : v \in {x \in old : x.e = e}})
           to == [e \in {v.e : v \in old} |-> Bumped(e, was(e).fav, was(e).rej)]
<1>1. Undone(keys) = to
  BY DEF Undone
<1>2. \A v \in old : /\ v \in events /\ v.key \in keys /\ v.do \in {"bulk", "rest"}
                     /\ decisions[v.e].rev = v.after.rev
  BY DEF Rejections
<1>3. \A v \in old : /\ v \in Event /\ v.after = decisions[v.e] /\ v.after.fav = v.before.fav
  BY <1>2, LastWord DEF EventsOK, EventOK
<1>4. ASSUME NEW e \in {v.e : v \in old}
      PROVE  /\ e \in Asset /\ was(e) \in Decision /\ was(e).fav = decisions[e].fav
             /\ \E v \in events : v.e = e /\ v.key \in keys /\ v.after = decisions[e]
  <2>1. PICK v \in old : v.e = e
    OBVIOUS
  <2> PICK S : S = {y.before : y \in {x \in old : x.e = e}}
    OBVIOUS
  <2>2. was(e) = The(S) /\ S # {}
    BY <2>1
  <2>3. PICK x \in old : x.e = e /\ was(e) = x.before
    <3> HIDE DEF was
    <3>1. was(e) \in S
      BY <2>2, TheIsIn
    <3> QED
      BY <3>1
  <2> QED
    BY <1>2, <1>3, <2>1, <2>3 DEF Event
<1> HIDE DEF was
<1>5. \A e \in DOMAIN to : e \in {v.e : v \in old} /\ to[e] = Bumped(e, was(e).fav, was(e).rej)
  OBVIOUS
<1>6. to = [e \in DOMAIN to |-> to[e]]
  OBVIOUS
<1> HIDE DEF to
<1>7. ASSUME NEW e \in DOMAIN to
      PROVE  /\ e \in Asset /\ to[e] \in Decision /\ to[e].rev = decisions[e].rev + 1
             /\ to[e].fav = decisions[e].fav
             /\ \E v \in events : v.e = e /\ v.key \in keys /\ v.after = decisions[e]
  <2>1. e \in Asset /\ was(e) \in Decision /\ was(e).fav = decisions[e].fav /\ decisions[e] \in Decision
    BY <1>4, <1>5 DEF Library
  <2>2. to[e] = [fav |-> was(e).fav, rej |-> was(e).rej, rev |-> decisions[e].rev + 1]
    BY <1>5 DEF Bumped
  <2>3. to[e] \in Decision /\ to[e].rev = decisions[e].rev + 1 /\ to[e].fav = was(e).fav
    BY <2>1, <2>2 DEF Decision
  <2> QED
    BY <1>4, <1>5, <2>1, <2>3
<1> QED
  BY <1>1, <1>6, <1>7

LEMMA SeenIs ==
  ASSUME Library, NEW c \in Client, SeatOK(c), NEW S \in SUBSET Asset, AsSeen(c, S)
  PROVE  \A e \in S : client[c].rows[e] = decisions[e]
BY DEF SeatOK, Saw, AsSeen

LEMMA RestIsAssets ==
  ASSUME NEW c \in Client, SeatOK(c)
  PROVE  Rest(c) \subseteq Asset
<1>1. client[c].stacks \subseteq Stack
  BY DEF SeatOK, Seat
<1>2. \A s \in TheStack(c) : s.members \subseteq Asset
  BY <1>1 DEF TheStack, Stack
<1> QED
  BY <1>2 DEF Rest

LEMMA BumpedIs ==
  ASSUME Library, NEW e \in Asset, NEW fav \in BOOLEAN, NEW rej \in BOOLEAN
  PROVE  /\ Bumped(e, fav, rej) \in Decision /\ Bumped(e, fav, rej).fav = fav
         /\ Bumped(e, fav, rej).rev = decisions[e].rev + 1
BY DEF Library, Decision, Bumped

\* The new states: of photos, one revision on, and over what the client saw, or
\* what nothing has come after.
DecidedOK(c, to) ==
    /\ to = [e \in DOMAIN to |-> to[e]]
    /\ Request(c).do \in {"favour", "unfavour"} => \E e \in Asset : DOMAIN to = {e}
    /\ \A e \in DOMAIN to :
         /\ e \in Asset /\ to[e] \in Decision /\ to[e].rev = decisions[e].rev + 1
         /\ Request(c).do \notin {"favour", "unfavour"} => to[e].fav = decisions[e].fav
         /\ CASE Request(c).do = "undo" -> \E v \in events : v.e = e /\ v.key \in Request(c).arg /\ v.after = decisions[e]
              [] Request(c).do = "rest" -> decisions[e].fav => \E x \in Asset : client[c].rows[x].fav
              [] OTHER -> decisions[e] = client[c].rows[e]

LEMMA DecidedIs ==
  ASSUME Library, EventsOK, NEW c \in Client, SeatOK(c), client[c].at = "sent", Allowed(c), Decides(c)
  PROVE  DecidedOK(c, Decided(c))
<1> PICK do : do = Request(c).do
  OBVIOUS
<1> PICK a : a = Request(c).arg
  OBVIOUS
<1> PICK saw : saw = client[c].rows
  OBVIOUS
<1>1. do \in {"favour", "unfavour", "reject", "bulk", "rest", "undo"} /\ Names(client[c]) /\ saw \in [Asset -> Decision]
  BY DEF Decides, SeatOK, Seat
<1>2. CASE do \in {"favour", "unfavour", "reject"}
  <2>1. PICK x \in Asset : a = {x}
    BY <1>1, <1>2 DEF Names, Request
  <2>2. AsSeen(c, a)
    BY <1>2 DEF Allowed
  <2>3. saw[x] = decisions[x] /\ saw[x] \in Decision
    BY <1>1, <2>1, <2>2, SeenIs
  <2>4. Decided(c) = StateSet(do, a, saw)
    BY <1>2 DEF Decided
  <2>5. PICK y \in Decision : /\ Decided(c) = [e \in {x} |-> y] /\ y.rev = decisions[x].rev + 1
                              /\ do = "reject" => y.fav = decisions[x].fav
    <3>1. CASE do = "favour"
      <4>1. Decided(c) = [e \in {x} |-> Bumped(x, TRUE, saw[x].rej)]
        BY <2>1, <2>4, <3>1 DEF StateSet
      <4> PICK y : y = Bumped(x, TRUE, saw[x].rej)
        OBVIOUS
      <4>2. saw[x].fav \in BOOLEAN /\ saw[x].rej \in BOOLEAN
        BY <2>3 DEF Decision
      <4>3. y \in Decision /\ y.rev = decisions[x].rev + 1 /\ y.fav = TRUE
        BY <4>2, BumpedIs
      <4> QED
        BY <2>3, <3>1, <4>1, <4>3
    <3>2. CASE do = "unfavour"
      <4>1. Decided(c) = [e \in {x} |-> Bumped(x, FALSE, saw[x].rej)]
        BY <2>1, <2>4, <3>2 DEF StateSet
      <4> PICK y : y = Bumped(x, FALSE, saw[x].rej)
        OBVIOUS
      <4>2. saw[x].fav \in BOOLEAN /\ saw[x].rej \in BOOLEAN
        BY <2>3 DEF Decision
      <4>3. y \in Decision /\ y.rev = decisions[x].rev + 1 /\ y.fav = FALSE
        BY <4>2, BumpedIs
      <4> QED
        BY <2>3, <3>2, <4>1, <4>3
    <3>3. CASE do = "reject"
      <4>1. Decided(c) = [e \in {x} |-> Bumped(x, saw[x].fav, TRUE)]
        BY <2>1, <2>4, <3>3 DEF StateSet
      <4> PICK y : y = Bumped(x, saw[x].fav, TRUE)
        OBVIOUS
      <4>2. saw[x].fav \in BOOLEAN /\ saw[x].rej \in BOOLEAN
        BY <2>3 DEF Decision
      <4>3. y \in Decision /\ y.rev = decisions[x].rev + 1 /\ y.fav = saw[x].fav
        BY <4>2, BumpedIs
      <4> QED
        BY <2>3, <3>3, <4>1, <4>3
    <3> QED
      BY <1>2, <3>1, <3>2, <3>3
  <2> QED
    BY <1>2, <2>3, <2>5 DEF DecidedOK
<1>3. CASE do = "bulk"
  <2>1. a \subseteq Asset /\ AsSeen(c, a)
    BY <1>1, <1>3 DEF Names, Request, Allowed
  <2>2. \A e \in a : saw[e] = decisions[e] /\ decisions[e] \in Decision
    BY <1>1, <2>1, SeenIs DEF Library
  <2>3. Decided(c) = [e \in a |-> Bumped(e, decisions[e].fav, TRUE)]
    BY <1>3 DEF Decided, BulkRejected
  <2>4. \A e \in a : /\ Bumped(e, decisions[e].fav, TRUE) \in Decision
                     /\ Bumped(e, decisions[e].fav, TRUE).fav = decisions[e].fav
                     /\ Bumped(e, decisions[e].fav, TRUE).rev = decisions[e].rev + 1
    BY <2>1, <2>2, BumpedIs DEF Decision
  <2> QED
    BY <1>3, <2>1, <2>2, <2>3, <2>4 DEF DecidedOK
<1>4. CASE do = "rest"
  <2>1. Rest(c) \subseteq Asset /\ Confirmed(c, Rest(c))
    BY <1>4, RestIsAssets DEF Allowed
  <2>2. Decided(c) = [e \in Rest(c) |-> Bumped(e, decisions[e].fav, TRUE)]
    BY <1>4 DEF Decided, RestRejected
  <2>3. \A e \in Rest(c) : /\ Bumped(e, decisions[e].fav, TRUE) \in Decision
                           /\ Bumped(e, decisions[e].fav, TRUE).fav = decisions[e].fav
                           /\ Bumped(e, decisions[e].fav, TRUE).rev = decisions[e].rev + 1
    <3>1. ASSUME NEW e \in Rest(c)
          PROVE  e \in Asset /\ decisions[e].fav \in BOOLEAN
      BY <2>1 DEF Decision, Library
    <3> QED
      BY <3>1, BumpedIs
  <2>4. \A e \in Rest(c) : decisions[e].fav => \E x \in Asset : client[c].rows[x].fav
    BY <2>1 DEF Confirmed
  <2> QED
    BY <1>4, <2>1, <2>2, <2>3, <2>4 DEF DecidedOK
<1>5. CASE do = "undo"
  <2>1. \A k \in a : \A v \in Rejections(k) : decisions[v.e].rev = v.after.rev
    BY <1>5 DEF Allowed
  <2>2. Decided(c) = Undone(a)
    BY <1>5 DEF Decided
  <2> QED
    BY <1>5, <2>1, <2>2, UndoneIs DEF DecidedOK
<1> QED
  BY <1>1, <1>2, <1>3, <1>4, <1>5

-----------------------------------------------------------------------------
(* A favourite brings the verdicts of the junk profiles up to date.        *)

LEMMA CountMoves ==
  ASSUME NEW A, IsFiniteSet(A), NEW x, x \notin A, NEW y, y \notin A, NEW was \in BOOLEAN, NEW is \in BOOLEAN
  PROVE  Cardinality(A \union (IF is THEN {y} ELSE {}))
           = Moved(Cardinality(A \union (IF was THEN {x} ELSE {})), was, is)
<1>1. Cardinality(A) \in Nat
  BY FS_CardinalityType
<1>2. Cardinality(A \union {x}) = Cardinality(A) + 1 /\ Cardinality(A \union {y}) = Cardinality(A) + 1
  BY FS_AddElement
<1>3. A \union {} = A
  OBVIOUS
<1> PICK n \in Nat : n = Cardinality(A)
  BY <1>1
<1>4. \A b \in BOOLEAN, z \in {x, y} : Cardinality(A \union (IF b THEN {z} ELSE {})) = n + (IF b THEN 1 ELSE 0)
  <2>1. ASSUME NEW z \in {x, y}
        PROVE  Cardinality(A \union {z}) = n + 1 /\ Cardinality(A \union {}) = n + 0
    BY <1>2, <1>3
  <2>2. ASSUME NEW z \in {x, y}
        PROVE  /\ Cardinality(A \union (IF TRUE THEN {z} ELSE {})) = n + (IF TRUE THEN 1 ELSE 0)
               /\ Cardinality(A \union (IF FALSE THEN {z} ELSE {})) = n + (IF FALSE THEN 1 ELSE 0)
    BY <2>1
  <2>3. ASSUME NEW b \in BOOLEAN, NEW z \in {x, y}
        PROVE  Cardinality(A \union (IF b THEN {z} ELSE {})) = n + (IF b THEN 1 ELSE 0)
    <3>1. CASE b = TRUE
      BY <2>2, <3>1, Zenon
    <3>2. CASE b = FALSE
      BY <2>2, <3>2, Zenon
    <3> QED
      BY <3>1, <3>2
  <2> QED
    BY <2>3
<1>5. /\ Cardinality(A \union (IF is THEN {y} ELSE {})) = n + (IF is THEN 1 ELSE 0)
      /\ Cardinality(A \union (IF was THEN {x} ELSE {})) = n + (IF was THEN 1 ELSE 0)
  BY <1>4
<1>6. \A m \in {0, 1}, k \in {0, 1} : n + m = n + k + m - k
  OBVIOUS
<1> QED
  BY <1>5, <1>6 DEF Moved

\* One row of a counted set is replaced.
LEMMA TallyMoves ==
  ASSUME NEW rows \in SUBSET JunkVerdict, IsFiniteSet(rows), NEW old \in rows, NEW new \in JunkVerdict,
         new \notin rows \ {old}
  PROVE  Tally((rows \ {old}) \union {new})
           = <<Moved(Tally(rows)[1], old.hidden, new.hidden), Moved(Tally(rows)[2], old.shielded, new.shielded)>>
<1> DEFINE now == (rows \ {old}) \union {new}
           H == {r \in rows \ {old} : r.hidden}
           D == {r \in rows \ {old} : r.shielded}
<1>1. IsFiniteSet(rows \ {old})
  BY FS_Subset
<1>2. IsFiniteSet(H) /\ IsFiniteSet(D)
  BY <1>1, FS_Subset
<1>3. old \notin H /\ new \notin H /\ old \notin D /\ new \notin D
  OBVIOUS
<1>4. old.hidden \in BOOLEAN /\ new.hidden \in BOOLEAN /\ old.shielded \in BOOLEAN /\ new.shielded \in BOOLEAN
  BY DEF JunkVerdict
<1>5. /\ {r \in rows : r.hidden} = H \union (IF old.hidden THEN {old} ELSE {})
      /\ {r \in now : r.hidden} = H \union (IF new.hidden THEN {new} ELSE {})
  BY <1>4
<1>6. /\ {r \in rows : r.shielded} = D \union (IF old.shielded THEN {old} ELSE {})
      /\ {r \in now : r.shielded} = D \union (IF new.shielded THEN {new} ELSE {})
  BY <1>4
<1> HIDE DEF H, D, now
<1>7. Cardinality({r \in now : r.hidden}) = Moved(Cardinality({r \in rows : r.hidden}), old.hidden, new.hidden)
  BY <1>2, <1>3, <1>4, <1>5, CountMoves
<1>8. Cardinality({r \in now : r.shielded}) = Moved(Cardinality({r \in rows : r.shielded}), old.shielded, new.shielded)
  BY <1>2, <1>3, <1>4, <1>6, CountMoves
<1>9. Tally(now) = <<Moved(Tally(rows)[1], old.hidden, new.hidden), Moved(Tally(rows)[2], old.shielded, new.shielded)>>
  BY <1>7, <1>8 DEF Tally
<1> QED
  BY <1>9 DEF now

LEMMA ReviewedIs ==
  ASSUME NEW i \in DOMAIN jobs, Judges(i), IsJob(jobs[i]), NEW e \in Asset, \E r \in jobs[i].rows : r.e = e,
         NEW fav \in BOOLEAN, NEW j, j = Reviewed(jobs[i], e, fav)
  PROVE  /\ IsJob(j) /\ Same(jobs[i], j) /\ j.row = jobs[i].row /\ j.status = jobs[i].status /\ j.cur = jobs[i].cur
         /\ j.rows \subseteq JunkVerdict /\ IsFiniteSet(j.rows) /\ j.tally = Tally(j.rows)
         /\ \A r, s \in j.rows : r.e = s.e => r = s
         /\ \A r \in j.rows : /\ r.e # e => r \in jobs[i].rows
                              /\ r.e = e => /\ r.shielded = (fav /\ jobs[i].key[2] /\ r.agrees)
                                            /\ r.hidden = (r.agrees /\ ~r.shielded)
<1> PICK rows : rows = jobs[i].rows
  OBVIOUS
<1> PICK key : key = jobs[i].key
  OBVIOUS
<1> PICK old : old = The({r \in rows : r.e = e})
  OBVIOUS
<1> PICK shielded : shielded = (fav /\ key[2] /\ old.agrees)
  OBVIOUS
<1>0. PICK new : new = [old EXCEPT !.shielded = shielded, !.hidden = old.agrees /\ ~shielded]
  OBVIOUS
<1>1. rows \subseteq JunkVerdict /\ IsFiniteSet(rows) /\ jobs[i].tally = Tally(rows)
      /\ \A r, s \in rows : r.e = s.e => r = s
  BY DEF Judges
<1>2. old \in rows /\ old.e = e /\ old \in JunkVerdict
  <2>1. {r \in rows : r.e = e} # {}
    OBVIOUS
  <2>2. old \in {r \in rows : r.e = e}
    BY <2>1, TheIsIn
  <2> QED
    BY <1>1, <2>2
<1>3. shielded \in BOOLEAN
  OBVIOUS
<1>4. /\ new \in JunkVerdict /\ new.e = e /\ new.agrees = old.agrees /\ new.shielded = shielded
      /\ new.hidden = (old.agrees /\ ~shielded)
  BY <1>0, <1>2, <1>3 DEF JunkVerdict
<1>5. new \notin rows \ {old}
  BY <1>1, <1>2, <1>4
<1> PICK now : now = (rows \ {old}) \union {new}
  OBVIOUS
<1> PICK tally : tally = <<Moved(jobs[i].tally[1], old.hidden, new.hidden), Moved(jobs[i].tally[2], old.shielded, new.shielded)>>
  OBVIOUS
<1>6. tally = Tally(now)
  <2>1. Tally((rows \ {old}) \union {new})
           = <<Moved(Tally(rows)[1], old.hidden, new.hidden), Moved(Tally(rows)[2], old.shielded, new.shielded)>>
    <3>1. rows \in SUBSET JunkVerdict
      BY <1>1
    <3> QED
      BY <1>1, <1>2, <1>4, <1>5, <3>1, TallyMoves
  <2> QED
    BY <1>1, <2>1
<1>7. IsFiniteSet(now) /\ now \subseteq JunkVerdict
  <2>1. IsFiniteSet(rows \ {old})
    BY <1>1, FS_Subset
  <2> QED
    BY <1>1, <1>4, <2>1, FS_AddElement
<1> PICK was : was = jobs[i]
  OBVIOUS
<1>8. Reviewed(jobs[i], e, fav) = [was EXCEPT !.rows = now, !.tally = tally]
  BY <1>0 DEF Reviewed
<1>9. LET n == [was EXCEPT !.rows = now, !.tally = tally]
      IN /\ IsJob(n) /\ Same(was, n) /\ n.row = was.row /\ n.status = was.status /\ n.cur = was.cur
         /\ n.rows = now /\ n.tally = tally
  BY DEF IsJob, JobFields, Same
<1>10. \A r \in now : r.e = e => r = new
  BY <1>1, <1>2
<1>11. \A r \in now : r.e # e => r \in rows
  BY <1>4
<1>12. ASSUME NEW r \in now, NEW s \in now, r.e = s.e
       PROVE  r = s
  <2>1. CASE r.e = e
    BY <1>10, <1>12, <2>1
  <2>2. CASE r.e # e
    BY <1>1, <1>11, <1>12, <2>2
  <2> QED
    BY <2>1, <2>2
<1>13. /\ new.shielded = (fav /\ key[2] /\ new.agrees)
       /\ new.hidden = (new.agrees /\ ~new.shielded)
  <2> PICK agrees : agrees = new.agrees
    OBVIOUS
  <2> PICK hidden : hidden = new.hidden
    OBVIOUS
  <2>1. agrees = old.agrees /\ shielded = new.shielded /\ hidden = (old.agrees /\ ~shielded)
    BY <1>4
  <2>2. hidden = (agrees /\ ~shielded) /\ shielded = (fav /\ key[2] /\ agrees)
    BY <2>1, Zenon
  <2> QED
    BY <2>1, <2>2, Zenon
<1>14. ASSUME NEW r \in now, r.e = e
       PROVE  /\ r.shielded = (fav /\ key[2] /\ r.agrees)
              /\ r.hidden = (r.agrees /\ ~r.shielded)
  BY <1>10, <1>13, <1>14, Zenon
<1>15. /\ IsJob(j) /\ Same(jobs[i], j) /\ j.row = jobs[i].row /\ j.status = jobs[i].status /\ j.cur = jobs[i].cur
       /\ j.rows = now /\ j.tally = tally
  BY <1>8, <1>9
<1>16. /\ j.rows \subseteq JunkVerdict /\ IsFiniteSet(j.rows) /\ j.tally = Tally(j.rows)
       /\ \A r, s \in j.rows : r.e = s.e => r = s
       /\ \A r \in j.rows : r.e # e => r \in jobs[i].rows
  BY <1>6, <1>7, <1>11, <1>12, <1>15
<1>17. \A r \in j.rows : r.e = e => /\ r.shielded = (fav /\ jobs[i].key[2] /\ r.agrees)
                                    /\ r.hidden = (r.agrees /\ ~r.shielded)
  BY <1>14, <1>15
<1> QED
  BY <1>15, <1>16, <1>17, Zenon

-----------------------------------------------------------------------------
(* The requests.                                                           *)

\* A request that only asks for a job, or changes no job.
LEMMA DeskAskStep ==
  ASSUME PagesInv, Asks(jobs'), UNCHANGED <<worker, holder, entities, decisions, raced>>,
         verified' \subseteq Asset, generation' \in {generation, generation + 1}
  PROVE  PagesInv'
<1>1. Library' /\ Onward /\ FavsStay /\ RacedBut(0)
  BY DEF PagesInv, Library, Onward, FavsStay, RacedBut
<1>2. MovesAt(0, jobs') /\ Listed(jobs)' /\ Len(jobs') \in {Len(jobs), Len(jobs) + 1}
  BY AsksMoves DEF Asks
<1>3. LedgerOK'
  BY <1>1, <1>2, AloofKeeps DEF PagesInv
<1>4. \A k \in DOMAIN jobs :
        /\ Same(jobs[k], jobs'[k])
        /\ jobs[k].kind \in Whole \union {"junk"} => jobs'[k].row = jobs[k].row /\ jobs'[k].status = jobs[k].status
        /\ jobs[k].kind = "view" => jobs'[k].rows = jobs[k].rows
  BY DEF Asks, Still, Shown, Whole
<1>5. WorkersOK'
  BY <1>1, <1>2, <1>4, CrewStays DEF PagesInv
<1> QED
  BY <1>1, <1>3, <1>5 DEF PagesInv

LEMMA CoverPages ==
  ASSUME PagesInv, NEW c \in Client, SeatOK(c), client[c].of \in Served, TheStack(c) # {},
         NEW e \in Request(c).arg, jobs' = Covered(c, e), generation' = generation + 1,
         UNCHANGED <<worker, holder, verified, entities, decisions, raced>>
  PROVE  PagesInv'
<1> PICK i : i = client[c].of
  OBVIOUS
<1> PICK s : s = The(TheStack(c))
  OBVIOUS
<1>1. i \in DOMAIN jobs /\ jobs[i].kind = "stacks" /\ Ready(i)
  BY DEF Served, Of
<1>2. s \in jobs[i].rows /\ s \in client[c].stacks /\ s.members = Request(c).arg
  BY TheIsIn DEF TheStack
<1>3. s \in Stack /\ e \in Asset /\ jobs[i].rows \subseteq Stack
  BY <1>1, <1>2 DEF SeatOK, Seat, Stack, PagesInv, LedgerOK, JobOK
<1>0. PICK t : t = [s EXCEPT !.cover = e, !.rev = @ + 1]
  OBVIOUS
<1>4. t \in Stack
  <2>1. e \in Cover /\ s.rev + 1 \in Nat /\ s.rev \in Nat
    BY <1>3 DEF Stack, Cover
  <2> PICK n : n = s.rev + 1
    OBVIOUS
  <2>2. t = [s EXCEPT !.cover = e, !.rev = n]
    BY <1>0
  <2> QED
    BY <1>3, <2>1, <2>2 DEF Stack
<1> PICK rows : rows = (jobs[i].rows \ {s}) \union {t}
  OBVIOUS
<1>5. jobs' = [jobs EXCEPT ![i].rows = rows]
  BY <1>0, <1>1 DEF Covered
<1>6. /\ MovesAt(i, jobs') /\ DOMAIN jobs' = DOMAIN jobs /\ Len(jobs') = Len(jobs) /\ Same(jobs[i], jobs'[i])
      /\ jobs'[i].rows = rows /\ jobs'[i].row = jobs[i].row /\ jobs'[i].status = jobs[i].status
  <2>1. Listed(jobs) /\ i \in DOMAIN jobs /\ jobs' = [jobs EXCEPT ![i].rows = rows]
    BY <1>1, <1>5 DEF PagesInv, LedgerOK
  <2> QED
    BY <2>1, RowsMove, Zenon
<1>7. JobOK(i)' /\ i \notin Catalogs'
  <2>1. JobOK(i)
    BY <1>1 DEF PagesInv, LedgerOK
  <2>2. rows \subseteq Stack
    BY <1>3, <1>4
  <2> QED
    BY <1>1, <1>6, <2>1, <2>2 DEF JobOK, Same, Whole, Catalogs, Of
<1>8. Library' /\ Onward /\ FavsStay /\ RacedBut(i)
  BY DEF PagesInv, Library, Onward, FavsStay, RacedBut
<1>9. LedgerOK'
  BY <1>1, <1>6, <1>7, <1>8, LedgerKeeps DEF PagesInv
<1>10. \A k \in DOMAIN jobs \ {i} : jobs'[k] = jobs[k]
  BY <1>5
<1>11. Listed(jobs)' /\ \A k \in DOMAIN jobs :
        /\ Same(jobs[k], jobs'[k])
        /\ jobs[k].kind \in Whole \union {"junk"} => jobs'[k].row = jobs[k].row /\ jobs'[k].status = jobs[k].status
        /\ jobs[k].kind = "view" => jobs'[k].rows = jobs[k].rows
  BY <1>1, <1>6, <1>10 DEF MovesAt, Same
<1>12. WorkersOK'
  BY <1>6, <1>8, <1>11, CrewStays DEF PagesInv
<1> QED
  BY <1>8, <1>9, <1>12 DEF PagesInv

LEMMA EnqueueAsks ==
  ASSUME PagesInv, NEW c \in Client, SeatOK(c), client[c].at = "sent", Allowed(c), ~Decides(c), Enqueue(c)
  PROVE  \/ Asks(jobs')
         \/ /\ Request(c).do = "cover" /\ client[c].of \in Served /\ TheStack(c) # {}
            /\ \E e \in Request(c).arg : jobs' = Covered(c, e)
<1> PICK do : do = Request(c).do
  OBVIOUS
<1>1. Listed(jobs) /\ LedgerOK /\ Names(client[c])
  BY DEF PagesInv, LedgerOK, SeatOK
<1>2. CASE do = "cover"
  BY <1>2 DEF Allowed, Enqueue
<1>4. CASE do = "catalog"
  <2>1. jobs' = PrepareLibrary
    BY <1>4 DEF Enqueue
  <2> QED
    BY <1>1, <2>1, NewCatalogAsks DEF PrepareLibrary
<1>5. CASE do = "organization"
  <2>1. jobs' = PrepareOrganization
    BY <1>5 DEF Enqueue
  <2> QED
    BY <1>1, <2>1, OrganizationAsks DEF PrepareOrganization
<1>6. CASE do = "stacks"
  <2>1. jobs' = CreateStackProfile
    BY <1>6 DEF Enqueue
  <2> QED
    BY <1>1, <2>1, ProfileAsks DEF CreateStackProfile, StackProfile
<1>7. CASE do = "junk"
  <2>1. jobs' = CreateJunkProfile
    BY <1>7 DEF Enqueue
  <2> QED
    BY <1>1, <2>1, ProfileAsks DEF CreateJunkProfile, JunkProfile
<1>8. CASE do = "feedback"
  <2>1. PICK i \in Nat : Request(c).arg = {i}
    BY <1>1, <1>8 DEF Names, Request
  <2>4. i \in DOMAIN jobs
    BY <1>8, <2>1 DEF Allowed, Ready
  <2>2. The(Request(c).arg) = i
    BY <2>1, TheIsIn
  <2>3. \E by \in -1..1 : jobs' = Heard(c, i, by)
    BY <1>8, <2>2 DEF Enqueue
  <2> QED
    BY <1>1, <2>3, <2>4, HeardAsks
<1>9. CASE do \in {"start", "restart", "pause", "resume"}
  <2>1. jobs' = ControlBackfill(do)
    BY <1>9 DEF Enqueue
  <2>2. do \in {"pause", "resume"} => CanControl
    BY <1>9 DEF Allowed
  <2>3. Asks(Started(jobs, FALSE)) /\ Asks(Started(jobs, TRUE))
    BY <1>1, StartedAsks
  <2>4. do \in {"pause", "resume"} => Asks(Paused(jobs)) /\ Asks(Resumed(jobs))
    BY <1>1, <2>2, ControlsAsk
  <2> QED
    BY <1>9, <2>1, <2>3, <2>4 DEF ControlBackfill
<1>10. do \in Requests
  BY <1>1 DEF Names, Request
<1> QED
  BY <1>2, <1>4, <1>5, <1>6, <1>7, <1>8, <1>9, <1>10 DEF Decides, Requests

LEMMA EnqueuePages ==
  ASSUME PagesInv, NEW c \in Client, SeatOK(c), client[c].at = "sent", Allowed(c), ~Decides(c), Enqueue(c),
         generation' = generation + 1, UNCHANGED <<worker, holder, verified, entities, decisions, raced>>
  PROVE  PagesInv'
<1>1. CASE Asks(jobs')
  <2>1. verified' \subseteq Asset
    BY DEF PagesInv, Library
  <2> QED
    BY <1>1, <2>1, DeskAskStep
<1>2. CASE ~Asks(jobs')
  <2>1. /\ client[c].of \in Served /\ TheStack(c) # {}
        /\ \E e \in Request(c).arg : jobs' = Covered(c, e)
    BY <1>2, EnqueueAsks
  <2> QED
    BY <2>1, CoverPages
<1> QED
  BY <1>1, <1>2

LEMMA RefreshPages ==
  ASSUME PagesInv, NEW x \in Asset, NEW y \in Decision, decisions' = [e \in Asset |-> IF e = x THEN y ELSE decisions[e]],
         jobs' = Refresh(x, y.fav), raced' = raced \ {<<i, x>> : i \in Judged(x)}, generation' = generation + 1,
         UNCHANGED <<worker, holder, verified, entities>>
  PROVE  PagesInv'
<1>1. /\ Listed(jobs) /\ \A k \in DOMAIN jobs : IsJob(jobs[k]) /\ JobOK(k)
      /\ jobs' = [k \in DOMAIN jobs |-> IF k \in Judged(x) THEN Reviewed(jobs[k], x, y.fav) ELSE jobs[k]]
      /\ y.fav \in BOOLEAN
  BY ListedIs DEF PagesInv, LedgerOK, Refresh, Decision
<1>2. Library' /\ Onward
  BY DEF PagesInv, Library, Onward
<1>3. /\ decisions'[x] = y
      /\ \A e \in Asset \ {x} : decisions'[e] = decisions[e]
  OBVIOUS
<1>4. ASSUME NEW k \in Judged(x)
      PROVE  /\ k \in DOMAIN jobs /\ jobs[k].kind = "junk" /\ Ready(k) /\ Judges(k)
             /\ \E r \in jobs[k].rows : r.e = x
             /\ jobs'[k] = Reviewed(jobs[k], x, y.fav)
  BY <1>1 DEF Judged, Of, JobOK
<1>5. ASSUME NEW k \in Judged(x)
      PROVE  /\ IsJob(jobs'[k]) /\ Same(jobs[k], jobs'[k]) /\ jobs'[k].row = jobs[k].row
             /\ jobs'[k].status = jobs[k].status /\ jobs'[k].cur = jobs[k].cur
             /\ jobs'[k].rows \subseteq JunkVerdict /\ IsFiniteSet(jobs'[k].rows)
             /\ jobs'[k].tally = Tally(jobs'[k].rows)
             /\ \A r, s \in jobs'[k].rows : r.e = s.e => r = s
             /\ \A r \in jobs'[k].rows : /\ r.e # x => r \in jobs[k].rows
                                         /\ r.e = x => /\ r.shielded = (y.fav /\ jobs[k].key[2] /\ r.agrees)
                                                       /\ r.hidden = (r.agrees /\ ~r.shielded)
  <2> PICK fav \in BOOLEAN : fav = y.fav
    BY <1>1
  <2>1. jobs'[k] = Reviewed(jobs[k], x, fav) /\ k \in DOMAIN jobs /\ Judges(k) /\ IsJob(jobs[k])
        /\ \E r \in jobs[k].rows : r.e = x
    BY <1>1, <1>4
  <2> PICK j : j = jobs'[k]
    OBVIOUS
  <2>2. /\ IsJob(j) /\ Same(jobs[k], j) /\ j.row = jobs[k].row /\ j.status = jobs[k].status /\ j.cur = jobs[k].cur
        /\ j.rows \subseteq JunkVerdict /\ IsFiniteSet(j.rows) /\ j.tally = Tally(j.rows)
        /\ \A r, s \in j.rows : r.e = s.e => r = s
        /\ \A r \in j.rows : /\ r.e # x => r \in jobs[k].rows
                             /\ r.e = x => /\ r.shielded = (fav /\ jobs[k].key[2] /\ r.agrees)
                                           /\ r.hidden = (r.agrees /\ ~r.shielded)
    BY <2>1, ReviewedIs
  <2> QED
    BY <2>2, Zenon
<1>6. \A k \in DOMAIN jobs \ Judged(x) : jobs'[k] = jobs[k]
  BY <1>1
<1>7. DOMAIN jobs' = DOMAIN jobs /\ \A k \in DOMAIN jobs : IsJob(jobs'[k])
  BY <1>1, <1>5, <1>6
<1>8. Listed(jobs') /\ Len(jobs') = Len(jobs)
  <2>1. jobs' = [k \in DOMAIN jobs |-> jobs'[k]]
    BY <1>1
  <2> QED
    BY <1>1, <1>7, <2>1, Rewritten
<1>9. \A k \in DOMAIN jobs : /\ Same(jobs[k], jobs'[k]) /\ jobs'[k].row = jobs[k].row
                             /\ jobs'[k].status = jobs[k].status /\ jobs'[k].cur = jobs[k].cur
  BY <1>5, <1>6 DEF Same
<1>10. ASSUME NEW k \in Judged(x)
       PROVE  JobOK(k)'
  <2>1. k \in DOMAIN jobs /\ jobs[k].kind = "junk" /\ Judges(k)
    BY <1>4
  <2>2. jobs'[k].key = jobs[k].key /\ jobs'[k].kind = "junk"
    BY <1>5, <2>1 DEF Same
  <2>3. ASSUME NEW r \in jobs'[k].rows
        PROVE  <<k, r.e>> \in raced' \/
                 /\ r.shielded = (decisions'[r.e].fav /\ jobs'[k].key[2] /\ r.agrees)
                 /\ r.hidden = (r.agrees /\ ~r.shielded)
    <3>1. CASE r.e = x
      <4>1. /\ r.shielded = (y.fav /\ jobs[k].key[2] /\ r.agrees)
            /\ r.hidden = (r.agrees /\ ~r.shielded)
        BY <1>5, <3>1
      <4> QED
        BY <1>3, <2>2, <3>1, <4>1, Zenon
    <3>2. CASE r.e # x
      <4>1. r \in jobs[k].rows /\ r.e \in Asset
        BY <1>5, <3>2 DEF JunkVerdict
      <4>2. decisions'[r.e].fav = decisions[r.e].fav
        BY <1>3, <3>2, <4>1
      <4>3. <<k, r.e>> \in raced => <<k, r.e>> \in raced'
        BY <3>2
      <4>4. <<k, r.e>> \in raced \/
              /\ r.shielded = (decisions[r.e].fav /\ jobs[k].key[2] /\ r.agrees)
              /\ r.hidden = (r.agrees /\ ~r.shielded)
        BY <2>1, <4>1 DEF Judges
      <4> QED
        BY <2>2, <4>2, <4>3, <4>4, Zenon
    <3> QED
      BY <3>1, <3>2
  <2>4. Judges(k)'
    BY <1>5, <2>3 DEF Judges
  <2> QED
    BY <2>2, <2>4 DEF JobOK, Whole
<1>11. ASSUME NEW k \in DOMAIN jobs \ Judged(x)
       PROVE  JobOK(k)'
  <2>1. JobOK(k) /\ jobs'[k] = jobs[k]
    BY <1>1, <1>6
  <2>2. ASSUME jobs[k].kind = "junk", Ready(k)
        PROVE  Judges(k)'
    <3>1. Judges(k) /\ \A r \in jobs[k].rows : r.e \in Asset \ {x}
      BY <2>1, <2>2 DEF JobOK, Judges, JunkVerdict, Judged, Of
    <3>2. \A r \in jobs[k].rows : /\ decisions'[r.e].fav = decisions[r.e].fav
                                  /\ <<k, r.e>> \in raced => <<k, r.e>> \in raced'
      BY <1>3, <3>1
    <3> QED
      BY <2>1, <3>1, <3>2 DEF Judges
  <2>3. Ready(k)' => Ready(k)
    BY <2>1 DEF Ready
  <2>4. jobs[k].kind = "view" => jobs[k].key[2] \in Nat /\ jobs[k].key[2] <= generation /\ generation \in Nat
    BY <2>1 DEF JobOK, PagesInv, Library
  <2>5. jobs[k].kind = "view" => jobs'[k].key[2] # generation' /\ jobs'[k].key[2] <= generation'
    BY <2>1, <2>4
  <2> QED
    BY <1>8, <2>1, <2>2, <2>3, <2>4, <2>5 DEF JobOK
<1>12. \A k \in DOMAIN jobs' : JobOK(k)'
  BY <1>7, <1>10, <1>11
<1>13. OneCatalog'
  <2>1. \A k \in Of(jobs', "catalog") : k \in Of(jobs, "catalog") /\ jobs'[k].gen = jobs[k].gen
    BY <1>7, <1>9 DEF Of, Same
  <2>2. \A k \in Catalogs' : k \in Catalogs
    BY <1>7, <1>9 DEF Catalogs, Of, Same
  <2> QED
    BY <2>1, <2>2 DEF OneCatalog, PagesInv, LedgerOK
<1>14. LedgerOK'
  BY <1>8, <1>12, <1>13 DEF LedgerOK
<1>15. \A k \in DOMAIN jobs : jobs[k].kind = "view" => jobs'[k].rows = jobs[k].rows
  BY <1>4, <1>6
<1>16. WorkersOK'
  BY <1>2, <1>8, <1>9, <1>15, CrewStays DEF PagesInv
<1> QED
  BY <1>2, <1>14, <1>16 DEF PagesInv

\* A step that changes no job, and no favourite.
LEMMA KeptPages ==
  ASSUME PagesInv, UNCHANGED <<jobs, worker, holder, raced>>, Library', Onward, FavsStay
  PROVE  PagesInv'
<1>1. Listed(jobs) /\ Library /\ LedgerOK /\ WorkersOK
  BY DEF PagesInv, LedgerOK
<1>2. MovesAt(0, jobs') /\ RacedBut(0)
  BY <1>1, SelfMoves DEF RacedBut
<1>3. LedgerOK'
  BY <1>1, <1>2, AloofKeeps
<1>4. Listed(jobs)' /\ Len(jobs') = Len(jobs)
  BY <1>1
<1>5. \A k \in DOMAIN jobs :
        /\ Same(jobs[k], jobs'[k])
        /\ jobs[k].kind \in Whole \union {"junk"} => jobs'[k].row = jobs[k].row /\ jobs'[k].status = jobs[k].status
        /\ jobs[k].kind = "view" => jobs'[k].rows = jobs[k].rows
  BY DEF Same
<1>6. WorkersOK'
  BY <1>1, <1>4, <1>5, CrewStays
<1> QED
  BY <1>3, <1>6 DEF PagesInv

LEMMA DecisionsMove ==
  ASSUME Library, NEW c \in Client, NEW to, DecidedOK(c, to),
         decisions' = [e \in Asset |-> IF e \in DOMAIN to THEN to[e] ELSE decisions[e]]
  PROVE  /\ decisions' \in [Asset -> Decision]
         /\ \A e \in Asset : IF e \in DOMAIN to THEN decisions'[e] = to[e] /\ decisions'[e].rev = decisions[e].rev + 1
                                                ELSE decisions'[e] = decisions[e]
<1>1. \A e \in DOMAIN to : to[e] \in Decision /\ to[e].rev = decisions[e].rev + 1
  BY DEF DecidedOK
<1>2. \A e \in Asset : decisions[e] \in Decision
  BY DEF Library
<1>3. \A e \in Asset : (IF e \in DOMAIN to THEN to[e] ELSE decisions[e]) \in Decision
  BY <1>1, <1>2
<1> QED
  BY <1>1, <1>3

LEMMA DecidePages ==
  ASSUME PagesInv, EventsOK, NEW c \in Client, SeatOK(c), client[c].at = "sent", Allowed(c), Decides(c), Decide(c),
         generation' = generation + 1, UNCHANGED <<worker, holder, verified, entities>>
  PROVE  PagesInv'
<1> PICK do : do = Request(c).do
  OBVIOUS
<1> PICK to : to = Decided(c)
  OBVIOUS
<1> PICK turned : turned = {e \in DOMAIN to : to[e].fav # decisions[e].fav}
  OBVIOUS
<1>1. DecidedOK(c, to) /\ Library
  BY DecidedIs DEF PagesInv
<1>2. /\ decisions' = [e \in Asset |-> IF e \in DOMAIN to THEN to[e] ELSE decisions[e]]
      /\ IF do \in {"favour", "unfavour"} /\ turned # {}
         THEN /\ jobs' = Refresh(The(turned), to[The(turned)].fav)
              /\ raced' = raced \ {<<i, The(turned)>> : i \in Judged(The(turned))}
         ELSE UNCHANGED <<jobs, raced>>
  BY DEF Decide
<1>3. /\ decisions' \in [Asset -> Decision]
      /\ \A e \in Asset : IF e \in DOMAIN to THEN decisions'[e] = to[e] ELSE decisions'[e] = decisions[e]
  BY <1>1, <1>2, DecisionsMove
<1>4. Library' /\ Onward
  BY <1>1, <1>3 DEF Library, Onward
<1>5. CASE do \in {"favour", "unfavour"} /\ turned # {}
  <2>1. PICK x \in Asset : DOMAIN to = {x}
    BY <1>1, <1>5 DEF DecidedOK
  <2>2. turned = {x}
    BY <1>5, <2>1
  <2>3. The(turned) = x
    BY <2>2, TheIsIn
  <2> PICK y : y = to[x]
    OBVIOUS
  <2>4. y \in Decision
    BY <1>1, <2>1 DEF DecidedOK
  <2>5. decisions' = [e \in Asset |-> IF e = x THEN y ELSE decisions[e]]
    BY <1>2, <2>1
  <2>6. jobs' = Refresh(x, y.fav) /\ raced' = raced \ {<<i, x>> : i \in Judged(x)}
    BY <1>2, <1>5, <2>3
  <2> QED
    BY <2>4, <2>5, <2>6, RefreshPages
<1>6. CASE ~(do \in {"favour", "unfavour"} /\ turned # {})
  <2>1. UNCHANGED <<jobs, raced>>
    BY <1>2, <1>6
  <2>2. \A e \in DOMAIN to : to[e].fav = decisions[e].fav
    BY <1>1, <1>6 DEF DecidedOK
  <2>3. FavsStay
    BY <1>3, <2>2 DEF FavsStay
  <2> QED
    BY <1>4, <2>1, <2>3, KeptPages
<1> QED
  BY <1>5, <1>6

LEMMA AcceptPages ==
  ASSUME PagesInv, EventsOK, NEW c \in Client, SeatOK(c), Accept(c)
  PROVE  PagesInv'
<1>1. /\ client[c].at = "sent" /\ Allowed(c) /\ generation' = generation + 1
      /\ IF Decides(c) THEN Decide(c) ELSE Enqueue(c) /\ UNCHANGED <<decisions, events, raced>>
      /\ UNCHANGED <<worker, holder, verified, entities, inputs>>
  BY DEF Accept, Advanced
<1>2. CASE Decides(c)
  BY <1>1, <1>2, DecidePages
<1>3. CASE ~Decides(c)
  BY <1>1, <1>3, EnqueuePages
<1> QED
  BY <1>2, <1>3

LEMMA QuietPages ==
  ASSUME PagesInv, UNCHANGED <<jobs, worker, holder, library>>
  PROVE  PagesInv'
<1>1. Library' /\ Onward /\ FavsStay
  BY StandStill DEF PagesInv
<1> QED
  BY <1>1, KeptPages DEF library

LEMMA ImportPages ==
  ASSUME PagesInv, Import
  PROVE  PagesInv'
<1>1. UNCHANGED <<jobs, worker, holder, raced, entities, decisions, generation>> /\ verified' \subseteq Asset
  BY DEF Import, PagesInv, Library
<1>2. Library' /\ Onward /\ FavsStay
  BY <1>1 DEF PagesInv, Library, Onward, FavsStay
<1> QED
  BY <1>1, <1>2, KeptPages

LEMMA VisitAsks ==
  ASSUME PagesInv, Visit
  PROVE  Asks(jobs')
<1>1. Listed(jobs) /\ LedgerOK
  BY DEF PagesInv, LedgerOK
<1>2. ASSUME NEW q \in Query
      PROVE  Asks(ViewPage(q))
  <2> PICK key : key = <<q, generation>>
    OBVIOUS
  <2>1. key[2] = generation
    OBVIOUS
  <2>2. Asks(Profile(jobs, "view", key, Catalog).jobs)
    BY <1>1, <2>1, ProfileAsks
  <2> QED
    BY <2>2 DEF ViewPage
<1>3. Asks(OrganizationStatus)
  BY <1>1, OrganizationAsks DEF OrganizationStatus
<1>4. Asks(jobs)
  BY <1>1, SelfAsks
<1>5. Asks(StackProfile(jobs, "default").jobs) /\ Asks(JunkProfile(jobs, DefaultJunk).jobs)
  BY <1>1, ProfileAsks DEF StackProfile, JunkProfile
<1>6. Asks(StackStatus) /\ Asks(JunkStatus)
  BY <1>4, <1>5 DEF StackStatus, JunkStatus
<1>7. Asks(FirstCatalog)
  BY <1>1, <1>4, NewCatalogAsks DEF FirstCatalog
<1> QED
  BY <1>2, <1>3, <1>6, <1>7 DEF Visit

LEMMA VisitPages ==
  ASSUME PagesInv, Visit
  PROVE  PagesInv'
<1>1. Asks(jobs')
  BY VisitAsks
<1>2. UNCHANGED <<worker, holder, entities, decisions, raced, generation, verified>>
  BY DEF Visit, library
<1>3. verified' \subseteq Asset
  BY <1>2 DEF PagesInv, Library
<1> QED
  BY <1>1, <1>2, <1>3, DeskAskStep

LEMMA WorkPages ==
  ASSUME PagesInv, Undecided, NEW w \in Worker, Work(w)
  PROVE  PagesInv'
<1>1. (Recover(w) \/ NextJob(w) \/ Begin(w)) /\ UNCHANGED library => PagesInv'
  BY RecoverPages, NextJobPages, BeginPages
<1>2. BeginCatalog(w) \/ FinishCatalog(w) \/ BeginView(w) \/ BatchView(w) \/ FinishView(w) => PagesInv'
  BY BeginCatalogPages, FinishCatalogPages, BeginViewPages, BatchViewPages, FinishViewPages
<1>3. RunOrganization(w) \/ BeginStacks(w) \/ BatchStacks(w) \/ BuildStacks(w) \/ FinishStacks(w) => PagesInv'
  BY RunOrganizationPages, BeginStacksPages, BatchStacksPages, BuildStacksPages, FinishStacksPages
<1>4. SignalJunk(w) \/ ReadJunk(w) \/ WriteJunk(w) \/ CompleteJunk(w) \/ RunCalibration(w) => PagesInv'
  BY SignalJunkPages, ReadJunkPages, WriteJunkPages, CompleteJunkPages, RunCalibrationPages
<1>5. GiveUp(w) \/ Advance(w) \/ AdvanceAssets(w) \/ Save(w) \/ Preprocess(w) => PagesInv'
  BY GiveUpPages, AdvancePages, AdvanceAssetsPages, SavePages, PreprocessPages
<1> QED
  BY <1>1, <1>2, <1>3, <1>4, <1>5 DEF Work

LEMMA PagesStep ==
  ASSUME PagesInv, DeskInv, [Next]_vars
  PROVE  PagesInv'
<1>1. Undecided /\ EventsOK /\ \A c \in Client : SeatOK(c)
  BY DEF DeskInv
<1>2. ASSUME NEW w \in Worker, (Wake(w) \/ Fail(w) \/ Kill(w)) /\ UNCHANGED <<library, desk>>
      PROVE  PagesInv'
  BY <1>2, WakePages, FailPages, KillPages
<1>3. ASSUME NEW w \in Worker, Work(w)
      PROVE  PagesInv'
  BY <1>1, <1>3, WorkPages
<1>4. ASSUME NEW c \in Client, Look(c) \/ Send(c) \/ Replay(c) \/ Refuse(c) \/ Forget(c)
      PROVE  PagesInv'
  <2>1. UNCHANGED <<jobs, worker, holder, library>>
    BY <1>4 DEF Look, Send, Replay, Refuse, Forget, ledger
  <2> QED
    BY <2>1, QuietPages
<1>5. ASSUME NEW c \in Client, Accept(c)
      PROVE  PagesInv'
  BY <1>1, <1>5, AcceptPages
<1>6. CASE UNCHANGED vars
  BY <1>6, QuietPages DEF vars, ledger
<1> QED
  BY <1>2, <1>3, <1>4, <1>5, <1>6, VisitPages, ImportPages DEF Next

-----------------------------------------------------------------------------
(* At first.                                                               *)

LEMMA Joined ==
  ASSUME NEW S, NEW T, NEW a \in Seq(S), NEW b \in Seq(T)
  PROVE  /\ a \o b \in Seq(S \union T)
         /\ \A i \in DOMAIN (a \o b) : (i \in DOMAIN a /\ (a \o b)[i] = a[i]) \/ (a \o b)[i] \in T
<1>1. a \in Seq(S \union T) /\ b \in Seq(S \union T)
  <2>1. /\ a \in [1..Len(a) -> S] /\ b \in [1..Len(b) -> T] /\ Len(a) \in Nat /\ Len(b) \in Nat
    BY LenProperties
  <2>2. a \in [1..Len(a) -> S \union T] /\ b \in [1..Len(b) -> S \union T]
    BY <2>1
  <2> QED
    BY <2>1, <2>2, SeqDef
<1> PICK U : U = S \union T
  OBVIOUS
<1>2. a \in Seq(U) /\ b \in Seq(U)
  BY <1>1
<1>3. /\ a \o b \in Seq(U) /\ Len(a \o b) = Len(a) + Len(b)
      /\ \A i \in 1..(Len(a) + Len(b)) : (a \o b)[i] = IF i <= Len(a) THEN a[i] ELSE b[i - Len(a)]
  BY <1>2, ConcatProperties
<1>4. /\ DOMAIN a = 1..Len(a) /\ Len(a) \in Nat /\ DOMAIN b = 1..Len(b) /\ Len(b) \in Nat
      /\ DOMAIN (a \o b) = 1..(Len(a) + Len(b))
  BY <1>2, <1>3, LenProperties
<1>5. ASSUME NEW i \in DOMAIN (a \o b), i \notin DOMAIN a
      PROVE  (a \o b)[i] \in T
  <2>1. i \in 1..(Len(a) + Len(b)) /\ i > Len(a)
    BY <1>4, <1>5
  <2>2. i - Len(a) \in DOMAIN b /\ (a \o b)[i] = b[i - Len(a)]
    BY <1>3, <1>4, <2>1
  <2>3. b \in [1..Len(b) -> T]
    BY LenProperties
  <2> QED
    BY <1>4, <2>2, <2>3
<1>6. ASSUME NEW i \in DOMAIN (a \o b), i \in DOMAIN a
      PROVE  (a \o b)[i] = a[i]
  BY <1>3, <1>4, <1>6
<1> QED
  BY <1>3, <1>5, <1>6

LEMMA JoinedBy ==
  ASSUME NEW S, NEW z, NEW a \in Seq(S), NEW b \in Seq({z}), NEW js, js = a \o b, NEW T, T = S \union {z}
  PROVE  js \in Seq(T) /\ \A i \in DOMAIN js : (i \in DOMAIN a /\ js[i] = a[i]) \/ js[i] = z
BY Joined

LEMMA OneOrNone ==
  ASSUME NEW n
  PROVE  <<n>> \in Seq({n}) /\ <<>> \in Seq({n}) /\ Len(<<n>>) <= 1 /\ Len(<<>>) <= 1
OBVIOUS

\* A job that was done before.
Ready0(j, kind, key, rows) ==
    /\ IsJob(j) /\ j.kind = kind /\ j.key = key /\ j.gen = 1 /\ j.status = "completed" /\ j.row = "ready" /\ j.rows = rows
    /\ kind = "junk" => j.tally = Tally(rows)

LEMMA MadeIs ==
  ASSUME NEW kind, NEW key, NEW rows
  PROVE  \E j : Ready0(j, kind, key, rows) /\ Made(kind, key, rows) \in Seq({j}) /\ Len(Made(kind, key, rows)) <= 1
<1> PICK tally : tally = IF kind = "junk" THEN Tally(rows) ELSE <<0, 0>>
  OBVIOUS
<1>1. PICK job : job = Job(kind, key, 1)
  OBVIOUS
<1>2. IsJob(job) /\ job.kind = kind /\ job.key = key /\ job.gen = 1
  BY <1>1, JobIs
<1>3. \A j : IsJob(j) =>
        LET n == [j EXCEPT !.status = "completed", !.attempt = 1, !.row = "ready", !.rows = rows, !.tally = tally]
        IN /\ IsJob(n) /\ n.kind = j.kind /\ n.key = j.key /\ n.gen = j.gen /\ n.status = "completed"
           /\ n.row = "ready" /\ n.rows = rows /\ n.tally = tally
  BY DEF IsJob, JobFields
<1>4. PICK n : n = [job EXCEPT !.status = "completed", !.attempt = 1, !.row = "ready", !.rows = rows, !.tally = tally]
  OBVIOUS
<1>5. Ready0(n, kind, key, rows)
  BY <1>2, <1>3, <1>4 DEF Ready0
<1>6. Made(kind, key, rows) = IF kind \in budget.made THEN <<n>> ELSE <<>>
  BY <1>1, <1>4 DEF Made
<1>7. Made(kind, key, rows) \in Seq({n}) /\ Len(Made(kind, key, rows)) <= 1
  <2>1. Made(kind, key, rows) \in {<<n>>, <<>>}
    BY <1>6
  <2> QED
    BY <2>1, OneOrNone
<1> QED
  BY <1>5, <1>7

LEMMA FirstJunk ==
  ASSUME NEW S \in SUBSET Asset, NEW rows, rows = {Verdict(DefaultJunk, e, Doubt[e], FALSE) : e \in S}
  PROVE  /\ rows \subseteq JunkVerdict /\ IsFiniteSet(rows)
         /\ \A r, s \in rows : r.e = s.e => r = s
         /\ \A r \in rows : r.shielded = FALSE /\ r.hidden = (r.agrees /\ ~r.shielded)
<1>1. IsFiniteSet(S)
  BY FS_Subset, StagesAssumption
<1>2. IsFiniteSet(rows)
  <2> DEFINE g == [e \in S |-> Verdict(DefaultJunk, e, Doubt[e], FALSE)]
  <2>1. rows = {g[e] : e \in S}
    OBVIOUS
  <2>2. g \in Surjection(S, rows)
    BY <2>1 DEF Surjection
  <2> HIDE DEF g
  <2> QED
    BY <1>1, <2>2, FS_Surjection
<1>3. ASSUME NEW r \in rows
      PROVE  /\ r \in JunkVerdict /\ r = Verdict(DefaultJunk, r.e, Doubt[r.e], FALSE)
             /\ r.shielded = FALSE /\ r.hidden = (r.agrees /\ ~r.shielded)
  <2>1. PICK e \in S : r = Verdict(DefaultJunk, e, Doubt[e], FALSE)
    OBVIOUS
  <2> PICK weight : weight = Doubt[e]
    OBVIOUS
  <2> PICK key : key = DefaultJunk
    OBVIOUS
  <2> PICK fav : fav = FALSE
    OBVIOUS
  <2>2. r = Verdict(key, e, weight, fav)
    BY <2>1
  <2>3. /\ r.e = e /\ r.agrees \in BOOLEAN /\ r.shielded \in BOOLEAN /\ r.hidden \in BOOLEAN
        /\ r.shielded = (fav /\ key[2] /\ r.agrees) /\ r.hidden = (r.agrees /\ ~r.shielded)
        /\ r = [e |-> r.e, agrees |-> r.agrees, hidden |-> r.hidden, shielded |-> r.shielded]
    BY <2>2, VerdictIs
  <2>4. r.shielded = FALSE
    BY <2>3, Zenon
  <2>5. r \in JunkVerdict
    BY <2>3 DEF JunkVerdict
  <2> QED
    BY <2>1, <2>3, <2>4, <2>5, Zenon
<1> QED
  BY <1>2, <1>3

LEMMA InitJobs ==
  ASSUME Init
  PROVE  /\ Listed(jobs)
         /\ \A i \in DOMAIN jobs :
              \/ i = 1 /\ Ready0(jobs[i], "catalog", <<>>, First)
              \/ Ready0(jobs[i], "stacks", <<"default">>, Stacks("default", First))
              \/ Ready0(jobs[i], "junk", DefaultJunk, {Verdict(DefaultJunk, e, Doubt[e], FALSE) : e \in First})
              \/ IsJob(jobs[i]) /\ jobs[i].kind = "backfill"
<1>30. PICK stacks : stacks = Stacks("default", First)
  OBVIOUS
<1>31. PICK junk : junk = {Verdict(DefaultJunk, e, Doubt[e], FALSE) : e \in First}
  OBVIOUS
<1>32. PICK a : a = Made("catalog", <<>>, First)
  OBVIOUS
<1>33. PICK b : b = Made("stacks", <<"default">>, stacks)
  OBVIOUS
<1>34. PICK d : d = Made("junk", DefaultJunk, junk)
  OBVIOUS
<1>35. PICK f : f = IF "backfill" \in budget.made THEN <<NewBackfill>> ELSE <<>>
  OBVIOUS
<1>1. jobs = ((a \o b) \o d) \o f
  BY <1>30, <1>31, <1>32, <1>33, <1>34, <1>35 DEF Init
<1>2. PICK x : Ready0(x, "catalog", <<>>, First) /\ a \in Seq({x}) /\ Len(a) <= 1
  BY <1>32, MadeIs
<1>3. PICK y : Ready0(y, "stacks", <<"default">>, stacks) /\ b \in Seq({y})
  BY <1>33, MadeIs
<1>4. PICK z : Ready0(z, "junk", DefaultJunk, junk) /\ d \in Seq({z})
  BY <1>34, MadeIs
<1>5. PICK v : IsJob(v) /\ v.kind = "backfill" /\ f \in Seq({v})
  <2>1. \A j : IsJob(j) => LET n == [j EXCEPT !.plan.owed = verified]
                           IN IsJob(n) /\ n.kind = j.kind
    BY DEF IsJob, JobFields
  <2>2. IsJob(NewBackfill) /\ NewBackfill.kind = "backfill"
    BY <2>1, JobIs DEF NewBackfill
  <2> PICK n : n = NewBackfill
    OBVIOUS
  <2>3. f = IF "backfill" \in budget.made THEN <<n>> ELSE <<>>
    BY <1>35
  <2>4. f \in Seq({n})
    BY <2>3, OneOrNone, Zenon
  <2> QED
    BY <2>2, <2>4
<1>20. PICK S : S = {x} \union {y}
  OBVIOUS
<1>21. PICK T : T = S \union {z}
  OBVIOUS
<1>22. PICK U : U = T \union {v}
  OBVIOUS
<1>23. PICK ab : ab = a \o b
  OBVIOUS
<1>24. PICK abd : abd = ab \o d
  OBVIOUS
<1>6. ab \in Seq(S) /\ \A i \in DOMAIN ab : (i \in DOMAIN a /\ ab[i] = a[i]) \/ ab[i] = y
  BY <1>2, <1>3, <1>20, <1>23, JoinedBy
<1>7. abd \in Seq(T) /\ \A i \in DOMAIN abd : (i \in DOMAIN ab /\ abd[i] = ab[i]) \/ abd[i] = z
  BY <1>4, <1>6, <1>21, <1>24, JoinedBy
<1>8. jobs = abd \o f
  BY <1>1, <1>23, <1>24
<1>9. jobs \in Seq(U) /\ \A i \in DOMAIN jobs : (i \in DOMAIN abd /\ jobs[i] = abd[i]) \/ jobs[i] = v
  BY <1>5, <1>7, <1>8, <1>22, JoinedBy
<1>10. \A i \in DOMAIN a : i = 1 /\ a[i] = x
  <2>1. a \in [1..Len(a) -> {x}] /\ Len(a) \in Nat
    BY <1>2, LenProperties
  <2> QED
    BY <1>2, <2>1
<1>11. ASSUME NEW i \in DOMAIN jobs
       PROVE  (i = 1 /\ jobs[i] = x) \/ jobs[i] \in {y, z, v}
  <2>1. i \in DOMAIN abd => (i \in DOMAIN ab /\ abd[i] = ab[i]) \/ abd[i] = z
    BY <1>7, Zenon
  <2>2. i \in DOMAIN ab => (i \in DOMAIN a /\ ab[i] = a[i]) \/ ab[i] = y
    BY <1>6, Zenon
  <2>3. i \in DOMAIN a => i = 1 /\ a[i] = x
    BY <1>10
  <2> QED
    BY <1>9, <2>1, <2>2, <2>3
<1>12. Listed(jobs)
  <2>1. \A j \in U : IsJob(j)
    BY <1>2, <1>3, <1>4, <1>5, <1>20, <1>21, <1>22 DEF Ready0
  <2> QED
    BY <1>9, <2>1, SeqIsListed
<1> QED
  BY <1>2, <1>3, <1>4, <1>5, <1>11, <1>12, <1>30, <1>31

LEMMA InitPages ==
  ASSUME Init
  PROVE  PagesInv
<1>1. /\ verified \subseteq Asset /\ First \subseteq Asset /\ generation = 1 /\ raced = {}
      /\ decisions = [e \in Asset |-> [fav |-> FALSE, rej |-> FALSE, rev |-> IF e \in First THEN 1 ELSE 0]]
  <2>1. budget \in World /\ verified = budget.verified
    BY DeskAssumption DEF Init
  <2>2. verified \subseteq Asset
    BY <2>1 DEF World
  <2> QED
    BY <2>2 DEF Init, First, Anchors
<1>2. Library
  BY <1>1 DEF Library, Decision
<1>3. Listed(jobs) /\ Len(jobs) \in Nat /\ DOMAIN jobs = 1..Len(jobs)
  BY InitJobs, ListedIs
<1> PICK junk : junk = {Verdict(DefaultJunk, e, Doubt[e], FALSE) : e \in First}
  OBVIOUS
<1> PICK stacks : stacks = Stacks("default", First)
  OBVIOUS
<1>4. \A i \in DOMAIN jobs :
        \/ i = 1 /\ Ready0(jobs[i], "catalog", <<>>, First)
        \/ Ready0(jobs[i], "stacks", <<"default">>, stacks)
        \/ Ready0(jobs[i], "junk", DefaultJunk, junk)
        \/ IsJob(jobs[i]) /\ jobs[i].kind = "backfill"
  BY InitJobs
<1>5. OneCatalog
  BY <1>4 DEF OneCatalog, Catalogs, Of, Ready0
<1>6. ASSUME NEW i \in DOMAIN jobs
      PROVE  JobOK(i)
  <2>1. CASE i = 1 /\ Ready0(jobs[i], "catalog", <<>>, First)
    BY <1>3, <2>1 DEF JobOK, Ready0, Whole
  <2>2. CASE Ready0(jobs[i], "stacks", <<"default">>, stacks)
    <3>1. stacks \subseteq Stack
      <4>1. \A b \in Alike("default", First) : b \in (SUBSET Asset) \ {{}}
        BY <1>1 DEF Alike
      <4>2. \A b \in Alike("default", First) : Ranked(b) \in Cover
        BY <4>1 DEF Cover
      <4> QED
        BY <4>1, <4>2 DEF Stacks, Stack
    <3> QED
      BY <2>2, <3>1 DEF JobOK, Ready0, Whole
  <2>3. CASE Ready0(jobs[i], "junk", DefaultJunk, junk)
    <3>1. /\ junk \subseteq JunkVerdict /\ IsFiniteSet(junk)
          /\ \A r, s \in junk : r.e = s.e => r = s
          /\ \A r \in junk : r.shielded = FALSE /\ r.hidden = (r.agrees /\ ~r.shielded)
      BY <1>1, FirstJunk
    <3>2. \A r \in junk : decisions[r.e].fav = FALSE
      BY <1>1, <3>1 DEF JunkVerdict
    <3>3. jobs[i].rows = junk /\ jobs[i].tally = Tally(junk) /\ jobs[i].kind = "junk"
      BY <2>3 DEF Ready0
    <3>4. ASSUME NEW r \in junk
          PROVE  /\ r.shielded = (decisions[r.e].fav /\ jobs[i].key[2] /\ r.agrees)
                 /\ r.hidden = (r.agrees /\ ~r.shielded)
      BY <3>1, <3>2, Zenon
    <3>5. Judges(i)
      BY <3>1, <3>3, <3>4 DEF Judges
    <3> QED
      BY <3>3, <3>5 DEF JobOK, Whole
  <2>4. CASE jobs[i].kind = "backfill"
    BY <2>4 DEF JobOK, Whole
  <2> QED
    BY <1>4, <2>1, <2>2, <2>3, <2>4
<1>7. WorkersOK
  <2>1. DOMAIN worker = Worker /\ \A w \in Worker : worker[w] = Idle \/ worker[w] = Down
    BY DEF Init
  <2> QED
    BY <2>1 DEF WorkersOK, WorkOK, Idle, Down, Places, Working
<1> QED
  BY <1>2, <1>3, <1>5, <1>6, <1>7 DEF PagesInv, LedgerOK

-----------------------------------------------------------------------------
(* The desk from step to step.                                             *)

Bounds == {"ask", "lost", "get", "kill", "fail", "import"}

LEMMA SpendIs ==
  ASSUME budget \in World, NEW what \in Bounds, Spend(what)
  PROVE  /\ budget' \in World /\ budget'.ask <= budget.ask
         /\ what = "ask" => budget.ask \in Nat /\ budget.ask > budget'.ask
<1>1. budget[what] > 0 /\ budget' = [budget EXCEPT ![what] = budget[what] - 1]
  BY DEF Spend
<1>2. /\ budget.ask \in Nat /\ budget.lost \in Nat /\ budget.get \in Nat /\ budget.kill \in Nat
      /\ budget.fail \in Nat /\ budget.import \in Nat
  BY DEF World
<1>3. budget[what] \in Nat /\ budget[what] - 1 \in Nat
  BY <1>1, <1>2 DEF Bounds
<1> PICK n \in Nat : n = budget[what] - 1
  BY <1>3
<1>4. budget' = [budget EXCEPT ![what] = n]
  BY <1>1
<1>5. budget' \in World
  BY <1>4 DEF World, Bounds
<1>6. budget'.ask = IF what = "ask" THEN n ELSE budget.ask
  BY <1>4 DEF World
<1> QED
  BY <1>1, <1>2, <1>3, <1>5, <1>6

\* A decision stays or moves on.
Grows == \A e \in Asset : decisions'[e] = decisions[e] \/ decisions'[e].rev > decisions[e].rev

LEMMA SawStays ==
  ASSUME decisions \in [Asset -> Decision], decisions' \in [Asset -> Decision], Grows,
         NEW rows \in [Asset -> Decision], Saw(rows)
  PROVE  Saw(rows)'
<1>1. ASSUME NEW e \in Asset
      PROVE  /\ rows[e].rev <= decisions'[e].rev
             /\ rows[e].rev = decisions'[e].rev => rows[e] = decisions'[e]
  <2>1. /\ rows[e].rev \in Nat /\ decisions[e].rev \in Nat /\ decisions'[e].rev \in Nat
        /\ rows[e].rev <= decisions[e].rev
    BY DEF Decision, Saw
  <2>2. CASE decisions'[e] = decisions[e]
    BY <2>2 DEF Saw
  <2>3. CASE decisions'[e].rev > decisions[e].rev
    BY <2>1, <2>3
  <2> QED
    BY <2>2, <2>3 DEF Grows
<1> QED
  BY <1>1 DEF Saw

LEMMA SeatStays ==
  ASSUME decisions \in [Asset -> Decision], decisions' \in [Asset -> Decision], Grows, NEW c \in Client, SeatOK(c),
         client'[c] = client[c], budget \in World, budget' \in World, budget'.ask <= budget.ask,
         replies \subseteq replies', client[c].at # "idle" /\ Request(c).key \in replies' => Request(c).key \in replies
  PROVE  SeatOK(c)'
<1> PICK l : l = client[c]
  OBVIOUS
<1>1. l \in Seat /\ Saw(l.rows) /\ l.rows \in [Asset -> Decision] /\ l.req.key \in Nat
  BY DEF SeatOK, Seat
<1>2. Saw(l.rows)'
  BY <1>1, SawStays
<1>3. budget.ask \in Nat /\ budget'.ask \in Nat
  BY DEF World
<1>4. IF l.at = "idle" THEN l.req.key = 0 ELSE l.req.key > budget'.ask
  BY <1>1, <1>3 DEF SeatOK
<1>5. /\ l.at = "looking" => l.req.key \notin replies'
      /\ l.at = "told" => (l.told = "ok") = (l.req.key \in replies')
  BY DEF SeatOK, Request
<1>6. l.at = "sent" => Names(l)'
  <2>1. l.at = "sent" => Names(l)
    BY DEF SeatOK
  <2> QED
    BY <2>1 DEF Names
<1> QED
  BY <1>1, <1>2, <1>4, <1>5, <1>6 DEF SeatOK

\* A step of the ledger, or one that brings a photo in.
LEMMA DeskStays ==
  ASSUME Library, DeskInv, UNCHANGED desk, budget' \in World, budget'.ask <= budget.ask,
         decisions' \in [Asset -> Decision],
         \A e \in Asset : \/ decisions'[e] = decisions[e]
                          \/ decisions[e].rev = 0 /\ decisions'[e] = [fav |-> FALSE, rej |-> FALSE, rev |-> 1]
  PROVE  DeskInv'
<1>1. /\ decisions \in [Asset -> Decision] /\ budget \in World /\ budget.ask \in Nat /\ budget'.ask \in Nat
      /\ \A e \in Asset : decisions[e].rev \in Nat
      /\ events' = events /\ replies' = replies /\ client' = client
  BY DEF Library, DeskInv, Keys, World, desk, Decision
<1>2. Grows
  BY <1>1 DEF Grows
<1>3. ASSUME NEW c \in Client
      PROVE  SeatOK(c)'
  BY <1>1, <1>2, SeatStays DEF DeskInv
<1>4. Undecided'
  BY DEF DeskInv, Undecided
<1>5. Keys'
  BY <1>1 DEF DeskInv, Keys, Request
<1>6. ASSUME NEW v \in events
      PROVE  EventOK(v)'
  <2>1. EventOK(v) /\ v \in Event
    BY DEF DeskInv, EventsOK, EventOK
  <2>2. v.e \in Asset /\ v.after.rev \in Nat /\ v.before.rev \in Nat /\ v.after.rev > 0
    BY <2>1 DEF EventOK, Event, Decision
  <2>3. v.after.rev <= decisions'[v.e].rev
    BY <1>1, <1>2, <2>1, <2>2 DEF EventOK, Grows, Decision
  <2>4. v.after = decisions[v.e] => decisions'[v.e] = decisions[v.e]
    BY <2>2
  <2> QED
    BY <1>1, <2>1, <2>3, <2>4 DEF EventOK
<1>7. \A v, n \in events' : Alone(v, n)'
  BY <1>1 DEF DeskInv, EventsOK, Alone
<1>8. ASSUME NEW e \in Asset
      PROVE  Eventful(e)'
  <2>1. Eventful(e) /\ Past(e)' = Past(e)
    BY <1>1 DEF DeskInv, EventsOK, Past
  <2>2. Cardinality(Past(e)) \in Nat
    BY <2>1, FS_CardinalityType DEF Eventful
  <2>3. decisions'[e] = decisions[e] \/ decisions'[e].rev = 1
    OBVIOUS
  <2> QED
    BY <2>1, <2>2, <2>3 DEF Eventful
<1>9. EventsOK'
  BY <1>1, <1>6, <1>7, <1>8 DEF EventsOK
<1> QED
  BY <1>1, <1>3, <1>4, <1>5, <1>9 DEF DeskInv

LEMMA LedgerDesk ==
  ASSUME Library, DeskInv, UNCHANGED <<desk, decisions>>, budget' = budget \/ \E what \in Bounds : Spend(what)
  PROVE  DeskInv'
<1>1. budget \in World /\ decisions' \in [Asset -> Decision] /\ budget.ask \in Nat
  BY DEF DeskInv, Keys, Library, World
<1>2. budget' \in World /\ budget'.ask <= budget.ask
  BY <1>1, SpendIs
<1> QED
  BY <1>1, <1>2, DeskStays

LEMMA WorkDesk ==
  ASSUME Library, DeskInv, NEW w \in Worker, Work(w), UNCHANGED desk
  PROVE  DeskInv'
<1>1. UNCHANGED budget
  <2>1. Recover(w) \/ NextJob(w) \/ Begin(w) => UNCHANGED budget
    BY DEF Recover, NextJob, Begin
  <2>2. BeginCatalog(w) \/ FinishCatalog(w) \/ BeginView(w) \/ BatchView(w) \/ FinishView(w) => UNCHANGED budget
    BY DEF BeginCatalog, FinishCatalog, BeginView, BatchView, FinishView
  <2>3. RunOrganization(w) \/ BeginStacks(w) \/ BatchStacks(w) \/ BuildStacks(w) \/ FinishStacks(w) => UNCHANGED budget
    BY DEF RunOrganization, BeginStacks, BatchStacks, BuildStacks, FinishStacks
  <2>4. SignalJunk(w) \/ ReadJunk(w) \/ WriteJunk(w) \/ CompleteJunk(w) \/ RunCalibration(w) => UNCHANGED budget
    BY DEF SignalJunk, ReadJunk, WriteJunk, CompleteJunk, RunCalibration
  <2>5. GiveUp(w) \/ Advance(w) \/ AdvanceAssets(w) \/ Save(w) \/ Preprocess(w) => UNCHANGED budget
    BY DEF GiveUp, Advance, AdvanceAssets, Save, Preprocess
  <2> QED
    BY <2>1, <2>2, <2>3, <2>4, <2>5 DEF Work
<1>2. CASE FinishCatalog(w)
  <2>1. decisions' = [e \in Asset |-> IF e \in Anchors /\ decisions[e].rev = 0
                                      THEN [fav |-> FALSE, rej |-> FALSE, rev |-> 1] ELSE decisions[e]]
    BY <1>2 DEF FinishCatalog, KeptDecisions
  <2>2. decisions' \in [Asset -> Decision]
    BY <2>1 DEF Library, Decision
  <2>3. budget \in World /\ budget'.ask <= budget.ask
    BY <1>1 DEF DeskInv, Keys, World
  <2> QED
    BY <1>1, <2>1, <2>2, <2>3, DeskStays
<1>3. CASE ~FinishCatalog(w)
  <2>1. (Recover(w) \/ NextJob(w) \/ Begin(w)) /\ UNCHANGED library => UNCHANGED decisions
    BY DEF library
  <2>2. BeginCatalog(w) \/ BeginView(w) \/ BatchView(w) \/ FinishView(w) => UNCHANGED decisions
    BY DEF BeginCatalog, BeginView, BatchView, FinishView, library
  <2>3. RunOrganization(w) \/ BeginStacks(w) \/ BatchStacks(w) \/ BuildStacks(w) \/ FinishStacks(w) => UNCHANGED decisions
    BY DEF RunOrganization, BeginStacks, BatchStacks, BuildStacks, FinishStacks, library
  <2>4. SignalJunk(w) \/ ReadJunk(w) \/ WriteJunk(w) \/ CompleteJunk(w) \/ RunCalibration(w) => UNCHANGED decisions
    BY DEF SignalJunk, ReadJunk, WriteJunk, CompleteJunk, RunCalibration, library
  <2>5. GiveUp(w) \/ Advance(w) \/ AdvanceAssets(w) \/ Save(w) \/ Preprocess(w) => UNCHANGED decisions
    BY DEF GiveUp, Advance, AdvanceAssets, Save, Preprocess, library
  <2>6. UNCHANGED decisions
    BY <1>3, <2>1, <2>2, <2>3, <2>4, <2>5 DEF Work
  <2> QED
    BY <1>1, <2>6, LedgerDesk
<1> QED
  BY <1>2, <1>3

LEMMA LookDesk ==
  ASSUME PagesInv, DeskInv, NEW c \in Client, Look(c)
  PROVE  DeskInv'
<1> PICK n : n = budget.ask
  OBVIOUS
<1>1. PICK i \in {0} \union Served : client' = [client EXCEPT ![c] =
        [Nowhere EXCEPT !.at = "looking", !.rows = decisions, !.of = i, !.req.key = n, !.stacks = StackPage(i)]]
  BY DEF Look
<1>2. /\ client[c].at = "idle" /\ Spend("ask") /\ UNCHANGED <<jobs, library, events, replies>>
      /\ budget \in World /\ DOMAIN client = Client
  BY DEF Look, DeskInv, Keys
<1>3. budget' \in World /\ n \in Nat /\ budget'.ask < n /\ budget'.ask \in Nat
  <2>1. /\ budget' \in World /\ budget'.ask <= budget.ask /\ budget.ask \in Nat /\ budget.ask > budget'.ask
    BY <1>2, SpendIs DEF Bounds
  <2> QED
    BY <2>1 DEF World
<1>4. /\ decisions \in [Asset -> Decision] /\ UNCHANGED <<decisions, events, replies>>
      /\ Grows /\ \A e \in Asset : decisions[e].rev \in Nat
  BY <1>2 DEF PagesInv, Library, library, Grows, Decision
<1>5. i \in Nat /\ StackPage(i) \subseteq Stack
  <2>1. CASE i = 0
    BY <2>1 DEF StackPage
  <2>2. CASE i # 0
    <3>1. i \in DOMAIN jobs /\ jobs[i].kind = "stacks"
      BY <1>1, <2>2 DEF Served, Of
    <3>2. i \in Nat /\ JobOK(i)
      BY <3>1, ListedIs DEF PagesInv, LedgerOK
    <3> QED
      BY <3>1, <3>2, <2>2 DEF JobOK, StackPage
  <2> QED
    BY <2>1, <2>2
<1> PICK S : S = StackPage(i)
  OBVIOUS
<1>6. PICK l : l = [Nowhere EXCEPT !.at = "looking", !.rows = decisions, !.of = i, !.req.key = n, !.stacks = S]
  OBVIOUS
<1>7. /\ l = [at |-> "looking", rows |-> decisions, of |-> i, stacks |-> S, gen |-> 0,
              req |-> [do |-> "nothing", arg |-> {}, key |-> n], told |-> "nothing"]
  BY <1>6 DEF Nowhere, NoRequest
<1>8. client' = [client EXCEPT ![c] = l]
  BY <1>1, <1>6
<1>9. client'[c] = l /\ DOMAIN client' = Client /\ \A d \in Client \ {c} : client'[d] = client[d]
  BY <1>2, <1>8
<1>10. /\ l \in Seat /\ l.at = "looking" /\ l.rows = decisions /\ l.req.key = n
  BY <1>3, <1>4, <1>5, <1>7 DEF Seat
<1>11. n \notin replies /\ \A k \in replies : k \in Nat /\ k > budget'.ask
  <2>1. \A k \in replies : k \in Nat /\ k > n
    BY DEF DeskInv, Keys
  <2> PICK m : m = budget'.ask
    OBVIOUS
  <2>2. m \in Nat /\ n \in Nat /\ m < n
    BY <1>3
  <2>3. \A k \in replies : k > m
    BY <2>1, <2>2
  <2> QED
    BY <1>3, <2>1, <2>3
<1>12. SeatOK(c)'
  <2>1. Saw(l.rows)'
    BY <1>4, <1>10 DEF Saw
  <2> QED
    BY <1>3, <1>4, <1>9, <1>10, <1>11, <2>1 DEF SeatOK
<1>13. ASSUME NEW d \in Client, d # c
       PROVE  SeatOK(d)'
  BY <1>2, <1>3, <1>4, <1>9, <1>13, SeatStays DEF DeskInv
<1>14. ASSUME NEW d \in Client \ {c}, client[d].at # "idle"
       PROVE  client[d].req.key # n
  <2>1. SeatOK(d)
    BY DEF DeskInv
  <2> QED
    BY <1>3, <1>14, <2>1 DEF SeatOK, Seat
<1>15. Keys'
  <2>1. \A d, b \in Client : client'[d].at # "idle" /\ client'[b].at # "idle" /\ client'[d].req.key = client'[b].req.key => d = b
    <3>1. ASSUME NEW d \in Client, NEW b \in Client, client'[d].at # "idle", client'[b].at # "idle",
                 client'[d].req.key = client'[b].req.key
          PROVE  d = b
      <4>1. CASE d # c /\ b # c
        BY <1>9, <3>1, <4>1 DEF DeskInv, Keys, Request
      <4>2. CASE d = c \/ b = c
        BY <1>9, <1>10, <1>14, <3>1, <4>2
      <4> QED
        BY <4>1, <4>2
    <3> QED
      BY <3>1
  <2> QED
    BY <1>3, <1>4, <1>11, <2>1 DEF DeskInv, Keys, Request
<1>16. Undecided' /\ EventsOK'
  BY <1>4 DEF DeskInv, Undecided, EventsOK, EventOK, Alone, Eventful, Past
<1> QED
  BY <1>9, <1>12, <1>13, <1>15, <1>16 DEF DeskInv

\* A step in which client c goes on with its request, or is done with it.
LEMMA SeatMoves ==
  ASSUME Library, DeskInv, NEW c \in Client, NEW l, client' = [client EXCEPT ![c] = l],
         UNCHANGED <<budget, decisions, events, replies>>,
         l.at = "idle" \/ (client[c].at # "idle" /\ l.req.key = client[c].req.key),
         l.at # "idle" => l.req.key \in Nat,
         SeatOK(c)'
  PROVE  DeskInv'
<1>1. /\ decisions \in [Asset -> Decision] /\ Grows /\ budget \in World /\ budget.ask \in Nat
      /\ DOMAIN client = Client
  BY DEF Library, DeskInv, Keys, World, Grows
<1>2. client'[c] = l /\ DOMAIN client' = Client /\ \A d \in Client \ {c} : client'[d] = client[d]
  BY <1>1
<1>3. ASSUME NEW d \in Client, d # c
      PROVE  SeatOK(d)'
  BY <1>1, <1>2, <1>3, SeatStays DEF DeskInv
<1>4. Keys'
  BY <1>1, <1>2 DEF DeskInv, Keys, Request
<1>5. Undecided' /\ EventsOK'
  BY DEF DeskInv, Undecided, EventsOK, EventOK, Alone, Eventful, Past
<1> QED
  BY <1>2, <1>3, <1>4, <1>5 DEF DeskInv

LEMMA ForgetDesk ==
  ASSUME Library, DeskInv, NEW c \in Client, Forget(c)
  PROVE  DeskInv'
<1>1. /\ client' = [client EXCEPT ![c] = Nowhere] /\ UNCHANGED <<budget, decisions, events, replies>>
      /\ DOMAIN client = Client
  BY DEF Forget, ledger, library, DeskInv
<1>2. client'[c] = Nowhere
  BY <1>1
<1>3. /\ Nowhere.at = "idle" /\ Nowhere.req.key = 0
      /\ Nowhere.rows = [e \in Asset |-> [fav |-> FALSE, rej |-> FALSE, rev |-> 0]]
  BY DEF Nowhere, NoRequest
<1>4. Nowhere \in Seat
  BY DEF Nowhere, NoRequest, Seat, Decision
<1>5. Saw(Nowhere.rows)'
  <2>1. ASSUME NEW e \in Asset
        PROVE  /\ decisions[e].rev \in Nat
               /\ decisions[e].rev = 0 => decisions[e] = [fav |-> FALSE, rej |-> FALSE, rev |-> 0]
    <3>1. decisions[e] \in Decision
      BY DEF Library
    <3>2. decisions[e].rev = 0 => decisions[e].fav = FALSE /\ decisions[e].rej = FALSE
      BY <3>1 DEF DeskInv, Undecided, Decision
    <3> QED
      BY <3>1, <3>2 DEF Decision
  <2>2. \A e \in Asset : Nowhere.rows[e] = [fav |-> FALSE, rej |-> FALSE, rev |-> 0]
    BY <1>3
  <2> QED
    BY <1>1, <2>1, <2>2 DEF Saw
<1>6. SeatOK(c)'
  BY <1>2, <1>3, <1>4, <1>5 DEF SeatOK
<1> QED
  BY <1>1, <1>3, <1>6, SeatMoves

LEMMA SendDesk ==
  ASSUME PagesInv, DeskInv, NEW c \in Client, Send(c)
  PROVE  DeskInv'
<1>0. PICK do \in budget.menu : \E arg \in Arguments(c, do) :
        client' = [client EXCEPT ![c] = [client[c] EXCEPT !.at = "sent", !.gen = generation, !.req.do = do, !.req.arg = arg]]
  BY DEF Send
<1>1. PICK arg \in Arguments(c, do) :
        client' = [client EXCEPT ![c] = [client[c] EXCEPT !.at = "sent", !.gen = generation, !.req.do = do, !.req.arg = arg]]
  BY <1>0
<1>2. /\ client[c].at = "looking" /\ UNCHANGED <<budget, decisions, events, replies>> /\ DOMAIN client = Client
      /\ generation \in Nat /\ Library /\ SeatOK(c) /\ budget \in World
  BY DEF Send, ledger, library, DeskInv, Keys, PagesInv, Library
<1>3. do \in Requests
  BY <1>2 DEF World
<1> PICK old : old = client[c]
  OBVIOUS
<1>4. old \in Seat /\ Saw(old.rows) /\ old.req.key > budget.ask /\ old.req.key \notin replies
  BY <1>2 DEF SeatOK
<1>5. /\ arg \in SUBSET Nat
      /\ do \in {"favour", "unfavour", "reject"} => \E e \in Asset : arg = {e}
      /\ do = "bulk" => arg \subseteq Asset
      /\ do \in {"rest", "cover"} => \E s \in old.stacks : arg = s.members
      /\ do = "undo" => \E k \in replies : arg = {k}
      /\ do = "feedback" => \E i \in Nat : arg = {i}
  <2>1. /\ Asset \subseteq Nat /\ replies \subseteq Nat /\ Of(jobs, "junk") \subseteq Nat
        /\ \A s \in old.stacks : s.members \subseteq Asset
    <3>1. DOMAIN jobs \subseteq Nat
      BY ListedIs DEF PagesInv, LedgerOK
    <3>2. \A s \in old.stacks : s.members \subseteq Asset
      BY <1>4 DEF Seat, Stack
    <3> QED
      BY <3>1, <3>2, StagesAssumption DEF DeskInv, Keys, Of
  <2>2. CASE do \in {"favour", "unfavour", "reject"}
    BY <2>1, <2>2 DEF Arguments
  <2>3. CASE do = "bulk"
    BY <2>1, <2>3 DEF Arguments
  <2>4. CASE do \in {"rest", "cover"}
    BY <2>1, <2>4 DEF Arguments
  <2>5. CASE do = "undo"
    BY <2>1, <2>5 DEF Arguments
  <2>6. CASE do = "feedback"
    BY <2>1, <2>6 DEF Arguments
  <2>7. CASE do \in {"catalog", "organization", "stacks", "junk", "start", "restart", "pause", "resume"}
    BY <2>7 DEF Arguments
  <2> QED
    BY <1>3, <2>2, <2>3, <2>4, <2>5, <2>6, <2>7 DEF Requests
<1>6. PICK l : l = [old EXCEPT !.at = "sent", !.gen = generation, !.req.do = do, !.req.arg = arg]
  OBVIOUS
<1>7. /\ l \in Seat /\ l.at = "sent" /\ l.rows = old.rows /\ l.stacks = old.stacks
      /\ l.req.key = old.req.key /\ l.req.do = do /\ l.req.arg = arg
  <2> PICK r : r = [old.req EXCEPT !.do = do, !.arg = arg]
    OBVIOUS
  <2>1. l = [old EXCEPT !.at = "sent", !.gen = generation, !.req = r]
    BY <1>4, <1>6 DEF Seat
  <2>2. old.req \in [do : Requests \union {"nothing"}, arg : SUBSET Nat, key : Nat]
    BY <1>4 DEF Seat
  <2>3. /\ r \in [do : Requests \union {"nothing"}, arg : SUBSET Nat, key : Nat]
        /\ r.do = do /\ r.arg = arg /\ r.key = old.req.key
    BY <1>3, <1>5, <2>2
  <2> QED
    BY <1>2, <1>4, <2>1, <2>3 DEF Seat
<1>8. client' = [client EXCEPT ![c] = l] /\ client'[c] = l
  BY <1>1, <1>2, <1>6
<1>9. Names(l)'
  BY <1>2, <1>3, <1>5, <1>7 DEF Names
<1>10. SeatOK(c)'
  BY <1>2, <1>4, <1>7, <1>8, <1>9 DEF SeatOK, Saw
<1>11. old.req.key \in Nat
  BY <1>4 DEF Seat
<1> QED
  BY <1>2, <1>7, <1>8, <1>10, <1>11, SeatMoves

LEMMA AnsweredIs ==
  ASSUME DeskInv, NEW c \in Client, client[c].at = "sent", NEW what \in {"ok", "refused"}, Answered(c, what)
  PROVE  /\ budget' \in World /\ budget'.ask <= budget.ask
         /\ \/ client' = client
            \/ \E l \in Seat : /\ client' = [client EXCEPT ![c] = l] /\ budget' = budget
                               /\ l.at = "told" /\ l.told = what /\ l.rows = client[c].rows /\ l.req = client[c].req
<1>1. budget \in World /\ SeatOK(c) /\ budget.ask \in Nat
  BY DEF DeskInv, Keys, World
<1>2. CASE Spend("lost") /\ UNCHANGED client
  BY <1>1, <1>2, SpendIs DEF Bounds
<1>3. CASE client' = [client EXCEPT ![c] = [@ EXCEPT !.at = "told", !.told = what]] /\ UNCHANGED budget
  <2>0. PICK old : old = client[c]
    OBVIOUS
  <2>1. PICK l : l = [old EXCEPT !.at = "told", !.told = what]
    OBVIOUS
  <2>2. client' = [client EXCEPT ![c] = l]
    BY <1>3, <2>0, <2>1
  <2>3. old \in Seat
    BY <1>1, <2>0 DEF SeatOK
  <2>4. l \in Seat /\ l.at = "told" /\ l.told = what /\ l.rows = old.rows /\ l.req = old.req
    BY <2>1, <2>3 DEF Seat
  <2> QED
    <3>1. budget' \in World /\ budget'.ask <= budget.ask
      BY <1>1, <1>3
    <3>2. l.rows = client[c].rows /\ l.req = client[c].req
      BY <2>0, <2>4
    <3> QED
      BY <1>3, <2>2, <2>4, <3>1, <3>2, Zenon
<1> QED
  BY <1>2, <1>3 DEF Answered

\* An answer that changes nothing: a replay, or a refusal.
LEMMA AnswerDesk ==
  ASSUME Library, DeskInv, NEW c \in Client, client[c].at = "sent", NEW what \in {"ok", "refused"}, Answered(c, what),
         (what = "ok") = (Request(c).key \in replies), UNCHANGED <<library, events, replies>>
  PROVE  DeskInv'
<1>1. /\ budget' \in World /\ budget'.ask <= budget.ask
      /\ \/ client' = client
         \/ \E l \in Seat : /\ client' = [client EXCEPT ![c] = l] /\ budget' = budget
                            /\ l.at = "told" /\ l.told = what /\ l.rows = client[c].rows /\ l.req = client[c].req
  BY AnsweredIs
<1>2. UNCHANGED decisions /\ decisions' \in [Asset -> Decision] /\ SeatOK(c) /\ DOMAIN client = Client
  BY DEF library, Library, DeskInv
<1>3. CASE client' = client
  BY <1>1, <1>2, <1>3, DeskStays DEF desk
<1>4. CASE client' # client
  <2>1. PICK l \in Seat : /\ client' = [client EXCEPT ![c] = l] /\ budget' = budget
                          /\ l.at = "told" /\ l.told = what /\ l.rows = client[c].rows /\ l.req = client[c].req
    BY <1>1, <1>4
  <2>2. client'[c] = l
    BY <1>2, <2>1
  <2>3. Saw(l.rows)' /\ l.req.key > budget.ask /\ l.req.key \in Nat
    BY <1>2, <2>1 DEF SeatOK, Saw, Seat
  <2>4. (l.told = "ok") = (l.req.key \in replies')
    BY <2>1, Zenon DEF Request
  <2>5. SeatOK(c)'
    BY <2>1, <2>2, <2>3, <2>4 DEF SeatOK
  <2> QED
    BY <1>2, <2>1, <2>3, <2>5, SeatMoves
<1> QED
  BY <1>3, <1>4

-----------------------------------------------------------------------------
(* What is decided is on record.                                           *)

\* The event a decision leaves.
EventOf(c, to, e) ==
    [e |-> e, do |-> Request(c).do, key |-> Request(c).key, before |-> decisions[e], after |-> to[e],
     undoes |-> IF Request(c).do = "undo" THEN The(Request(c).arg) ELSE 0]

LEMMA EventOfIs ==
  ASSUME Library, DeskInv, NEW c \in Client, client[c].at = "sent", Request(c).key \notin replies, Allowed(c),
         NEW to, DecidedOK(c, to), NEW e \in DOMAIN to, NEW n, n = EventOf(c, to, e)
  PROVE  /\ n \in Event /\ n.e = e /\ n.key = Request(c).key /\ n.before = decisions[e] /\ n.after = to[e]
         /\ n.after.rev = n.before.rev + 1
         /\ n.do \in {"bulk", "rest"} => n.after.fav = n.before.fav
         /\ n.undoes # 0 => \A v \in events : v.undoes # n.undoes
<1> PICK undoes : undoes = IF Request(c).do = "undo" THEN The(Request(c).arg) ELSE 0
  OBVIOUS
<1>1. /\ n.e = e /\ n.key = Request(c).key /\ n.before = decisions[e] /\ n.after = to[e]
      /\ n.do = Request(c).do /\ n.undoes = undoes
      /\ n = [e |-> n.e, do |-> n.do, key |-> n.key, before |-> n.before, after |-> n.after, undoes |-> n.undoes]
  BY DEF EventOf
<1>2. Names(client[c]) /\ client[c] \in Seat /\ replies \subseteq Nat
  BY DEF DeskInv, SeatOK, Keys
<1>3. Request(c).do \in Requests /\ Request(c).key \in Nat
  BY <1>2 DEF Names, Request, Seat
<1>4. /\ e \in Asset /\ to[e] \in Decision /\ decisions[e] \in Decision /\ to[e].rev = decisions[e].rev + 1
      /\ Request(c).do \notin {"favour", "unfavour"} => to[e].fav = decisions[e].fav
  BY DEF DecidedOK, Library
<1>5. undoes \in Nat /\ (undoes # 0 => \A v \in events : v.undoes # undoes)
  <2>1. CASE Request(c).do = "undo"
    <3>1. PICK k \in replies : Request(c).arg = {k}
      BY <1>2, <2>1 DEF Names, Request
    <3>2. undoes = k
      BY <2>1, <3>1, TheIsIn
    <3>3. ~\E v \in events : v.undoes \in Request(c).arg
      BY <2>1 DEF Allowed
    <3> QED
      BY <1>2, <3>1, <3>2, <3>3
  <2>2. CASE Request(c).do # "undo"
    BY <2>2
  <2> QED
    BY <2>1, <2>2
<1>6. n \in Event
  BY <1>1, <1>3, <1>4, <1>5 DEF Event
<1> QED
  BY <1>1, <1>4, <1>5, <1>6

LEMMA EventsGrow ==
  ASSUME Library, DeskInv, NEW c \in Client, client[c].at = "sent", Request(c).key \notin replies, Allowed(c),
         NEW to, DecidedOK(c, to),
         decisions' = [e \in Asset |-> IF e \in DOMAIN to THEN to[e] ELSE decisions[e]],
         events' = events \union {EventOf(c, to, e) : e \in DOMAIN to},
         replies' = replies \union {Request(c).key}
  PROVE  EventsOK'
<1> PICK key : key = Request(c).key
  OBVIOUS
<1>1. /\ \A e \in Asset : IF e \in DOMAIN to THEN decisions'[e] = to[e] /\ decisions'[e].rev = decisions[e].rev + 1
                                             ELSE decisions'[e] = decisions[e]
      /\ DOMAIN to \subseteq Asset
      /\ \A e \in Asset : decisions[e].rev \in Nat
  BY DecisionsMove DEF DecidedOK, Library, Decision
<1> PICK new : new = [e \in DOMAIN to |-> EventOf(c, to, e)]
  OBVIOUS
<1>2. \A e \in DOMAIN to :
        /\ new[e] \in Event /\ new[e].e = e /\ new[e].key = key /\ new[e].before = decisions[e] /\ new[e].after = to[e]
        /\ new[e].after.rev = new[e].before.rev + 1
        /\ new[e].do \in {"bulk", "rest"} => new[e].after.fav = new[e].before.fav
        /\ new[e].undoes # 0 => \A v \in events : v.undoes # new[e].undoes
  <2>1. ASSUME NEW e \in DOMAIN to
        PROVE  /\ new[e] \in Event /\ new[e].e = e /\ new[e].key = key /\ new[e].before = decisions[e] /\ new[e].after = to[e]
               /\ new[e].after.rev = new[e].before.rev + 1
               /\ new[e].do \in {"bulk", "rest"} => new[e].after.fav = new[e].before.fav
               /\ new[e].undoes # 0 => \A v \in events : v.undoes # new[e].undoes
    <3> PICK n : n = EventOf(c, to, e)
      OBVIOUS
    <3>1. /\ n \in Event /\ n.e = e /\ n.key = Request(c).key /\ n.before = decisions[e] /\ n.after = to[e]
          /\ n.after.rev = n.before.rev + 1
          /\ n.do \in {"bulk", "rest"} => n.after.fav = n.before.fav
          /\ n.undoes # 0 => \A v \in events : v.undoes # n.undoes
      BY EventOfIs
    <3>2. new[e] = n
      OBVIOUS
    <3> QED
      BY <3>1, <3>2
  <2> QED
    BY <2>1
<1>3. events' = events \union {new[e] : e \in DOMAIN to}
  OBVIOUS
<1>4. /\ \A v \in events : EventOK(v) /\ v \in Event /\ v.e \in Asset /\ v.key \in replies /\ v.key # key
      /\ \A v, n \in events : Alone(v, n)
      /\ \A e \in Asset : Eventful(e)
  BY DEF DeskInv, EventsOK, EventOK, Event
<1>5. replies' = replies \union {key}
  OBVIOUS
<1> HIDE DEF DeskInv
<1>6. ASSUME NEW v \in events
      PROVE  EventOK(v)'
  <2>1. v.e \in Asset /\ EventOK(v) /\ v \in Event
    BY <1>4
  <2>2. v.after.rev \in Nat /\ v.after.rev <= decisions[v.e].rev
    BY <2>1 DEF EventOK, Event, Decision
  <2>3. v.after.rev <= decisions'[v.e].rev
    BY <1>1, <2>1, <2>2
  <2>4. v.after = decisions'[v.e] \/ \E n \in events' : n.e = v.e /\ n.before = v.after
    <3>1. CASE \E n \in events : n.e = v.e /\ n.before = v.after
      BY <1>3, <3>1
    <3>2. CASE v.after = decisions[v.e] /\ v.e \in DOMAIN to
      <4>1. new[v.e] \in events' /\ new[v.e].e = v.e /\ new[v.e].before = v.after
        BY <1>2, <1>3, <3>2
      <4> QED
        BY <4>1
    <3>3. CASE v.after = decisions[v.e] /\ v.e \notin DOMAIN to
      BY <1>1, <2>1, <3>3
    <3> QED
      BY <2>1, <3>1, <3>2, <3>3 DEF EventOK
  <2>5. /\ v.key \in replies' /\ v.after.rev = v.before.rev + 1
        /\ v.do \in {"bulk", "rest"} => v.after.fav = v.before.fav
    BY <1>5, <2>1 DEF EventOK
  <2> QED
    BY <2>1, <2>3, <2>4, <2>5 DEF EventOK
<1>7. ASSUME NEW e \in DOMAIN to
      PROVE  EventOK(new[e])'
  <2>1. new[e].after = decisions'[e] /\ e \in Asset
    BY <1>1, <1>2
  <2>2. new[e].after.rev <= decisions'[new[e].e].rev
    <3>1. decisions'[e].rev \in Nat
      BY <1>1, <2>1
    <3> QED
      BY <1>2, <2>1, <3>1
  <2> QED
    BY <1>2, <1>5, <2>1, <2>2 DEF EventOK
<1>8. ASSUME NEW v \in events, NEW e \in DOMAIN to
      PROVE  Alone(v, new[e])' /\ Alone(new[e], v)'
  <2>1. v.key # new[e].key /\ (new[e].undoes # 0 => v.undoes # new[e].undoes)
    BY <1>2, <1>4
  <2>2. v.e = new[e].e => v.before.rev # new[e].before.rev
    <3>1. v.after.rev = v.before.rev + 1 /\ v.after.rev <= decisions[v.e].rev /\ v.before.rev \in Nat
      BY <1>4 DEF EventOK, Event, Decision
    <3>2. new[e].before.rev = decisions[e].rev /\ new[e].e = e /\ decisions[e].rev \in Nat
      BY <1>1, <1>2
    <3> QED
      BY <3>1, <3>2
  <2> QED
    BY <2>1, <2>2 DEF Alone
<1>9. ASSUME NEW d \in DOMAIN to, NEW e \in DOMAIN to
      PROVE  Alone(new[d], new[e])'
  BY <1>2 DEF Alone
<1>10. \A v, n \in events' : Alone(v, n)'
  <2>1. ASSUME NEW v \in events', NEW n \in events'
        PROVE  Alone(v, n)'
    <3>1. CASE v \in events /\ n \in events
      BY <1>4, <3>1 DEF Alone
    <3>2. CASE v \in events /\ n \notin events
      BY <1>3, <1>8, <3>2
    <3>3. CASE v \notin events /\ n \in events
      BY <1>3, <1>8, <3>3
    <3>4. CASE v \notin events /\ n \notin events
      BY <1>3, <1>9, <3>4
    <3> QED
      BY <3>1, <3>2, <3>3, <3>4
  <2> QED
    BY <2>1
<1>11. ASSUME NEW e \in Asset
       PROVE  Eventful(e)'
  <2>1. IsFiniteSet(Past(e)) /\ Cardinality(Past(e)) + 1 >= decisions[e].rev /\ Cardinality(Past(e)) \in Nat
    BY <1>4, FS_CardinalityType DEF Eventful
  <2>2. CASE e \in DOMAIN to
    <3>1. Past(e)' = Past(e) \union {new[e]}
      BY <1>2, <1>3, <2>2 DEF Past
    <3>2. new[e] \notin Past(e)
      BY <1>2, <1>4, <2>2 DEF Past
    <3>3. IsFiniteSet(Past(e)') /\ Cardinality(Past(e)') = Cardinality(Past(e)) + 1
      BY <2>1, <3>1, <3>2, FS_AddElement
    <3>4. decisions'[e].rev = decisions[e].rev + 1 /\ decisions[e].rev \in Nat
      BY <1>1, <2>2
    <3> QED
      BY <2>1, <3>3, <3>4 DEF Eventful
  <2>3. CASE e \notin DOMAIN to
    <3>1. Past(e)' = Past(e)
      BY <1>2, <1>3, <2>3 DEF Past
    <3>2. decisions'[e] = decisions[e]
      BY <1>1, <2>3
    <3> QED
      BY <2>1, <3>1, <3>2 DEF Eventful
  <2> QED
    BY <2>2, <2>3
<1>12. \A v \in events' : EventOK(v)'
  BY <1>3, <1>6, <1>7
<1> QED
  BY <1>10, <1>11, <1>12 DEF EventsOK

\* The seats after a request was accepted.
LEMMA SeatsAfter ==
  ASSUME Library, DeskInv, NEW c \in Client, client[c].at = "sent", Answered(c, "ok"),
         replies' = replies \union {Request(c).key}, decisions' \in [Asset -> Decision], Grows
  PROVE  Keys' /\ DOMAIN client' = Client /\ \A d \in Client : SeatOK(d)'
<1>1. /\ budget' \in World /\ budget'.ask <= budget.ask
      /\ \/ client' = client
         \/ \E l \in Seat : /\ client' = [client EXCEPT ![c] = l] /\ budget' = budget
                            /\ l.at = "told" /\ l.told = "ok" /\ l.rows = client[c].rows /\ l.req = client[c].req
  BY AnsweredIs
<1>2. /\ SeatOK(c) /\ DOMAIN client = Client /\ budget \in World /\ decisions \in [Asset -> Decision]
      /\ budget.ask \in Nat /\ budget'.ask \in Nat
  BY <1>1 DEF DeskInv, Keys, Library, World
<1> PICK key : key = client[c].req.key
  OBVIOUS
<1>3. key \in Nat /\ key > budget.ask /\ replies' = replies \union {key} /\ client[c].rows \in [Asset -> Decision]
  BY <1>2 DEF SeatOK, Seat, Request
<1>4. ASSUME NEW d \in Client \ {c}
      PROVE  client[d].at # "idle" => client[d].req.key # key
  BY DEF DeskInv, Keys, Request
<1>5. DOMAIN client' = Client /\ \A d \in Client \ {c} : client'[d] = client[d]
  BY <1>1, <1>2
<1>6. client'[c].at # "idle" /\ client'[c].req = client[c].req
  BY <1>1, <1>2
<1>7. ASSUME NEW d \in Client \ {c}
      PROVE  SeatOK(d)'
  <2>1. client'[d] = client[d] /\ SeatOK(d) /\ d \in Client
    BY <1>5 DEF DeskInv
  <2>2. client[d].at # "idle" /\ Request(d).key \in replies' => Request(d).key \in replies
    BY <1>3, <1>4 DEF Request
  <2> QED
    BY <1>1, <1>2, <1>3, <2>1, <2>2, SeatStays
<1>8. SeatOK(c)'
  <2>1. CASE client' = client
    <3> PICK l : l = client[c]
      OBVIOUS
    <3>1. client'[c] = l /\ l.at = "sent" /\ l \in Seat /\ l.req.key = key /\ Saw(l.rows) /\ Names(l)
      BY <1>2, <2>1 DEF SeatOK
    <3>2. Saw(l.rows)'
      BY <1>2, <1>3, <3>1, SawStays
    <3>3. Names(l)'
      BY <1>3, <3>1 DEF Names
    <3>4. key > budget'.ask
      BY <1>1, <1>2, <1>3
    <3> QED
      BY <3>1, <3>2, <3>3, <3>4 DEF SeatOK
  <2>2. CASE client' # client
    <3>1. PICK l \in Seat : /\ client' = [client EXCEPT ![c] = l] /\ budget' = budget
                            /\ l.at = "told" /\ l.told = "ok" /\ l.rows = client[c].rows /\ l.req = client[c].req
      BY <1>1, <2>2
    <3>2. client'[c] = l
      BY <1>2, <3>1
    <3>3. Saw(l.rows)'
      BY <1>2, <1>3, <3>1, SawStays DEF SeatOK
    <3>4. l.req.key = key /\ key \in replies'
      BY <1>3, <3>1
    <3> QED
      BY <1>3, <3>1, <3>2, <3>3, <3>4 DEF SeatOK
  <2> QED
    BY <2>1, <2>2
<1>9. Keys'
  <2>1. replies' \subseteq Nat /\ \A k \in replies' : k > budget'.ask
    <3>1. replies \subseteq Nat /\ \A k \in replies : k > budget.ask
      BY DEF DeskInv, Keys
    <3>2. \A k \in replies' : k \in Nat /\ k > budget.ask
      BY <1>3, <3>1
    <3> PICK m : m = budget.ask
      OBVIOUS
    <3> PICK n : n = budget'.ask
      OBVIOUS
    <3>3. m \in Nat /\ n \in Nat /\ n <= m /\ \A k \in replies' : k \in Nat /\ k > m
      BY <1>1, <1>2, <3>2
    <3>4. \A k \in replies' : k \in Nat /\ k > n
      BY <3>3
    <3> QED
      BY <3>4
  <2>2. ASSUME NEW d \in Client, NEW e \in Client, client'[d].at # "idle", client'[e].at # "idle",
               client'[d].req.key = client'[e].req.key
        PROVE  d = e
    <3>1. CASE d # c /\ e # c
      BY <1>5, <2>2, <3>1 DEF DeskInv, Keys, Request
    <3>2. CASE d = c \/ e = c
      BY <1>4, <1>5, <1>6, <2>2, <3>2
    <3> QED
      BY <3>1, <3>2
  <2> QED
    BY <1>1, <2>1, <2>2 DEF Keys, Request
<1>10. \A d \in Client : SeatOK(d)'
  BY <1>7, <1>8
<1> QED
  BY <1>5, <1>9, <1>10

LEMMA AcceptDesk ==
  ASSUME PagesInv, DeskInv, NEW c \in Client, Accept(c)
  PROVE  DeskInv'
<1>1. /\ client[c].at = "sent" /\ Request(c).key \notin replies /\ Allowed(c) /\ Answered(c, "ok")
      /\ replies' = replies \union {Request(c).key}
      /\ IF Decides(c) THEN Decide(c) ELSE Enqueue(c) /\ UNCHANGED <<decisions, events, raced>>
  BY DEF Accept
<1>2. Library /\ EventsOK /\ SeatOK(c) /\ Undecided /\ decisions \in [Asset -> Decision]
  BY DEF PagesInv, DeskInv, Library
<1>3. decisions' \in [Asset -> Decision] /\ Grows /\ Undecided' /\ EventsOK'
  <2>1. CASE ~Decides(c)
    <3>1. UNCHANGED <<decisions, events>> /\ replies \subseteq replies'
      BY <1>1, <2>1
    <3>2. EventsOK'
      BY <1>2, <3>1 DEF EventsOK, EventOK, Alone, Eventful, Past
    <3> QED
      BY <1>2, <3>1, <3>2 DEF Grows, Undecided
  <2>2. CASE Decides(c)
    <3> PICK to : to = Decided(c)
      OBVIOUS
    <3>1. DecidedOK(c, to)
      BY <1>1, <1>2, <2>2, DecidedIs
    <3>2. /\ decisions' = [e \in Asset |-> IF e \in DOMAIN to THEN to[e] ELSE decisions[e]]
          /\ events' = events \union {EventOf(c, to, e) : e \in DOMAIN to}
      BY <1>1, <2>2 DEF Decide, EventOf
    <3>3. EventsOK'
      BY <1>1, <1>2, <3>1, <3>2, EventsGrow
    <3>4. /\ decisions' \in [Asset -> Decision]
          /\ \A e \in Asset : IF e \in DOMAIN to THEN decisions'[e] = to[e] /\ decisions'[e].rev = decisions[e].rev + 1
                                                 ELSE decisions'[e] = decisions[e]
      BY <1>2, <3>1, <3>2, DecisionsMove
    <3>5. \A e \in Asset : decisions[e].rev \in Nat
      BY <1>2 DEF Decision
    <3>6. Grows
      BY <3>4, <3>5 DEF Grows
    <3>7. Undecided'
      BY <1>2, <3>4, <3>5 DEF Undecided
    <3> QED
      BY <3>3, <3>4, <3>6, <3>7
  <2> QED
    BY <2>1, <2>2
<1>4. Keys' /\ DOMAIN client' = Client /\ \A d \in Client : SeatOK(d)'
  BY <1>1, <1>2, <1>3, SeatsAfter
<1> QED
  BY <1>3, <1>4 DEF DeskInv

LEMMA DeskStep ==
  ASSUME PagesInv, DeskInv, [Next]_vars
  PROVE  DeskInv'
<1>0. Library
  BY DEF PagesInv
<1>1. ASSUME NEW w \in Worker, (Wake(w) \/ Fail(w) \/ Kill(w)) /\ UNCHANGED <<library, desk>>
      PROVE  DeskInv'
  <2>1. UNCHANGED <<desk, decisions>>
    BY <1>1 DEF library
  <2>2. budget' = budget \/ \E what \in Bounds : Spend(what)
    BY <1>1 DEF Wake, Fail, Kill, Bounds
  <2> QED
    BY <1>0, <2>1, <2>2, LedgerDesk
<1>2. ASSUME NEW w \in Worker, Work(w) /\ UNCHANGED desk
      PROVE  DeskInv'
  BY <1>0, <1>2, WorkDesk
<1>3. ASSUME NEW c \in Client, Look(c) \/ Send(c) \/ Forget(c) \/ Accept(c)
      PROVE  DeskInv'
  BY <1>0, <1>3, LookDesk, SendDesk, ForgetDesk, AcceptDesk
<1>4. ASSUME NEW c \in Client, Replay(c)
      PROVE  DeskInv'
  <2>1. /\ client[c].at = "sent" /\ Answered(c, "ok") /\ ("ok" = "ok") = (Request(c).key \in replies)
        /\ UNCHANGED <<library, events, replies>>
    BY <1>4 DEF Replay
  <2> QED
    BY <1>0, <2>1, AnswerDesk
<1>5. ASSUME NEW c \in Client, Refuse(c)
      PROVE  DeskInv'
  <2>1. /\ client[c].at = "sent" /\ Answered(c, "refused") /\ ("refused" = "ok") = (Request(c).key \in replies)
        /\ UNCHANGED <<library, events, replies>>
    BY <1>5 DEF Refuse
  <2> QED
    BY <1>0, <2>1, AnswerDesk
<1>6. CASE Visit
  <2>1. UNCHANGED <<desk, decisions>> /\ \E what \in Bounds : Spend(what)
    BY <1>6 DEF Visit, library, Bounds
  <2> QED
    BY <1>0, <2>1, LedgerDesk
<1>7. CASE Import /\ UNCHANGED desk
  <2>1. UNCHANGED <<desk, decisions>> /\ \E what \in Bounds : Spend(what)
    BY <1>7 DEF Import, Bounds
  <2> QED
    BY <1>0, <2>1, LedgerDesk
<1>8. CASE UNCHANGED vars
  <2>1. UNCHANGED <<desk, decisions, budget>>
    BY <1>8 DEF vars, library, ledger
  <2> QED
    BY <1>0, <2>1, LedgerDesk
<1> QED
  BY <1>1, <1>2, <1>3, <1>4, <1>5, <1>6, <1>7, <1>8 DEF Next

LEMMA InitDesk ==
  ASSUME Init
  PROVE  DeskInv
<1>1. /\ budget \in World /\ events = {} /\ replies = {} /\ client = [c \in Client |-> Nowhere]
      /\ decisions = [e \in Asset |-> [fav |-> FALSE, rej |-> FALSE, rev |-> IF e \in First THEN 1 ELSE 0]]
  BY DeskAssumption DEF Init
<1>2. Nowhere \in Seat /\ Nowhere.at = "idle" /\ Nowhere.req.key = 0
      /\ \A e \in Asset : Nowhere.rows[e] = [fav |-> FALSE, rej |-> FALSE, rev |-> 0]
  BY DEF Nowhere, NoRequest, Seat, Decision
<1>3. Saw(Nowhere.rows)
  <2>1. \A e \in Asset : /\ decisions[e].rev \in Nat
                         /\ decisions[e].rev = 0 => decisions[e] = [fav |-> FALSE, rej |-> FALSE, rev |-> 0]
    BY <1>1
  <2> PICK rows : rows = Nowhere.rows
    OBVIOUS
  <2>2. \A e \in Asset : rows[e].rev = 0 /\ rows[e] = [fav |-> FALSE, rej |-> FALSE, rev |-> 0]
    BY <1>2
  <2>3. ASSUME NEW e \in Asset
        PROVE  /\ rows[e].rev <= decisions[e].rev
               /\ rows[e].rev = decisions[e].rev => rows[e] = decisions[e]
    BY <2>1, <2>2
  <2>4. Saw(rows)
    BY <2>3 DEF Saw
  <2> QED
    BY <2>4
<1>4. \A c \in Client : SeatOK(c)
  BY <1>1, <1>2, <1>3 DEF SeatOK
<1>5. Keys
  BY <1>1, <1>2 DEF Keys, Request
<1>6. Undecided
  BY <1>1 DEF Undecided
<1>7. EventsOK
  <2>1. \A e \in Asset : Past(e) = {}
    BY <1>1 DEF Past
  <2>2. IsFiniteSet({}) /\ Cardinality({}) = 0
    BY FS_EmptySet
  <2>3. \A e \in Asset : Eventful(e)
    BY <1>1, <2>1, <2>2 DEF Eventful
  <2> QED
    BY <1>1, <2>3 DEF EventsOK
<1> QED
  BY <1>1, <1>4, <1>5, <1>6, <1>7 DEF DeskInv

-----------------------------------------------------------------------------
(* The theorems.                                                           *)

\* The ledger, the workers and the pages are as they should be, and so are the
\* requests and what is on record of them: what every step of VaultDesk keeps.
THEOREM DeskInvariant == Spec => [](PagesInv /\ DeskInv)
<1>1. Init => PagesInv /\ DeskInv
  BY InitPages, InitDesk
<1>2. PagesInv /\ DeskInv /\ [Next]_vars => PagesInv' /\ DeskInv'
  BY PagesStep, DeskStep
<1> QED
  BY <1>1, <1>2, PTL DEF Spec

\* Every decision is on record, once, in a chain that ends in the photo's state,
\* and a client is told what came of its request (review_api.py:2096).
THEOREM DecisionsKept == Spec => []DecisionsAreKept
<1>1. DeskInv => DecisionsAreKept
  <2> SUFFICES ASSUME DeskInv
               PROVE  DecisionsAreKept
    OBVIOUS
  <2>1. ASSUME NEW e \in Asset
        PROVE  LET mine == {v \in events : v.e = e}
               IN /\ Cardinality(mine) + 1 >= decisions[e].rev
                  /\ \A v \in mine : /\ v.after.rev = v.before.rev + 1
                                     /\ v.after = decisions[e] \/ \E n \in mine : n.before = v.after
    <3>1. Eventful(e) /\ \A v \in events : EventOK(v)
      BY DEF DeskInv, EventsOK
    <3>2. \A v \in Past(e) : /\ v.after.rev = v.before.rev + 1
                             /\ v.after = decisions[e] \/ \E n \in Past(e) : n.before = v.after
      BY <3>1 DEF EventOK, Past
    <3> QED
      BY <3>1, <3>2 DEF Eventful, Past
  <2>2. \A v, n \in events : (v.e = n.e /\ (v.key = n.key \/ v.before.rev = n.before.rev
                                            \/ (v.undoes = n.undoes /\ v.undoes # 0))) => v = n
    BY DEF DeskInv, EventsOK, Alone
  <2>3. \A c \in Client : client[c].at = "told" => (client[c].told = "ok") = (Request(c).key \in replies)
    BY DEF DeskInv, SeatOK, Request
  <2> QED
    BY <2>1, <2>2, <2>3 DEF DecisionsAreKept
<1> QED
  BY <1>1, DeskInvariant, PTL

\* A page that is served answers what it is asked now, however late the run that
\* filled it (review_library.py:837, review_junk.py:519).
THEOREM PagesRight == Spec => []PagesAreRight
<1>1. PagesInv => PagesAreRight
  <2> SUFFICES ASSUME PagesInv
               PROVE  PagesAreRight
    OBVIOUS
  <2>1. \A i \in DOMAIN jobs : JobOK(i)
    BY DEF PagesInv, LedgerOK
  <2>2. ViewsAreFresh
    BY <2>1 DEF ViewsAreFresh, JobOK, Of
  <2>3. FavouritesAreShielded
    BY <2>1 DEF FavouritesAreShielded, JobOK, Judges, Of
  <2> QED
    BY <2>2, <2>3 DEF PagesAreRight
<1> QED
  BY <1>1, DeskInvariant, PTL

\* The key of a request that is accepted is its client's alone.
LEMMA AcceptedIs ==
  ASSUME DeskInv, [Next]_vars, NEW c \in Client, Request(c).key \in replies' \ replies
  PROVE  Accept(c)
<1>1. PICK d \in Client : Accept(d)
  <2>1. replies' # replies
    OBVIOUS
  <2>2. \A w \in Worker : (Wake(w) \/ Fail(w) \/ Kill(w)) /\ UNCHANGED <<library, desk>> => UNCHANGED replies
    BY DEF desk
  <2>3. \A w \in Worker : Work(w) /\ UNCHANGED desk => UNCHANGED replies
    BY DEF desk
  <2>4. \A d \in Client : Look(d) \/ Send(d) \/ Replay(d) \/ Refuse(d) \/ Forget(d) => UNCHANGED replies
    BY DEF Look, Send, Replay, Refuse, Forget
  <2>5. Visit \/ (Import /\ UNCHANGED desk) \/ UNCHANGED vars => UNCHANGED replies
    BY DEF Visit, desk, vars
  <2> QED
    BY <2>1, <2>2, <2>3, <2>4, <2>5 DEF Next
<1>2. client[d].at = "sent" /\ replies' = replies \union {Request(d).key}
  BY <1>1 DEF Accept
<1>3. Request(c).key = Request(d).key
  BY <1>2
<1>4. Request(d).key \in Nat /\ Request(d).key > budget.ask /\ budget.ask \in Nat
  BY <1>2 DEF DeskInv, SeatOK, Seat, Request, Keys, World
<1>5. client[c].at # "idle"
  BY <1>3, <1>4 DEF DeskInv, SeatOK, Request
<1>6. c = d
  BY <1>2, <1>3, <1>5 DEF DeskInv, Keys
<1> QED
  BY <1>1, <1>6

\* What a request overwrites is what its client saw; an undo takes back what
\* nothing has come after, and the rest of a stack hides no favourite that the
\* client did not see one of (review_api.py:2096).
THEOREM OverwrittenSeen == Spec => NothingIsOverwrittenUnseen
<1> DEFINE Unseen ==
             \A c \in Client : Request(c).key \in replies' \ replies =>
               \A e \in Asset : decisions'[e] # decisions[e] =>
                 CASE Request(c).do = "undo" -> \E v \in events : v.e = e /\ v.key \in Request(c).arg /\ v.after = decisions[e]
                   [] Request(c).do = "rest" -> /\ decisions'[e].fav = decisions[e].fav
                                                /\ decisions[e].fav => \E x \in Asset : client[c].rows[x].fav
                   [] OTHER -> decisions[e] = client[c].rows[e]
<1>1. PagesInv /\ DeskInv /\ [Next]_vars => [Unseen]_vars
  <2> SUFFICES ASSUME PagesInv, DeskInv, [Next]_vars
               PROVE  Unseen
    OBVIOUS
  <2> SUFFICES ASSUME NEW c \in Client, Request(c).key \in replies' \ replies,
                      NEW e \in Asset, decisions'[e] # decisions[e]
               PROVE  CASE Request(c).do = "undo" -> \E v \in events : v.e = e /\ v.key \in Request(c).arg /\ v.after = decisions[e]
                        [] Request(c).do = "rest" -> /\ decisions'[e].fav = decisions[e].fav
                                                     /\ decisions[e].fav => \E x \in Asset : client[c].rows[x].fav
                        [] OTHER -> decisions[e] = client[c].rows[e]
    OBVIOUS
  <2>1. Accept(c)
    BY AcceptedIs
  <2>2. client[c].at = "sent" /\ Allowed(c) /\ Decides(c) /\ Decide(c)
    BY <2>1 DEF Accept
  <2> PICK to : to = Decided(c)
    OBVIOUS
  <2>3. Library /\ EventsOK /\ SeatOK(c)
    BY DEF PagesInv, DeskInv
  <2>4. DecidedOK(c, to)
    BY <2>2, <2>3, DecidedIs
  <2>5. decisions' = [x \in Asset |-> IF x \in DOMAIN to THEN to[x] ELSE decisions[x]]
    BY <2>2 DEF Decide
  <2>6. e \in DOMAIN to /\ decisions'[e] = to[e]
    BY <2>5
  <2>7. CASE Request(c).do = "undo"
    BY <2>4, <2>6, <2>7 DEF DecidedOK
  <2>8. CASE Request(c).do = "rest"
    BY <2>4, <2>6, <2>8 DEF DecidedOK
  <2>9. CASE Request(c).do \notin {"undo", "rest"}
    BY <2>4, <2>6, <2>9 DEF DecidedOK
  <2> QED
    BY <2>7, <2>8, <2>9
<1>2. Spec => [][Unseen]_vars
  <2>1. Spec => [](PagesInv /\ DeskInv) /\ [][Next]_vars
    BY DeskInvariant, PTL DEF Spec
  <2> HIDE DEF Unseen
  <2> QED
    BY <1>1, <2>1, PTL
<1> QED
  BY <1>2 DEF NothingIsOverwrittenUnseen

-----------------------------------------------------------------------------
(* The stacks on show.                                                     *)

\* A job on show, after a step: the same but for its rows.
Kept(i) ==
    /\ i \in DOMAIN jobs'
    /\ jobs'[i].kind = jobs[i].kind /\ jobs'[i].gen = jobs[i].gen
    /\ jobs'[i].row = jobs[i].row /\ jobs'[i].cur = jobs[i].cur
Shows(i) == Kept(i) /\ jobs'[i].rows = jobs[i].rows

LEMMA ServedIs ==
  ASSUME PagesInv, NEW i \in Served
  PROVE  /\ i \in DOMAIN jobs /\ jobs[i].kind = "stacks" /\ jobs[i].status = "completed" /\ jobs[i].row = "ready"
         /\ jobs[i].cur /\ jobs[i].gen = Catalog
         /\ \A w \in Worker : Working(w) => worker[w].job # i
<1>1. /\ i \in DOMAIN jobs /\ jobs[i].kind = "stacks" /\ jobs[i].row = "ready" /\ jobs[i].cur /\ jobs[i].gen = Catalog
      /\ JobOK(i)
  BY DEF Served, Of, Ready, PagesInv, LedgerOK
<1>2. jobs[i].status = "completed"
  BY <1>1 DEF JobOK, Whole
<1>3. ASSUME NEW w \in Worker, Working(w)
      PROVE  worker[w].job # i
  BY <1>1, <1>2, <1>3 DEF PagesInv, WorkersOK, WorkOK, Whole
<1> QED
  BY <1>1, <1>2, <1>3

LEMMA AsksShow ==
  ASSUME PagesInv, NEW i \in Served, Asks(jobs')
  PROVE  Shows(i)
<1>1. i \in DOMAIN jobs /\ jobs[i].kind = "stacks"
  BY ServedIs
<1>2. i \in DOMAIN jobs' /\ Still(jobs[i], jobs'[i])
  BY <1>1, DomainGrows DEF Asks, PagesInv, LedgerOK
<1> QED
  BY <1>1, <1>2 DEF Shows, Kept, Still, Same, Shown

\* A step of a worker at its job, which writes no other.
LEMMA WritesShow ==
  ASSUME PagesInv, NEW i \in Served, NEW w \in Worker, Working(w),
         \/ jobs' = jobs
         \/ \E j : jobs' = [jobs EXCEPT ![worker[w].job] = j]
         \/ jobs' = [k \in DOMAIN jobs |-> jobs'[k]] /\ \A k \in Of(jobs, "stacks") \ {worker[w].job} : jobs'[k] = jobs[k]
  PROVE  Shows(i)
<1>1. i \in DOMAIN jobs /\ jobs[i].kind = "stacks" /\ worker[w].job # i
  BY ServedIs
<1>2. i \in DOMAIN jobs' /\ jobs'[i] = jobs[i]
  <2>1. CASE jobs' = jobs
    BY <1>1, <2>1
  <2>2. CASE \E j : jobs' = [jobs EXCEPT ![worker[w].job] = j]
    BY <1>1, <2>2
  <2>3. CASE jobs' = [k \in DOMAIN jobs |-> jobs'[k]] /\ \A k \in Of(jobs, "stacks") \ {worker[w].job} : jobs'[k] = jobs[k]
    BY <1>1, <2>3 DEF Of
  <2> QED
    BY <2>1, <2>2, <2>3
<1> QED
  BY <1>2 DEF Shows, Kept

LEMMA LoopShows ==
  ASSUME PagesInv, NEW i \in Served, NEW w \in Worker, Wake(w) \/ Fail(w) \/ Kill(w) \/ Recover(w) \/ NextJob(w) \/ Begin(w)
  PROVE  Shows(i)
<1>1. i \in DOMAIN jobs /\ jobs[i].kind = "stacks" /\ jobs[i].status = "completed"
  BY ServedIs
<1>2. CASE Wake(w) \/ Kill(w) \/ NextJob(w)
  BY <1>1, <1>2 DEF Wake, Kill, NextJob, Shows, Kept
<1>3. CASE Fail(w)
  <2>1. Working(w) /\ \E j : jobs' = [jobs EXCEPT ![worker[w].job] = j]
    BY <1>3 DEF Fail, Leave
  <2> QED
    BY <2>1, WritesShow
<1>4. CASE Recover(w)
  <2> PICK orphans : orphans = {k \in DOMAIN jobs : Stage(jobs[k].kind) = worker[w].job /\ jobs[k].status = "running"}
    OBVIOUS
  <2>1. \/ jobs' = jobs
        \/ jobs' = [k \in DOMAIN jobs |-> IF k \in orphans THEN Requeued(jobs[k]) ELSE jobs[k]]
    BY <1>4 DEF Recover
  <2>2. i \notin orphans
    BY <1>1
  <2>3. i \in DOMAIN jobs' /\ jobs'[i] = jobs[i]
    BY <1>1, <2>1, <2>2
  <2> QED
    BY <1>1, <2>3 DEF Shows, Kept
<1>5. CASE Begin(w)
  <2> PICK m : m = worker[w].job
    OBVIOUS
  <2>1. CASE jobs' = jobs
    BY <1>1, <2>1 DEF Shows, Kept
  <2>2. CASE jobs' # jobs
    <3>1. PICK back \in {{}, Lapsed(jobs[m].kind)} :
            LET js == [k \in DOMAIN jobs |-> IF k \in back THEN Requeued(jobs[k]) ELSE jobs[k]]
            IN IF Takes(js[m])
               THEN /\ jobs' = [js EXCEPT ![m] = Taken(@)]
                    /\ worker' = [worker EXCEPT ![w].at = "begun"]
                    /\ holder' = w
               ELSE /\ jobs' = [js EXCEPT ![m] = Refused(@)]
                    /\ worker' = [worker EXCEPT ![w] = Idle]
                    /\ UNCHANGED holder
      BY <1>5, <2>2 DEF Begin
    <3>2. i \notin back
      BY <1>1 DEF Lapsed, Of
    <3> PICK js : js = [k \in DOMAIN jobs |-> IF k \in back THEN Requeued(jobs[k]) ELSE jobs[k]]
      OBVIOUS
    <3>3. DOMAIN js = DOMAIN jobs /\ js[i] = jobs[i]
      BY <1>1, <3>2
    <3>4. \/ Takes(js[m]) /\ jobs' = [js EXCEPT ![m] = Taken(js[m])]
          \/ jobs' = [js EXCEPT ![m] = Refused(js[m])]
      BY <3>1
    <3>5. ~Takes(jobs[i]) /\ Refused(jobs[i]) = jobs[i]
      BY <1>1 DEF Takes, Refused, Stage
    <3>6. jobs'[i] = jobs[i] /\ i \in DOMAIN jobs'
      BY <1>1, <3>3, <3>4, <3>5
    <3> QED
      BY <3>6 DEF Shows, Kept
  <2> QED
    BY <2>1, <2>2
<1> QED
  BY <1>2, <1>3, <1>4, <1>5

LEMMA StagesShow ==
  ASSUME PagesInv, NEW i \in Served, NEW w \in Worker, Work(w), ~FinishStacks(w),
         ~(Recover(w) \/ NextJob(w) \/ Begin(w))
  PROVE  Shows(i)
<1>1. Working(w)
  <2>1. BeginCatalog(w) \/ FinishCatalog(w) \/ BeginView(w) \/ BatchView(w) \/ FinishView(w) \/ RunOrganization(w) => Working(w)
    BY DEF BeginCatalog, FinishCatalog, BeginView, BatchView, FinishView, RunOrganization, Began, At, Working
  <2>2. BeginStacks(w) \/ BatchStacks(w) \/ BuildStacks(w) \/ SignalJunk(w) \/ ReadJunk(w) \/ WriteJunk(w)
        \/ CompleteJunk(w) \/ RunCalibration(w) => Working(w)
    BY DEF BeginStacks, BatchStacks, BuildStacks, SignalJunk, ReadJunk, WriteJunk, CompleteJunk, RunCalibration, Began, At, Working
  <2>3. GiveUp(w) \/ Advance(w) \/ AdvanceAssets(w) \/ Save(w) \/ Preprocess(w) => Working(w)
    BY DEF GiveUp, Advance, AdvanceAssets, Save, Preprocess, Began, At, Working
  <2> QED
    BY <2>1, <2>2, <2>3 DEF Work
<1>2. CASE BeginCatalog(w) \/ BeginStacks(w) \/ BatchStacks(w) \/ SignalJunk(w) \/ ReadJunk(w) \/ GiveUp(w)
  <2>1. jobs' = jobs
    BY <1>2 DEF BeginCatalog, BeginStacks, BatchStacks, SignalJunk, ReadJunk, GiveUp, Leave
  <2> QED
    BY <1>1, <2>1, WritesShow
<1>3. CASE BeginView(w) \/ BatchView(w) \/ FinishView(w) \/ BuildStacks(w)
  <2>1. \E j : jobs' = [jobs EXCEPT ![worker[w].job] = j]
    BY <1>3 DEF BeginView, BatchView, FinishView, BuildStacks, Leave
  <2> QED
    BY <1>1, <2>1, WritesShow
<1>4. CASE WriteJunk(w) \/ CompleteJunk(w) \/ Save(w) \/ Preprocess(w)
  <2>1. \E j : jobs' = [jobs EXCEPT ![worker[w].job] = j]
    BY <1>4 DEF WriteJunk, CompleteJunk, Save, Preprocess, Leave
  <2> QED
    BY <1>1, <2>1, WritesShow
<1>5. CASE FinishCatalog(w)
  <2>1. jobs' = [k \in DOMAIN jobs |-> jobs'[k]] /\ \A k \in Of(jobs, "stacks") \ {worker[w].job} : jobs'[k] = jobs[k]
    BY <1>5 DEF FinishCatalog, Leave, Of
  <2> QED
    BY <1>1, <2>1, WritesShow
<1>6. CASE RunOrganization(w)
  <2>1. \/ \E j : jobs' = [jobs EXCEPT ![worker[w].job] = j]
        \/ jobs' = [k \in DOMAIN jobs |-> jobs'[k]] /\ \A k \in Of(jobs, "stacks") \ {worker[w].job} : jobs'[k] = jobs[k]
    BY <1>6 DEF RunOrganization, Leave, Of
  <2> QED
    BY <1>1, <2>1, WritesShow
<1>7. CASE RunCalibration(w)
  <2>1. \/ \E key : jobs' = JunkProfile(jobs, key).jobs
        \/ \E j : jobs' = [jobs EXCEPT ![worker[w].job] = j]
    BY <1>7 DEF RunCalibration, Leave
  <2>2. \A key : Asks(JunkProfile(jobs, key).jobs)
    BY ProfileAsks DEF JunkProfile, PagesInv, LedgerOK
  <2> QED
    BY <1>1, <2>1, <2>2, WritesShow, AsksShow
<1>8. CASE Advance(w) \/ AdvanceAssets(w)
  <2>1. \/ \E p : AskAssets(w, p)
        \/ \E p, phase : MoveOn(w, p, phase)
        \/ jobs' = jobs
        \/ \E j : jobs' = [jobs EXCEPT ![worker[w].job] = j]
    BY <1>8 DEF Advance, AdvanceAssets, Leave
  <2>2. (\E p : AskAssets(w, p)) \/ (\E p, phase : MoveOn(w, p, phase)) => Asks(jobs')
    BY PhasesAsk DEF PagesInv
  <2> QED
    BY <1>1, <2>1, <2>2, WritesShow, AsksShow
<1> QED
  BY <1>2, <1>3, <1>4, <1>5, <1>6, <1>7, <1>8 DEF Work

\* The profile of another catalog that comes out late takes the others from show.
Late(i) == \E k \in Of(jobs, "stacks") : /\ jobs[k].gen # jobs[i].gen
                                         /\ jobs[k].row # "ready" /\ jobs'[k].row = "ready"

LEMMA FinishShows ==
  ASSUME PagesInv, NEW i \in Served, NEW w \in Worker, FinishStacks(w)
  PROVE  Shows(i) \/ Late(i)
<1> PICK m : m = worker[w].job
  OBVIOUS
<1> PICK done : done = Completed(jobs[m])
  OBVIOUS
<1> DEFINE js == [jobs EXCEPT ![m] = done]
<1>1. Working(w) /\ worker[w].at = "stacked" /\ jobs' = Retired(js, m)
  BY DEF FinishStacks, Leave, At, Working
<1>2. i \in DOMAIN jobs /\ jobs[i].kind = "stacks" /\ m # i
  BY <1>1, ServedIs
<1>3. m \in DOMAIN jobs /\ jobs[m].kind = "stacks" /\ jobs[m].row = "building" /\ IsJob(jobs[m])
  BY <1>1, HolderIs, ListedIs DEF PagesInv, LedgerOK, WorkOK, Whole
<1>4. Same(jobs[m], done) /\ done.row = "ready"
  BY <1>3, CompletedIs
<1>5. DOMAIN js = DOMAIN jobs /\ js[m] = done /\ js[i] = jobs[i]
  BY <1>2, <1>3
<1> HIDE DEF js
<1>6. /\ DOMAIN jobs' = DOMAIN jobs
      /\ jobs'[m] = done
      /\ jobs'[i] = IF jobs[i].gen # done.gen THEN [jobs[i] EXCEPT !.cur = FALSE] ELSE jobs[i]
  BY <1>1, <1>2, <1>3, <1>4, <1>5 DEF Retired, Same
<1>7. CASE jobs[i].gen # jobs[m].gen
  BY <1>3, <1>4, <1>6, <1>7 DEF Late, Of
<1>8. CASE jobs[i].gen = jobs[m].gen
  BY <1>2, <1>4, <1>6, <1>8 DEF Shows, Kept, Same
<1> QED
  BY <1>7, <1>8

LEMMA AcceptShows ==
  ASSUME PagesInv, DeskInv, NEW i \in Served, NEW c \in Client, Accept(c)
  PROVE  Shows(i) \/ (Kept(i) /\ Request(c).do = "cover" /\ Request(c).key \in replies' \ replies)
<1>1. /\ client[c].at = "sent" /\ Allowed(c) /\ Request(c).key \in replies' \ replies /\ SeatOK(c)
      /\ IF Decides(c) THEN Decide(c) ELSE Enqueue(c)
  BY DEF Accept, DeskInv
<1>2. i \in DOMAIN jobs /\ jobs[i].kind = "stacks"
  BY ServedIs
<1>3. CASE Decides(c)
  <2>1. jobs' = jobs \/ \E e, fav : jobs' = Refresh(e, fav)
    BY <1>1, <1>3 DEF Decide
  <2>2. \A e : i \notin Judged(e)
    BY <1>2 DEF Judged, Of
  <2> QED
    BY <1>2, <2>1, <2>2 DEF Refresh, Shows, Kept
<1>4. CASE ~Decides(c) /\ Asks(jobs')
  BY <1>4, AsksShow
<1>5. CASE ~Decides(c) /\ ~Asks(jobs')
  <2>1. /\ Request(c).do = "cover" /\ client[c].of \in Served
        /\ \E e \in Request(c).arg : jobs' = Covered(c, e)
    BY <1>1, <1>5, EnqueueAsks
  <2> PICK m : m = client[c].of
    OBVIOUS
  <2>2. m \in DOMAIN jobs /\ \E S : jobs' = [jobs EXCEPT ![m].rows = S]
    BY <2>1, ServedIs DEF Covered
  <2>3. PICK S : jobs' = [jobs EXCEPT ![m].rows = S]
    BY <2>2
  <2>4. Listed(jobs) /\ m \in DOMAIN jobs /\ i \in DOMAIN jobs
    BY <1>2, <2>2 DEF PagesInv, LedgerOK
  <2>5. /\ DOMAIN jobs' = DOMAIN jobs /\ Same(jobs[m], jobs'[m]) /\ jobs'[m].row = jobs[m].row /\ jobs'[m].cur = jobs[m].cur
    BY <2>3, <2>4, RowsMove, Zenon
  <2>6. i # m => jobs'[i] = jobs[i]
    BY <2>3, <2>4
  <2> QED
    BY <1>1, <2>1, <2>4, <2>5, <2>6 DEF Kept, Same
<1> QED
  BY <1>3, <1>4, <1>5

\* The stacks of this catalog on show stay on show, and as they are but for the
\* covers clients set, unless the profile of another catalog comes out late
\* (review_stacks.py, finish of a profile).
THEOREM StacksKept == Spec => StacksStay
<1> DEFINE Stay ==
             \A i \in Served :
               \/ Catalog' # Catalog
               \/ \E k \in Of(jobs, "stacks") : /\ jobs[k].gen # jobs[i].gen
                                                /\ jobs[k].row # "ready" /\ jobs'[k].row = "ready"
               \/ /\ i \in Served'
                  /\ jobs'[i].rows = jobs[i].rows \/ \E c \in Client : Request(c).do = "cover" /\ Request(c).key \in replies' \ replies
<1>1. PagesInv /\ DeskInv /\ [Next]_vars => [Stay]_vars
  <2> SUFFICES ASSUME PagesInv, DeskInv, [Next]_vars, NEW i \in Served
               PROVE  \/ Catalog' # Catalog
                      \/ Late(i)
                      \/ /\ i \in Served'
                         /\ \/ jobs'[i].rows = jobs[i].rows
                            \/ \E c \in Client : Request(c).do = "cover" /\ Request(c).key \in replies' \ replies
    BY DEF Late
  <2> DEFINE Covers == \E c \in Client : Request(c).do = "cover" /\ Request(c).key \in replies' \ replies
  <2>1. Late(i) \/ Shows(i) \/ (Kept(i) /\ Covers)
    <3>1. ASSUME NEW w \in Worker, Wake(w) \/ Fail(w) \/ Kill(w)
          PROVE  Shows(i)
      BY <3>1, LoopShows
    <3>2. ASSUME NEW w \in Worker, Work(w)
          PROVE  Late(i) \/ Shows(i)
      BY <3>2, LoopShows, StagesShow, FinishShows
    <3>3. ASSUME NEW c \in Client, Accept(c)
          PROVE  Shows(i) \/ (Kept(i) /\ Covers)
      BY <3>3, AcceptShows
    <3>4. ASSUME jobs' = jobs
          PROVE  Shows(i)
      BY <3>4, ServedIs DEF Shows, Kept
    <3>5. \A c \in Client : Look(c) \/ Send(c) \/ Replay(c) \/ Refuse(c) \/ Forget(c) => jobs' = jobs
      BY DEF Look, Send, Replay, Refuse, Forget, ledger
    <3>6. Import \/ UNCHANGED vars => jobs' = jobs
      BY DEF Import, vars, ledger
    <3>7. Visit => Shows(i)
      BY VisitAsks, AsksShow
    <3> QED
      BY <3>1, <3>2, <3>3, <3>4, <3>5, <3>6, <3>7 DEF Next
  <2>2. Kept(i) /\ Catalog' = Catalog => i \in Served'
    BY ServedIs DEF Kept, Served, Of, Ready
  <2> QED
    BY <2>1, <2>2 DEF Shows
<1>2. Spec => [][Stay]_vars
  <2>1. Spec => [](PagesInv /\ DeskInv) /\ [][Next]_vars
    BY DeskInvariant, PTL DEF Spec
  <2> HIDE DEF Stay
  <2> QED
    BY <1>1, <2>1, PTL
<1> QED
  BY <1>2 DEF StacksStay

=============================================================================
