---------------------------- MODULE VaultStages ----------------------------
(***************************************************************************)
(* What a worker does once it has begun a job: the catalog of logical      *)
(* photos, an indexed view, the organization rollups, a stack profile, a   *)
(* junk profile and its calibration, one asset's preprocessing and the     *)
(* backfill that asks for all of these in turn (archive/v1).  Each action  *)
(* is one committed transaction; what is read before it is in the worker.  *)
(*                                                                         *)
(* A loop that keeps a SELECT open over its own commits reads from one     *)
(* snapshot, and SQLite lets it write no more once another connection has  *)
(* committed: the batch fails and so does the record of the failure.       *)
(***************************************************************************)
EXTENDS VaultJobs

CONSTANTS
    Asset,          \* assets of the vault, in the order of their ids
    RawOf,          \* the raw image an asset is the companion of, or itself
    Scene,          \* per stack setting, the sets of entities alike enough
    Quality,        \* the rank of an entity as a cover
    Doubt,          \* how strongly the signals of an entity speak against it
    Query,          \* queries of a view: "all", "kept" or "favourites"
    DefaultBar,     \* the strength the default junk profile hides at
    ViewBatch,      \* rows a view or a stack build reads at a time (1,000 and 500)
    AssetBatch,     \* assets a backfill asks for at a time (32)
    Feedback        \* feedbacks a calibration waits for

ASSUME StagesAssumption ==
    /\ Asset \subseteq Nat \ {0} /\ IsFiniteSet(Asset) /\ \A a \in Asset : RawOf[a] \in Asset
    /\ ViewBatch \in Nat \ {0} /\ AssetBatch \in Nat \ {0}

VARIABLES
    verified,       \* assets whose object is verified
    entities,       \* the logical photos: catalog generation and is_current
    decisions,      \* photo_user_state: favourite, rejected and revision (0: no row)
    generation,     \* of the application's state
    inputs,         \* stack inputs put down, by catalog generation
    raced           \* history: favourites set while a junk run had read them

ledger == <<jobs, worker, holder, budget>>
library == <<verified, entities, decisions, generation, inputs, raced>>

\* What other connections have committed shows in these two.
Stamp == <<generation, Len(jobs)>>
Live(g) == {e \in Asset : entities[e].cur /\ entities[e].gen = g}
Lowest(S, n) == {a \in S : Cardinality({b \in S : b < a}) < n}

Catalogs == {i \in Of(jobs, "catalog") : jobs[i].cur /\ jobs[i].row = "ready"}
HasCatalog == Catalogs # {}
Catalog == IF HasCatalog
           THEN CHOOSE g \in {jobs[i].gen : i \in Catalogs} : \A i \in Catalogs : jobs[i].gen <= g
           ELSE 0

-----------------------------------------------------------------------------
(* Asking for a job: the row that is there, or a new one. *)

Matching(js, kind, key, g) == {i \in Of(js, kind) : js[i].key = key /\ js[i].gen = g}
The(S) == CHOOSE i \in S : TRUE
Asked(js, i) == [jobs |-> js, id |-> i]
New(js, kind, key, g) == Asked(Append(js, Job(kind, key, g)), Len(js) + 1)

NewCatalog(js) ==
    LET gens == {js[i].gen : i \in Of(js, "catalog")}
        top == IF gens = {} THEN 0 ELSE CHOOSE g \in gens : \A h \in gens : h <= g
    IN New(js, "catalog", <<>>, top + 1)

Profile(js, kind, key, g) ==
    LET there == Matching(js, kind, key, g)
    IN IF there = {} THEN New(js, kind, key, g) ELSE Asked(js, The(there))

StackProfile(js, setting) == Profile(js, "stacks", <<setting>>, Catalog)
JunkProfile(js, key) == Profile(js, "junk", key, Catalog)

Organization(js, force) ==
    LET there == Matching(js, "organization", <<>>, Catalog)
        i == The(there)
        again == force /\ ~(js[i].row \in {"queued", "building"})
    IN IF there = {} THEN New(js, "organization", <<>>, Catalog)
       ELSE Asked(IF again THEN [js EXCEPT ![i] = [@ EXCEPT !.status = "queued", !.held = FALSE,
                                                            !.row = "queued", !.cur = TRUE]]
                           ELSE js, i)

DefaultJunk == <<DefaultBar, TRUE, 0>>

Preprocessing(js, a) ==
    LET there == Matching(js, "asset", <<a>>, 0)
        i == The(there)
    IN IF there = {} THEN New(js, "asset", <<a>>, 0)
       ELSE Asked(IF js[i].status = "failed"
                  THEN [js EXCEPT ![i] = [@ EXCEPT !.status = "queued", !.held = FALSE,
                                                   !.limit = js[i].attempt + MaxAttempts]]
                  ELSE js, i)

-----------------------------------------------------------------------------
(* Batches over an open SELECT. *)

Began(w, kind) == At(w, "begun") /\ Mine(w).kind = kind
Open(w, at, rest) == Step(w, at, [rest |-> rest, seen |-> Stamp])

\* A full batch leaves the SELECT open: where something else was committed since,
\* it cannot be written, nor can the failure, and the job stays as it is.
Overtaken(w) == worker[w].read.seen # Stamp /\ Cardinality(worker[w].read.rest) >= ViewBatch
Batch(w) == Lowest(worker[w].read.rest, ViewBatch)
Writes(w) == At(w, "stacks") => \E e \in Batch(w) : <<Mine(w).gen, e>> \notin inputs

GiveUp(w) ==
    /\ worker[w].at \in {"catalog", "view", "stacks"} /\ Overtaken(w) /\ Writes(w)
    /\ Leave(w, jobs)
    /\ UNCHANGED <<budget, library>>

-----------------------------------------------------------------------------
(* The catalog of logical photos. *)

\* A companion belongs to its raw image's entity once that is verified, which
\* takes the lock.
Anchors == {a \in verified : RawOf[a] \in verified => RawOf[a] = a}

BeginCatalog(w) ==
    /\ Began(w, "catalog")
    /\ Open(w, "catalog", verified)
    /\ UNCHANGED <<jobs, holder, budget, library>>

KeptDecisions(now) ==
    [e \in Asset |-> IF e \in now /\ decisions[e].rev = 0
                     THEN [fav |-> FALSE, rej |-> FALSE, rev |-> 1] ELSE decisions[e]]

FinishCatalog(w) ==
    LET i == worker[w].job
        g == Mine(w).gen
        now == Anchors
        gens == [e \in Asset |-> IF e \in now THEN g ELSE entities[e].gen]
    IN /\ At(w, "catalog") /\ ~Overtaken(w)
       /\ entities' = [e \in Asset |-> [gen |-> gens[e], cur |-> gens[e] = g]]
       /\ decisions' = KeptDecisions(now)
       /\ Leave(w, [k \in DOMAIN jobs |->
             IF k = i THEN [Completed(jobs[k]) EXCEPT !.cur = TRUE, !.rows = now]
             ELSE IF jobs[k].kind = "catalog" THEN [jobs[k] EXCEPT !.cur = FALSE] ELSE jobs[k]])
       /\ generation' = generation + 1
       /\ UNCHANGED <<verified, inputs, budget, raced>>

-----------------------------------------------------------------------------
(* A view: the rows of its query, in batches, then ready. *)

Answer(query, g) ==
    {e \in Live(g) : CASE query = "favourites" -> decisions[e].fav
                       [] query = "kept" -> ~decisions[e].rej
                       [] OTHER -> TRUE}

BeginView(w) ==
    LET all == Answer(Mine(w).key[1], Mine(w).gen)
    IN /\ Began(w, "view")
       /\ Open(w, "view", all \ Lowest(all, ViewBatch))
       /\ jobs' = [jobs EXCEPT ![worker[w].job].rows = Lowest(all, ViewBatch)]
       /\ UNCHANGED <<holder, budget, library>>

BatchView(w) ==
    /\ At(w, "view") /\ Batch(w) # {} /\ ~Overtaken(w)
    /\ worker' = [worker EXCEPT ![w].read.rest = @ \ Batch(w)]
    /\ jobs' = [jobs EXCEPT ![worker[w].job].rows = @ \union Batch(w)]
    /\ UNCHANGED <<holder, budget, library>>

FinishView(w) ==
    /\ At(w, "view") /\ worker[w].read.rest = {}
    /\ Leave(w, [jobs EXCEPT ![worker[w].job] = Completed(@)])
    /\ UNCHANGED <<budget, library>>

-----------------------------------------------------------------------------
(* The rollups, in one transaction: a catalog that has moved on fails them. *)

\* The calendar, the folders, the equipment and the map each count every photo
\* of the catalog once.
Rolled(g) == Live(g)

RunOrganization(w) ==
    LET i == worker[w].job
        g == Mine(w).gen
    IN /\ Began(w, "organization")
       /\ IF Catalog # g
          THEN /\ Leave(w, [jobs EXCEPT ![i] = Requeued(@)]) /\ UNCHANGED generation
          ELSE /\ Leave(w, [k \in DOMAIN jobs |->
                     IF k = i THEN [Completed(jobs[k]) EXCEPT !.cur = TRUE, !.rows = Rolled(g)]
                     ELSE IF jobs[k].kind = "organization" THEN [jobs[k] EXCEPT !.cur = FALSE]
                     ELSE jobs[k]])
               /\ generation' = generation + 1
       /\ UNCHANGED <<verified, entities, decisions, inputs, budget, raced>>

-----------------------------------------------------------------------------
(* A stack profile: its inputs in batches, then its stacks, then ready. *)

\* What the candidate edges, their scores and the union of the close ones come to.
Alike(setting, S) == {b \intersect S : b \in Scene[setting]} \ {{}}

Ranked(S) == CHOOSE c \in S : \A e \in S : \/ Quality[c] > Quality[e]
                                           \/ Quality[c] = Quality[e] /\ c <= e
Stacks(setting, S) ==
    {[members |-> b, ranked |-> Ranked(b), cover |-> Ranked(b), rev |-> 1] : b \in Alike(setting, S)}

BeginStacks(w) ==
    /\ Began(w, "stacks")
    /\ Open(w, "stacks", Live(Mine(w).gen))
    /\ UNCHANGED <<jobs, holder, budget, library>>

BatchStacks(w) ==
    /\ At(w, "stacks") /\ Batch(w) # {} /\ ~(Overtaken(w) /\ Writes(w))
    /\ worker' = [worker EXCEPT ![w].read.rest = @ \ Batch(w)]
    /\ inputs' = inputs \union {<<Mine(w).gen, e>> : e \in Batch(w)}
    /\ UNCHANGED <<jobs, holder, budget, verified, entities, decisions, generation, raced>>

BuildStacks(w) ==
    /\ At(w, "stacks") /\ worker[w].read.rest = {}
    /\ Step(w, "stacked", <<>>)
    /\ jobs' = [jobs EXCEPT ![worker[w].job].rows = Stacks(Mine(w).key[1], Live(Mine(w).gen))]
    /\ UNCHANGED <<holder, budget, library>>

\* A mistake: every other profile stops being current.
BugRetired(js, i) ==
    [k \in DOMAIN js |-> IF js[k].kind = "stacks" /\ k # i
                         THEN [js[k] EXCEPT !.cur = FALSE] ELSE js[k]]
\* The profiles of every other generation stop being current; the one that is
\* ready stays what it was.
Retired(js, i) ==
    [k \in DOMAIN js |-> IF js[k].kind = "stacks" /\ js[k].gen # js[i].gen
                         THEN [js[k] EXCEPT !.cur = FALSE] ELSE js[k]]

FinishStacks(w) ==
    /\ At(w, "stacked")
    /\ Leave(w, Retired([jobs EXCEPT ![worker[w].job] = Completed(@)], worker[w].job))
    /\ generation' = generation + 1
    /\ UNCHANGED <<verified, entities, decisions, inputs, budget, raced>>

-----------------------------------------------------------------------------
(* A junk profile: signals, then results over the favourites as they were read. *)

\* Frames some ready stack of the generation has a better one of: its default
\* profile first, then whichever.
Bettered(g) ==
    UNION {UNION {s.members \ {s.cover} : s \in jobs[i].rows} :
             i \in {k \in Of(jobs, "stacks") : jobs[k].gen = g /\ jobs[k].cur /\ jobs[k].row = "ready"}}

Weight(e, g) == Doubt[e] + IF e \in Bettered(g) THEN 1 ELSE 0

SignalJunk(w) ==
    LET g == Mine(w).gen
    IN /\ Began(w, "junk")
       /\ Step(w, "signals", [e \in Live(g) |-> Weight(e, g)])
       /\ UNCHANGED <<jobs, holder, budget, library>>

ReadJunk(w) ==
    LET weigh == worker[w].read
    IN /\ At(w, "signals")
       /\ Step(w, "read", [e \in DOMAIN weigh |-> [weight |-> weigh[e], fav |-> decisions[e].fav]])
       /\ UNCHANGED <<jobs, holder, budget, library>>

Verdict(key, e, weight, fav) ==
    LET agrees == weight >= key[1]
        shielded == fav /\ key[2] /\ agrees
    IN [e |-> e, agrees |-> agrees, hidden |-> agrees /\ ~shielded, shielded |-> shielded]
Tally(rows) == <<Cardinality({r \in rows : r.hidden}), Cardinality({r \in rows : r.shielded})>>

WriteJunk(w) ==
    LET i == worker[w].job
        seen == worker[w].read
        rows == {Verdict(Mine(w).key, e, seen[e].weight, seen[e].fav) : e \in DOMAIN seen}
    IN /\ At(w, "read")
       /\ Step(w, "shown", <<>>)
       /\ jobs' = [jobs EXCEPT ![i] = [@ EXCEPT !.row = "ready", !.rows = rows, !.tally = Tally(rows)]]
       /\ raced' = {r \in raced : r[1] # i}
                    \union {<<i, e>> : e \in {x \in DOMAIN seen : seen[x].fav # decisions[x].fav}}
       /\ UNCHANGED <<holder, budget, verified, entities, decisions, generation, inputs>>

CompleteJunk(w) ==
    /\ At(w, "shown")
    /\ Leave(w, [jobs EXCEPT ![worker[w].job] = Completed(@)])
    /\ UNCHANGED <<budget, library>>

\* A calibration asks for the profile it comes to, then ends; its progress names
\* the profile it is of and by how much the bar moves.
RunCalibration(w) ==
    LET i == worker[w].job
        to == JunkProfile(jobs, <<Mine(w).key[1], Mine(w).key[2], i>>)
    IN /\ Began(w, "calibrate")
       /\ IF HasCatalog
          THEN Step(w, "shown", <<>>) /\ jobs' = to.jobs /\ UNCHANGED holder
          ELSE Leave(w, [jobs EXCEPT ![i] = Requeued(@)])
       /\ UNCHANGED <<budget, library>>
=============================================================================
