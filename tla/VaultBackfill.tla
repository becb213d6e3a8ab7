--------------------------- MODULE VaultBackfill ---------------------------
(***************************************************************************)
(* The release backfill of archive/v1: a coordinator at the lowest         *)
(* priority that asks for preprocessing in batches of assets, then for the *)
(* catalog, the rollups, the default stacks and the default junk profile,  *)
(* waiting in the ledger for each; and the preprocessing of one asset.     *)
(* What it asks for is committed before what it has asked for is.          *)
(***************************************************************************)
EXTENDS VaultStages

Done == {"completed", "failed"}
Backfills == Of(jobs, "backfill")
Latest == CHOOSE i \in Backfills : \A k \in Backfills : k <= i

NewBackfill == [Job("backfill", <<>>, 0) EXCEPT !.plan.owed = verified]

\* The one under way, or, the last one failed or again where asked, a new one.
Started(js, again) ==
    IF Backfills # {} /\ (jobs[Latest].status # "failed" /\ ~(jobs[Latest].status = "completed" /\ again))
    THEN js
    ELSE Append(js, NewBackfill)

\* A mistake: what has failed is waited for.
BugPatient(kids) == \A k \in kids : jobs[k].status = "completed"
Settled(kids) == \A k \in kids : jobs[k].status \in Done
Unvisited(p) == {a \in verified : a > p.cursor}
After(phase) ==
    CASE phase = "inventory" -> "catalog" [] phase = "catalog" -> "organization"
      [] phase = "organization" -> "stacks" [] phase = "stacks" -> "junk"
      [] phase = "junk" -> "legacy" [] OTHER -> "complete"

\* The job a phase asks for.
Wanted(phase) ==
    CASE phase = "catalog" -> NewCatalog(jobs)
      [] phase = "organization" -> Organization(jobs, TRUE)
      [] phase = "stacks" -> StackProfile(jobs, "default")
      [] OTHER -> JunkProfile(jobs, DefaultJunk)

\* The preprocessing of the next assets, each committed as it is asked for.
AskAssets(w, p) ==
    LET batch == Lowest(Unvisited(p), AssetBatch)
        next == batch \ {jobs[k].key[1] : k \in p.kids}
        asked == Preprocessing(jobs, The(Lowest(next, 1)))
    IN IF next = {}
       THEN /\ Step(w, "save", [p EXCEPT !.cursor = The({a \in batch : \A b \in batch : b <= a})])
            /\ UNCHANGED jobs
       ELSE /\ Step(w, "assets", [p EXCEPT !.kids = @ \union {asked.id}])
            /\ jobs' = asked.jobs

MoveOn(w, p, phase) ==
    IF phase = "legacy"
    THEN /\ Step(w, "save", [p EXCEPT !.phase = "complete", !.kids = {}]) /\ UNCHANGED jobs
    ELSE LET asked == Wanted(phase)
         IN /\ Step(w, "save", [p EXCEPT !.phase = phase, !.kids = {asked.id}])
            /\ jobs' = asked.jobs

Advance(w) ==
    LET p == Mine(w).plan
        bare == [p EXCEPT !.kids = {}]
        lost == \E k \in p.kids : jobs[k].status = "failed"
    IN /\ Began(w, "backfill")
       /\ IF ~Settled(p.kids) THEN Step(w, "save", p) /\ UNCHANGED <<jobs, holder>>
          ELSE IF p.phase = "inventory" /\ Unvisited(p) # {}
          THEN AskAssets(w, bare) /\ UNCHANGED holder
          ELSE IF p.phase # "inventory" /\ lost
          THEN Leave(w, [jobs EXCEPT ![worker[w].job] = Requeued(@)])
          ELSE MoveOn(w, bare, IF p.phase = "inventory" \/ p.kids # {} THEN After(p.phase) ELSE p.phase)
               /\ UNCHANGED holder
       /\ UNCHANGED <<budget, library>>

AdvanceAssets(w) ==
    /\ At(w, "assets") /\ AskAssets(w, worker[w].read)
    /\ UNCHANGED <<holder, budget, library>>

\* The state a backfill is left in follows what it was told meanwhile.
Save(w) ==
    LET p == worker[w].read
        status == IF p.phase = "complete" THEN "completed" ELSE IF Mine(w).held THEN "paused" ELSE "queued"
    IN /\ At(w, "save")
       /\ Leave(w, [jobs EXCEPT ![worker[w].job] = [@ EXCEPT !.status = status, !.plan = p]])
       /\ UNCHANGED <<budget, library>>

\* Preprocessing ends with what it could make, or not, put down.
Preprocess(w) ==
    /\ Began(w, "asset")
    /\ Leave(w, [jobs EXCEPT ![worker[w].job] = Completed(@)])
    /\ UNCHANGED <<budget, library>>

-----------------------------------------------------------------------------
(* The controls, as the API calls them. *)

CanControl == Backfills # {} /\ jobs[Latest].status \notin Done

Paused(js) ==
    [k \in DOMAIN js |->
        IF k = Latest THEN [js[k] EXCEPT !.status = "paused", !.held = TRUE]
        ELSE IF k \in js[Latest].plan.kids /\ js[k].status \in {"queued", "running"}
        THEN [js[k] EXCEPT !.held = TRUE] ELSE js[k]]
Resumed(js) ==
    [k \in DOMAIN js |->
        IF k = Latest /\ js[k].held /\ js[k].status \in {"paused", "queued"}
        THEN [js[k] EXCEPT !.status = "queued", !.held = FALSE]
        ELSE IF k \in js[Latest].plan.kids /\ js[k].status = "queued"
        THEN [js[k] EXCEPT !.held = FALSE] ELSE js[k]]

-----------------------------------------------------------------------------
(* Imports put verified assets in, under the same lock. *)

Import ==
    /\ holder = NoOne /\ Spend("import")
    /\ \E a \in Asset \ verified : verified' = verified \union {a}
    /\ UNCHANGED <<jobs, worker, holder, entities, decisions, generation, inputs, raced>>

Work(w) ==
    \/ (Recover(w) \/ NextJob(w) \/ Begin(w)) /\ UNCHANGED library
    \/ BeginCatalog(w) \/ FinishCatalog(w)
    \/ BeginView(w) \/ BatchView(w) \/ FinishView(w)
    \/ RunOrganization(w)
    \/ BeginStacks(w) \/ BatchStacks(w) \/ BuildStacks(w) \/ FinishStacks(w)
    \/ SignalJunk(w) \/ ReadJunk(w) \/ WriteJunk(w) \/ CompleteJunk(w) \/ RunCalibration(w)
    \/ GiveUp(w)
    \/ Advance(w) \/ AdvanceAssets(w) \/ Save(w) \/ Preprocess(w)
=============================================================================
