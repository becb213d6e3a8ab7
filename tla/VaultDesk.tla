----------------------------- MODULE VaultDesk -----------------------------
(***************************************************************************)
(* The review API of archive/v1 over the ledger and the library: clients   *)
(* that read a page and send a change with an idempotency key, the         *)
(* generation and the revisions they saw, again with the same key where no *)
(* answer came; the server, which does each change in one transaction; and *)
(* the readings that ask for a job on their way.                           *)
(***************************************************************************)
EXTENDS VaultBackfill, Integers

CONSTANTS
    Client,
    Worlds          \* bounds: the faults, the requests and what is asked for

Requests == {"favour", "unfavour", "reject", "bulk", "rest", "undo", "cover", "feedback", "catalog", "organization",
             "stacks", "junk", "start", "restart", "pause", "resume"}
World ==
    [up : SUBSET Worker, made : SUBSET {"catalog", "stacks", "junk", "backfill"}, verified : SUBSET Asset,
     at : SUBSET Client, ask : Nat, menu : SUBSET Requests, lost : Nat, get : Nat,
     gets : SUBSET {"view", "catalog", "organization", "stacks", "junk"}, kill : Nat, fail : Nat, import : Nat]
ASSUME DeskAssumption == Worlds \subseteq World

VARIABLES
    events,         \* photo_user_state_events
    replies,        \* the keys of api_idempotency_records
    client          \* what each client saw, its request and what it was told

desk == <<events, replies, client>>
vars == <<ledger, library, desk>>

NoRequest == [do |-> "nothing", arg |-> {}, key |-> 0]
Nowhere == [at |-> "idle", rows |-> [e \in Asset |-> [fav |-> FALSE, rej |-> FALSE, rev |-> 0]],
            of |-> 0, stacks |-> {}, gen |-> 0, req |-> NoRequest, told |-> "nothing"]

\* A new vault, or one whose first catalog, default stacks and default junk are ready.
First == IF "catalog" \in budget.made THEN Anchors ELSE {}
Made(kind, key, rows) ==
    IF kind \in budget.made
    THEN <<[Job(kind, key, 1) EXCEPT !.status = "completed", !.attempt = 1, !.row = "ready", !.rows = rows,
                                     !.tally = IF kind = "junk" THEN Tally(rows) ELSE <<0, 0>>]>>
    ELSE <<>>

Init ==
    /\ budget \in Worlds
    /\ verified = budget.verified
    /\ entities = [e \in Asset |-> [gen |-> IF e \in First THEN 1 ELSE 0, cur |-> e \in First]]
    /\ decisions = [e \in Asset |-> [fav |-> FALSE, rej |-> FALSE, rev |-> IF e \in First THEN 1 ELSE 0]]
    /\ generation = 1 /\ raced = {} /\ inputs = {<<1, e>> : e \in First}
    /\ jobs = Made("catalog", <<>>, First)
              \o Made("stacks", <<"default">>, Stacks("default", First))
              \o Made("junk", DefaultJunk, {Verdict(DefaultJunk, e, Doubt[e], FALSE) : e \in First})
              \o (IF "backfill" \in budget.made THEN <<NewBackfill>> ELSE <<>>)
    /\ worker = [w \in Worker |-> IF w \in budget.up THEN Idle ELSE Down]
    /\ holder = NoOne
    /\ events = {} /\ replies = {}
    /\ client = [c \in Client |-> Nowhere]

-----------------------------------------------------------------------------
(* A client reads, then sends. *)

Ready(i) == i \in DOMAIN jobs /\ jobs[i].cur /\ jobs[i].row = "ready"
Served == {i \in Of(jobs, "stacks") : Ready(i) /\ jobs[i].gen = Catalog}
Rejections(k) == {v \in events : v.key = k /\ v.do \in {"bulk", "rest"}}

\* The pages of a stack profile, with its covers and their revisions.
StackPage(i) == IF i = 0 THEN {} ELSE jobs[i].rows

\* The rows of a page; the generation is read after them.
Look(c) ==
    /\ client[c].at = "idle" /\ c \in budget.at /\ Spend("ask")
    /\ \E i \in IF Served = {} THEN {0} ELSE Served :
         client' = [client EXCEPT ![c] =
             [Nowhere EXCEPT !.at = "looking", !.rows = decisions, !.of = i, !.req.key = budget.ask,
                             !.stacks = StackPage(i)]]
    /\ UNCHANGED <<jobs, worker, holder, library, events, replies>>

Arguments(c, do) ==
    CASE do \in {"favour", "unfavour", "reject"} -> {{e} : e \in {x \in Asset : client[c].rows[x].rev > 0}}
      [] do = "bulk" -> {{x \in Asset : client[c].rows[x].rev > 0}}
      [] do \in {"rest", "cover"} -> {s.members : s \in client[c].stacks}
      [] do = "undo" -> {{k} : k \in {x \in replies : Rejections(x) # {}}}
      [] do = "feedback" -> {{i} : i \in Of(jobs, "junk")}
      [] OTHER -> {{}}

Send(c) ==
    /\ client[c].at = "looking"
    /\ \E do \in budget.menu : \E arg \in Arguments(c, do) :
         client' = [client EXCEPT ![c] = [@ EXCEPT !.at = "sent", !.gen = generation,
                                                   !.req.do = do, !.req.arg = arg]]
    /\ UNCHANGED <<ledger, library, events, replies>>

Forget(c) ==
    /\ client[c].at = "told"
    /\ client' = [client EXCEPT ![c] = Nowhere]
    /\ UNCHANGED <<ledger, library, events, replies>>

-----------------------------------------------------------------------------
(* What the server checks of each request. *)

Request(c) == client[c].req
Decides(c) == Request(c).do \in {"favour", "unfavour", "reject", "bulk", "rest", "undo"}

\* A mistake: the photos are not asked for their revisions.
BugAsSeen(c, S) == S \subseteq DOMAIN client[c].rows
AsSeen(c, S) == \A e \in S : decisions[e].rev = client[c].rows[e].rev
\* The client confirms a rejection of favourites where it saw one.
Confirmed(c, S) == \A e \in S : ~decisions[e].fav \/ \E x \in S : client[c].rows[x].fav

\* The stack the client means, with the revision it saw.
TheStack(c) == {s \in jobs[client[c].of].rows : s.members = Request(c).arg /\ s \in client[c].stacks}
Rest(c) == UNION {s.members \ {s.cover} : s \in TheStack(c)}

Allowed(c) ==
    LET r == Request(c)
        a == r.arg
    IN \/ r.do \in {"favour", "unfavour", "reject"} /\ AsSeen(c, a) /\ \A e \in a : entities[e].cur
       \/ r.do = "bulk" /\ AsSeen(c, a) /\ Confirmed(c, a) /\ \A e \in a : entities[e].cur
       \/ /\ r.do = "rest" /\ Ready(client[c].of)
          /\ Rest(c) # {} /\ Confirmed(c, Rest(c)) /\ \A e \in Rest(c) : entities[e].cur
       \/ r.do = "cover" /\ client[c].of \in Served /\ TheStack(c) # {}
       \/ /\ r.do = "undo"
          /\ \A k \in a : \A v \in Rejections(k) : decisions[v.e].rev = v.after.rev
          /\ ~\E v \in events : v.undoes \in a
       \/ r.do \in {"catalog", "start", "restart"}
       \/ r.do \in {"organization", "stacks", "junk"} /\ HasCatalog
       \/ r.do = "feedback" /\ \A i \in a : Ready(i) /\ jobs[i].rows # {}
       \/ r.do \in {"pause", "resume"} /\ CanControl

-----------------------------------------------------------------------------
(* What a request changes. *)

Bumped(e, fav, rej) == [fav |-> fav, rej |-> rej, rev |-> decisions[e].rev + 1]
BulkRejected(S) == [e \in S |-> Bumped(e, decisions[e].fav, TRUE)]
RestRejected(c) == [e \in Rest(c) |-> Bumped(e, decisions[e].fav, TRUE)]
Undone(keys) ==
    LET old == UNION {Rejections(k) : k \in keys}
        was(e) == The({v.before : v \in {x \in old : x.e = e}})
    IN [e \in {v.e : v \in old} |-> Bumped(e, was(e).fav, was(e).rej)]
\* The client sends the whole state: what it changes, and the rest as it saw it.
StateSet(do, S, saw) ==
    CASE do = "favour" -> [e \in S |-> Bumped(e, TRUE, saw[e].rej)]
      [] do = "unfavour" -> [e \in S |-> Bumped(e, FALSE, saw[e].rej)]
      [] OTHER -> [e \in S |-> Bumped(e, saw[e].fav, TRUE)]

\* The new state of each photo a request decides.
Decided(c) ==
    LET r == Request(c)
    IN CASE r.do = "bulk" -> BulkRejected(r.arg)
         [] r.do = "rest" -> RestRejected(c)
         [] r.do = "undo" -> Undone(r.arg)
         [] OTHER -> StateSet(r.do, r.arg, client[c].rows)

\* A favourite set or taken back: the verdicts of the junk profiles that are
\* ready, their counts moved by the difference.
Moved(n, old, new) == n + (IF new THEN 1 ELSE 0) - (IF old THEN 1 ELSE 0)
Reviewed(j, e, fav) ==
    LET old == The({r \in j.rows : r.e = e})
        shielded == fav /\ j.key[2] /\ old.agrees
        new == [old EXCEPT !.shielded = shielded, !.hidden = old.agrees /\ ~shielded]
    IN [j EXCEPT !.rows = (@ \ {old}) \union {new},
                 !.tally = <<Moved(@[1], old.hidden, new.hidden), Moved(@[2], old.shielded, new.shielded)>>]
\* A mistake: only the profile of the default settings is brought up to date.
BugJudged(e) == {i \in Of(jobs, "junk") : Ready(i) /\ jobs[i].key = DefaultJunk /\ \E r \in jobs[i].rows : r.e = e}
Judged(e) == {i \in Of(jobs, "junk") : Ready(i) /\ \E r \in jobs[i].rows : r.e = e}
Refresh(e, fav) ==
    [i \in DOMAIN jobs |-> IF i \in Judged(e) THEN Reviewed(jobs[i], e, fav) ELSE jobs[i]]

Decide(c) ==
    LET r == Request(c)
        to == Decided(c)
        turned == {e \in DOMAIN to : to[e].fav # decisions[e].fav}
    IN /\ decisions' = [e \in Asset |-> IF e \in DOMAIN to THEN to[e] ELSE decisions[e]]
       /\ events' = events \union
            {[e |-> e, do |-> r.do, key |-> r.key, before |-> decisions[e], after |-> to[e],
              undoes |-> IF r.do = "undo" THEN The(r.arg) ELSE 0] : e \in DOMAIN to}
       /\ IF r.do \in {"favour", "unfavour"} /\ turned # {}
          THEN /\ jobs' = Refresh(The(turned), to[The(turned)].fav)
               /\ raced' = raced \ {<<i, The(turned)>> : i \in Judged(The(turned))}
          ELSE UNCHANGED <<jobs, raced>>

\* A cover, by hand or as it was ranked.
Covered(c, e) ==
    LET s == The(TheStack(c))
    IN [jobs EXCEPT ![client[c].of].rows = (@ \ {s}) \union {[s EXCEPT !.cover = e, !.rev = @ + 1]}]

\* Feedback on a junk profile: enough of it asks for its calibration, which
\* moves the bar by at most one.
Heard(c, i, by) ==
    LET got == jobs[i].plan.owed \union {Request(c).key}
        told == [jobs EXCEPT ![i].plan.owed = IF Cardinality(got) < Feedback THEN got ELSE {}]
    IN IF Cardinality(got) < Feedback THEN told
       ELSE New(told, "calibrate", <<jobs[i].key[1] + by, jobs[i].key[2]>>, 0).jobs

LooseJunk == <<DefaultBar + 1, FALSE, 0>>

PrepareLibrary == NewCatalog(jobs).jobs
PrepareOrganization == Organization(jobs, TRUE).jobs
CreateStackProfile == StackProfile(jobs, "fine").jobs
CreateJunkProfile == JunkProfile(jobs, LooseJunk).jobs
ControlBackfill(do) ==
    CASE do = "start" -> Started(jobs, FALSE)
      [] do = "restart" -> Started(jobs, TRUE)
      [] do = "pause" -> Paused(jobs)
      [] OTHER -> Resumed(jobs)

Enqueue(c) ==
    LET do == Request(c).do
    IN \/ do = "cover" /\ \E e \in Request(c).arg : jobs' = Covered(c, e)
       \/ do = "catalog" /\ jobs' = PrepareLibrary
       \/ do = "organization" /\ jobs' = PrepareOrganization
       \/ do = "stacks" /\ jobs' = CreateStackProfile
       \/ do = "junk" /\ jobs' = CreateJunkProfile
       \/ do = "feedback" /\ \E by \in -1..1 : jobs' = Heard(c, The(Request(c).arg), by)
       \/ do \in {"start", "restart", "pause", "resume"} /\ jobs' = ControlBackfill(do)

-----------------------------------------------------------------------------
(* One transaction per request, and an answer that may be lost on its way. *)

Answered(c, what) ==
    \/ client' = [client EXCEPT ![c] = [@ EXCEPT !.at = "told", !.told = what]] /\ UNCHANGED budget
    \/ Spend("lost") /\ UNCHANGED client

Replay(c) ==
    /\ client[c].at = "sent" /\ Request(c).key \in replies
    /\ Answered(c, "ok")
    /\ UNCHANGED <<jobs, worker, holder, library, events, replies>>

Advanced(c) == generation + 1

Accept(c) ==
    /\ client[c].at = "sent" /\ Request(c).key \notin replies
    /\ client[c].gen = generation /\ Allowed(c)
    /\ IF Decides(c) THEN Decide(c) ELSE Enqueue(c) /\ UNCHANGED <<decisions, events, raced>>
    /\ generation' = Advanced(c)
    /\ replies' = replies \union {Request(c).key}
    /\ Answered(c, "ok")
    /\ UNCHANGED <<worker, holder, verified, entities, inputs>>

\* A mistake: the generation is looked at before the key.
BugRefuse(c) ==
    /\ client[c].at = "sent"
    /\ ~(client[c].gen = generation /\ Allowed(c))
    /\ Answered(c, "refused")
    /\ UNCHANGED <<jobs, worker, holder, library, events, replies>>
Refuse(c) ==
    /\ client[c].at = "sent" /\ Request(c).key \notin replies
    /\ ~(client[c].gen = generation /\ Allowed(c))
    /\ Answered(c, "refused")
    /\ UNCHANGED <<jobs, worker, holder, library, events, replies>>

\* The readings that ask for what is not there: a view of this catalog at this
\* generation, the rollups, the default profiles, the first catalog.
Current(kind) == \E i \in Of(jobs, kind) : jobs[i].gen = Catalog /\ jobs[i].cur
ViewPage(query) == Profile(jobs, "view", <<query, generation>>, Catalog).jobs
OrganizationStatus == Organization(jobs, FALSE).jobs
StackStatus == IF Current("stacks") THEN jobs ELSE StackProfile(jobs, "default").jobs
JunkStatus == IF Current("junk") THEN jobs ELSE JunkProfile(jobs, DefaultJunk).jobs
FirstCatalog ==
    IF \E i \in Of(jobs, "catalog") : jobs[i].cur /\ jobs[i].row # "error" THEN jobs ELSE NewCatalog(jobs).jobs

Visit ==
    /\ Spend("get")
    /\ \E what \in budget.gets :
         IF HasCatalog
         THEN \/ what = "view" /\ \E q \in Query : jobs' = ViewPage(q)
              \/ what = "organization" /\ jobs' = OrganizationStatus
              \/ what = "stacks" /\ jobs' = StackStatus
              \/ what = "junk" /\ jobs' = JunkStatus
         ELSE jobs' = FirstCatalog
    /\ UNCHANGED <<worker, holder, library, desk>>

Next ==
    \/ \E w \in Worker : (Wake(w) \/ Fail(w) \/ Kill(w)) /\ UNCHANGED <<library, desk>>
    \/ \E w \in Worker : Work(w) /\ UNCHANGED desk
    \/ \E c \in Client : Look(c) \/ Send(c) \/ Replay(c) \/ Accept(c) \/ Refuse(c) \/ Forget(c)
    \/ Visit
    \/ Import /\ UNCHANGED desk

\* A worker that is up goes on; nothing starts one again.
Spec == Init /\ [][Next]_vars /\ \A w \in Worker : WF_vars(Work(w) /\ UNCHANGED desk)

-----------------------------------------------------------------------------
(* What must hold. *)

\* Every decision is on record: the events of a photo are a chain without a gap
\* that ends in its state, a key decides once and is undone once, and a client
\* is told what came of its request however often its answers were lost.
DecisionsAreKept ==
    /\ \A e \in Asset :
         LET mine == {v \in events : v.e = e}
         IN /\ Cardinality(mine) + 1 >= decisions[e].rev
            /\ \A v \in mine : /\ v.after.rev = v.before.rev + 1
                               /\ v.after = decisions[e] \/ \E n \in mine : n.before = v.after
    /\ \A v, n \in events : (v.e = n.e /\ (v.key = n.key \/ v.before.rev = n.before.rev
                                           \/ (v.undoes = n.undoes /\ v.undoes # 0))) => v = n
    /\ \A c \in Client : client[c].at = "told" => (client[c].told = "ok") = (Request(c).key \in replies)

\* What a request overwrites is what its client saw, however the page was torn.
\* Undoing takes back what nothing has come after; the rest of a stack may hold
\* a photo decided meanwhile, but not the first favourite of it.
NothingIsOverwrittenUnseen ==
    [][\A c \in Client : Request(c).key \in replies' \ replies =>
         \A e \in Asset : decisions'[e] # decisions[e] =>
            CASE Request(c).do = "undo" -> \E v \in events : v.e = e /\ v.key \in Request(c).arg /\ v.after = decisions[e]
              [] Request(c).do = "rest" -> /\ decisions'[e].fav = decisions[e].fav
                                           /\ decisions[e].fav => \E x \in Asset : client[c].rows[x].fav
              [] OTHER -> decisions[e] = client[c].rows[e]]_vars

\* A view that answers a query of this catalog at this generation is the answer,
\* whatever was decided, catalogued or put back in the queue while it was read.
ViewsAreFresh ==
    \A i \in Of(jobs, "view") :
        (jobs[i].row = "ready" /\ jobs[i].gen = Catalog /\ jobs[i].key[2] = generation)
            => jobs[i].rows = Answer(jobs[i].key[1], Catalog)

\* A protected favourite is never hidden and its counts are right, but where it
\* was set between the reading and the writing of a run, until it is set again.
FavouritesAreShielded ==
    \A i \in Of(jobs, "junk") : Ready(i) =>
        /\ jobs[i].tally = Tally(jobs[i].rows)
        /\ \A r \in jobs[i].rows : <<i, r.e>> \in raced \/
             /\ r.shielded = (decisions[r.e].fav /\ jobs[i].key[2] /\ r.agrees)
             /\ r.hidden = (r.agrees /\ ~r.shielded)

\* A page that is served answers what it is asked now, however late the run that
\* filled it (review_library.py:837, review_junk.py:519).
PagesAreRight == ViewsAreFresh /\ FavouritesAreShielded

\* The stacks of this catalog on show stay on show and as they are but for the
\* covers clients set, unless the profile of another catalog comes out late.
StacksStay ==
    [][\A i \in Served :
         \/ Catalog' # Catalog
         \/ \E k \in Of(jobs, "stacks") : /\ jobs[k].gen # jobs[i].gen
                                          /\ jobs[k].row # "ready" /\ jobs'[k].row = "ready"
         \/ /\ i \in Served'
            /\ jobs'[i].rows = jobs[i].rows \/ \E c \in Client : Request(c).do = "cover" /\ Request(c).key \in replies' \ replies]_vars

\* Where a backfill may stay for good: no worker is up, it or what it waits for
\* is held or has failed, or a killed worker left that running.
Stalled(i) ==
    LET p == jobs[i].plan
    IN \/ \A w \in Worker : At(w, "down")
       \/ jobs[i].held
       \/ \E k \in p.kids : jobs[k].held \/ (jobs[k].status = "failed" /\ p.phase # "inventory")
       \/ \E k \in p.kids \union {i} : /\ jobs[k].status = "running"
                                       /\ ~\E w \in Worker : Working(w) /\ worker[w].job = k

\* A backfill ends, in completion or in one of the ways it can be left.
BackfillEnds == <>[](\A i \in Backfills : jobs[i].status \in Done \/ Stalled(i))

\* A completed backfill has kept its word: what was verified when it was asked for
\* has been preprocessed, or has failed, and is in the catalog by its raw image or itself.
BackfillKeepsItsWord ==
    \A i \in Backfills : jobs[i].status = "completed" =>
        \A a \in jobs[i].plan.owed :
            /\ \E k \in Of(jobs, "asset") : jobs[k].key = <<a>> /\ (jobs[k].status \in Done \/ i # Latest)
            /\ entities[a].cur \/ entities[RawOf[a]].cur

\* A backfill ends, and where it has completed it has done what it was asked for
\* (review_backfill.py:310).
BackfillEndsWell == []BackfillKeepsItsWord /\ BackfillEnds
=============================================================================
