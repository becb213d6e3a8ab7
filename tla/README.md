# Verification of photos

TLA+ modules, TLC runs and TLAPS proofs for the photo vault: a one-shot pipeline
(`archive/pipeline/`) that catalogues a MediaVault object store, derives
fingerprints, groups and stacks from it and in the end moves the kept objects
into the vault and destroys the rest; and a live website (`photolib/`, `ui/`)
that serves the catalogue, lets the user decide what is kept, and rebuilds the
tiles it shows on a click; four offline passes decide which tiles are one stack.
A retired first version (`archive/v1`) with its own vault, workers and review
website is kept beside them and shares no state with them; two parts of it are
modelled, its intake and its review desk. A labelling harness (`harness/`) takes
no part.

Line numbers refer to the sources this project sits beside. `PROJECT.json` maps
every definition to the lines it translates.

## 1. Inventory

| Part | State it keeps | Operations | What is hard, and what makes it correct |
|---|---|---|---|
| **Promotion** `promote.py` | names and links on disk, `file.state`, the `promotion` ledger, `promote-unlink.log` | `--execute`, `--repair`, `--limit`; `promote_one`, `stage_rename_one`, `unlink_one`, two recoveries | Kills between effects, blocked deletes, strangers at target names, verdicts that change between runs. Bytes are never lost, a read-only file never has two names, the three records agree with the disk. |
| **Run locks** `promote.py`, `phase2a.py` | one lock file each | enter, liveness probe, takeover, exit | Killed holders, simultaneous starts, a probe that is a Ctrl-C on Windows. Mutual exclusion; no wedged pipeline. |
| **Verification** `promote_verify.py` | none (reads disk, ledger, log) | rehash, leftovers, reconcile | It must accept what promotion leaves behind. |
| **Phase 2a / 2b** `phase2a.py`, `phase2b.py` | `file` rows, derivative and tile files, staged copies; a worklist and a queue of uncommitted answers per pass | re-hash, ARW repair, features; clear errors, stage, decode | Kills between a file and its row, answers committed late, passes run out of order. A row says which pixels are on disk and which were measured; `state` only goes forward; everything decodable is measured in the end. |
| **Decode pool** `decode.py` | two queues, the books of what each worker does, worker processes | submit, deliver, collect, reap, results | Workers hang, answer late or die; the reaper kills by the books, which lag. One answer per task; the pass ends. |
| **Adoption** `adopt_mediavault.py` | `file` rows for objects found in MediaVault | survey, adopt, backfill | The same object seen by adoption and inventory. |
| **Inventory** `inventory.py`, `origins.py` | a work database (`disk`, `snap`, `repo_hash`, `subtree`), `file` and `origin` rows, `origins.jsonl` | phases a to e, export | Five resumable runs over one work database while files change: what a kill left decides what the next one skips. Nothing is destroyed on the word of a comparison that was not made. |
| **Capture time** `capture_time.py` | `file.taken_at`, `taken_src` | resolve every file again | Evidence arrives later, from any copy. A date gets better or stays. |
| **Derivatives** `thumbnails.py`, `features.py`, `prefilter.py`, `substrates.py` | one file per digest and tier | worklist, batch, resume | Two programs write the same tile. |
| **Fingerprints** `fingerprints.py` | keypoints per image | worklist, batch | Batch commits; stale worklists. |
| **Candidates, matches** `candidates.py`, `matches.py` | candidate pairs, verified matches | `worklist`, screen, check, resume | The resume counts stored rows rather than asking which pairs are owed: stale rows hide new partners. |
| **Membership** `membership.py` | `stack_member` | worklist, place, place_all | Order of the linkage walk, holes filled later. |
| **Grouping** `group.py` | `photo`, `photo_member`, two indexes, `near_dup` | `rebuild`, `extend` | Reads before `BEGIN`; `extend` must end where `rebuild` would, in whatever order files arrive. |
| **Rebuild runner** `rebuild.py` | idle/running/done/failed, one thread | start, the two steps (snapshot, tiles), status | Single flight; decisions written meanwhile; a step that dies; memos dropped before `done`. |
| **Grid and browse** `grid.py`, `browse.py` | memos under one lock | page, counts, invalidate | A memo of one generation read under the next; keyset paging over a moving table. |
| **Triage** `triage.py`, `triage_api.py`, `triage_screens.py` | ordered rules, overrides | create, move, delete, toggle, override | Renumbering; a verdict generated as SQL; counts of a rule not added yet; pages read while rules move. |
| **Migrations** `migrate.py`, `db.py` | `schema_version` of two WAL databases | apply | One transaction over two files is atomic per file only; other migrators and writers. |
| **Backup, restore** `backup_state.py`, `restore_state.py` | snapshots of the state database | snapshot, restore | The lock probe is released before the replace; a kill between the replace and the removal of the `-wal`. |
| **Web client** `ui/src/lib/*.js` | loaded pages, selection, undo | load, select, walk | Late answers of an earlier query; selection against reload. |
| **v1, the intake** `review_imports.py`, `review_copy.py`, `review_stage6.py`, `review_runtime.py` | a manifest of the inbox, approvals that snapshot it, copy jobs with a lease and a control state, assets and their objects | scan, decide, preflight, approve, authorize, copy, pause, resume, cancel | Files edited at any time; a scan, a newer approval, a failure or a death between two commits of a copy; every object published once, with the bytes that were approved; complete means kept. |
| **v1, the review desk** `review_library.py`, `review_organization.py`, `review_stacks.py`, `review_junk.py`, `review_backfill.py`, `review_api.py` | a ledger of jobs, a catalog of logical photos by generation, views, stack and junk profiles, decisions with revisions, idempotency records | a worker's loop and recovery, one job per kind, some twenty requests | Jobs read and commit in batches while clients decide and the catalog moves on; lost answers sent again. No decision is lost or done twice; what a page shows is what it should. |
| **Label harness** `harness/` | labels file | label, calibrate | Outside the serving path. |

The parts of the present version meet in three places: the catalogue and state databases (every
part reads `file`; adoption, inventory and phases 2a and 2b bring a row to `read`
or `staged`, only promotion moves it on), the object store on disk, and the saved rule set,
which the website writes while a promotion that read it at its start is still running. The two parts of v1 meet in
the ledger, which one worker loop serves, under one writer lock.

## 2. Modules

| Module | Models |
|---|---|
| `Custody` | The abstract promise of promotion: each object's bytes are in MediaVault, in the vault or nowhere; a move is one step; destruction needs a verdict. |
| `Promote` | `promote.py`, one action per effect a kill can separate, with the world outside as actions of its own. Implements `Custody` (`ImplementsCustody`). |
| `PromoteInv` | The inductive invariant of `Promote`. |
| `MCPromote` | For TLC, with three histories: the objects left without a read-only name (`bare`), those killed behind their log line (`relogged`), and `calm`. |
| `RunLock` | The lock file, one action per system call, for both programs. |
| `MCRunLock` | For TLC. |
| `Stacking` | `fingerprints.py`, `candidates.py`, `matches.py`, `membership.py`: four passes, their worklists, batches and kills, over tiles that `group.py` replaces and derivatives that `substrates.py` fills in. |
| `StackingWalk` | The walks of the code (`runs`, `link`, `place`), compared with the definitions `Stacking` uses. |
| `MCStacking` | For TLC. |
| `Rebuild` | `rebuild.py` with the programs it spawns (`backup_state.py`, `group.py`), the decisions of `triage_api.py`, a group run from a console. |
| `Grid` | Extends `Rebuild`: the memos of `grid.py` and the threads that fill and read them. |
| `Sheet` | Extends `Grid`: the contact sheet of `ui/src/lib/sheet.js` paging through `grid.py` and `browse.py`. |
| `WebsiteProofs` | The theorems of `Rebuild`, `Grid`, `Sheet` and `Triage`. |
| `MCSheet` | For TLC. |
| `DecodePool` | `decode.py`'s pool with the pumps that feed it and the caller that drains it. |
| `Ingest` | `adopt_mediavault.py`, `inventory.py`, `phase2a.py`, `phase2b.py`, `thumbnails.py`: how a row comes to its features. |
| `IngestProofs` | Its theorems and those of `DecodePool`. |
| `MCIngest` | For TLC. |
| `Databases` | `migrate.py`, `restore_state.py`, `backup_state.py`, `db.py`: the two databases as files. |
| `DatabasesProofs` | Its theorems and those of `RunLock`. |
| `MCDatabases` | For TLC. |
| `Triage` | `triage.py`, `triage_api.py`, `triage_screens.py`, `triage_survey.py`: the rules, their verdict, its counts, its sheet. |
| `MCTriage` | For TLC. |
| `Inventory` | `inventory.py`: the five phases that compare the photos root with its backup, with adoption beside them. |
| `Origins` | Extends `Inventory`: `origins.py`, the map of hashes to paths, appended to and killed. |
| `ArchiveProofs` | The theorems of `Inventory`, `Origins` and `Promote`. |
| `MCInventory` | For TLC. |
| `Grouping` | `group.py` and `capture_time.py`: dates, tiles, near-duplicates, built whole and incrementally. |
| `GroupingProofs` | The theorems of `Grouping`, `Stacking` and `StackingWalk`. |
| `SetTheorems` | Lemmas of finite sets for the other proofs: folds, least elements, ordered lists. |
| `MCGrouping` | For TLC. |
| `VaultJobs` | v1's ledger of jobs, the worker's loop over it, the writer lock, failing and recovery. |
| `VaultStages` | Extends `VaultJobs`: what each kind of job does, one action per commit, what it read before kept in the worker. |
| `VaultBackfill` | Extends `VaultStages`: the coordinator that asks for all other jobs in turn, and the preprocessing of an asset. |
| `VaultDesk` | Extends `VaultBackfill`: the review API and its clients, and the specification. |
| `VaultDeskProofs` | Its theorems, which are those of the four modules together. |
| `MCVaultReview` | For TLC. |
| `VaultInbox` | v1's inbox, its scan, the manifest and the decisions; the worker's loop as the intake sees it. |
| `VaultCopy` | Extends `VaultInbox`: preflight, approval, execution, the copy, its controls and recovery, and the specification. |
| `VaultCopyProofs` | Its theorems. |
| `MCVaultCopy` | For TLC. |

Each module carries, beside the definitions of the code, the mistakes (`Bug...`)
that its properties are tried against: a run in which one of them stands in for
the definition must fail.

### Promote

| Model | Code |
|---|---|
| `src[o]`, `tgt[o]` | The file the object's source name and vault name are bound to (`identity`). `orig` is the object's own file, `twin` a separate file with the same bytes, `alien` one with others. |
| `shared`, `ro` | A third name outside both roots; `FILE_ATTRIBUTE_READONLY`, kept per file and not per name, as NTFS does. |
| `fstate[o]` | `file.state`: `read`, `staged`, then `published` or `excluded`. |
| `row[o]` | The ledger row: `intent` and `status`, upserted by `record`, closed by `finish`. |
| `log[o]` | The completed lines of the delete log, counted to two. |
| `kept[o]` | The verdict of the saved rules and overrides now. |
| `mode`, `job`, `todo`, `cur`, `pc` | The process: what it was asked, the worklist it computed, where it is. |

`StartExecute` and `StartRepair` are `run`: the worklist, the verdict as it is
then, `--limit` taking the same number from each intent. `Chosen` is the order
of `execute` (promotions, staged renames, deletes), `Called` the dispatch
there and in `repair`, which hands every row that is not an unlink to
`promote_one`. Each `promote_one` step is an action: intent, preconditions,
link, proof, delete, seal, finish, log line. A database transaction is one
action; so is `clear_readonly` with the delete it precedes, because what the
attribute holds between the two changes nothing another step reads.

The world outside: `Kill` stops the process anywhere and keeps what the disk,
the transactions and the flushed log hold; it also stands for the free-space
guard's refusal between two batches. `Arrive` puts a stranger at a free vault
name. `Decide` changes a verdict, which a running process does not see. The
fault kinds `busy`, `degraded`, `linkerror`, `shared`, `readonly` give the
system calls their other answers.

### RunLock

Creation with `O_EXCL`, reading the pid, the probe, the takeover and the
release are separate actions. `overlap` says whether two runs may be started
at the same moment, `signals` whether the probe is `promote.py`'s
`os.kill(pid, 0)`, which Windows delivers as Ctrl-C, or `phase2a.py`'s process
handle. Both are chosen once, in `Init`. A pid is not reused in the model.

### Stacking

| Model | Code |
|---|---|
| a frame | Its place in the population's order (`_POPULATION`: camera, time, sha256). Its camera, second, fingerprint cosines and Matches are constants of the instance. |
| `tiles`, `substrate` | The dated rows of `photo`; the 1536px derivative on disk, which may be missing or undecodable. |
| `screen`, `at` | The `SCREEN` constant in the source, and the one the running process started with. |
| `vector`, `pair`, `matched`, `stack` | `fingerprint`, `candidate_pair` with its verdict, `pair_match`, `stack_member`. |
| `todo[pass][frame]` | What is left of a pass's worklist, which it computes once; `--limit` keeps a prefix of it. Empty, the pass is not running. |
| `seen` | The Matches `membership.py` read when it started. |
| `lapsed`, `late` | Histories: the tables that may hold rows of an earlier population, and the Matches no placing has read. |

The fence is stated as "every cut between two frames of a run is bridged by two
tiles no further apart than the ceiling". In this form it is plainly monotone in
the tiles, which the proofs need; `RunsAreTheFence` compares it with the code's
walk in `StackingWalk`, and `WalkDrawsTheCut` does the same for the linkage.
A batch of a pass is one action, since it is one transaction; a kill is possible
before each. `refuse_if_busy` changes nothing and is no action.

### Rebuild, Grid, Sheet

| Model | Code |
|---|---|
| a photograph | Its sha256; its number is its place among them. Files that form one tile are one photograph. |
| `excluded`, `tiles`, `restore` | `triage_override`, the rows of `photo`, the newest snapshot. |
| `state`, `thread[w]` | `Rebuild._state`, and where a `_work` thread is. There are two threads so that a second flight could happen. |
| `group[g]`, `kept[g]` | A `group.py` process of either thread or of a console, and the kept set it read before its transaction. |
| `memo`, `lock` | `_totals` and `_assignments` for the view looked at, known by the tiles they were computed from, and `_totals_lock`; `_facets` is one more memo of the same kind. |
| `at[r]`, `view[r]`, `got[r]` | A server thread on its way through `_photos`. |
| `items`, `cursor`, `exhausted`, `inflight`, `mine[r]` | `sheet.js`; `mine` says whether an answer to come is of the sheet's generation. |
| `Id(S, p)` | `photo.id`: a rebuild numbers the tiles anew in sha256 order. Assignments and cursors hold ids. |
| `touched`, `overtaken`, `unheard`, `calm` | Histories: decisions since the last start; whether a console run had loaded before it; whose tiles came since the memos were dropped; whether the sheet's tiles are those it was reset over. |

The statements that read one page (`_covers`, `_by_id`, the keyset read) are one
action: a COMMIT between two of them does what one before them does. A group
process that is refused an empty kept set, or dies, ends with another code than
0. A console process also stands for one whose server was killed under it.

### DecodePool

| Model | Code |
|---|---|
| `pump[p]`, `next` | A thread of the `ThreadPoolExecutor` and the task it reads; the tasks none has taken. |
| `inQ`, `readLock`, `outQ` | The two multiprocessing queues, and the lock a worker holds while it waits in `_in_q.get()`. |
| `worker[w]` | A process: where it is, its task, the messages its feeder thread has not written. A process that ends takes the last two with it, and the lock if it held it. |
| `active`, `done`, `overdue` | `_active`, `_done`, the reaper's list between its lock and its kills. |
| `out`, `told`, `caller` | `_out`, what `results()` has yielded, and the way from there through the executor's exit to `__exit__`. |
| `blind` | History: a process ended and took something the parent had not been told. |

Time is left out: an entry of `active` may be found overdue at any moment, which
covers the slow decode and the hung one, and lets a late answer race the reaper.
What a decode returns is left out.

### Ingest

| Model | Code |
|---|---|
| `row[f]` | The row of `file`: its state, where `vault_relpath` points, which pixels `quality` was measured on, what `deriv_rot` says. |
| `object`, `deriv`, `tile`, `blob` | MediaVault's objects, the 1536px substrate, the 384px tile, the verified copies under the staging root. |
| `run[p]` | One process of each program: its pass and the passes to come, its worklist with the rows as listed, the tiers put down of a file under way, the answers not committed. |
| `locked` | `phase2a.lock` exists. All that `phase2b` asks of it; the lock itself is `RunLock`. |
| `kept` | The verdict of the rule set, for staging and promotion. |
| `pasted` | History: tiles that `thumbnails.py` wrote over one that was there; it takes no lock. |

Each pass loads its worklist when it begins, answers its files in any order, as
pools do, and commits what is queued at any moment: a batch's size is left out.
A kill loses the queue and keeps the files. `Promote` stands for the whole of
promotion of one object, whose steps are the module of that name. What a run is
asked (`--passes`, `--retry-errors`) is the plan it begins with.

### Databases

| Model | Code |
|---|---|
| `catalog` | The `schema_version` rows of `catalog.sqlite3`. |
| `base`, `wal`, `gen` | `state.sqlite3` without its `-wal`, the `-wal` (what it leads to, and which file it was written for), which file stands under the name. |
| `open`, `lock` | Who has the state file open, who holds the write lock of each file. |
| `mig[m]`, `stale` | A migrator on its way through `apply`, and those whose read snapshot a commit has overtaken. |
| `restore`, `backups` | `restore_state.restore` step by step, and the snapshots, whole or cut short. |
| `made`, `raced`, `cut` | Histories: decisions ever committed; a writer came in behind a restore's safety snapshot; a migrator killed between its two commits, or a snapshot of an older schema restored. |

SQLite and the file system are external, modelled from what the code relies on:
the commits of a two-file transaction come one after the other, a transaction
that has read a file somebody has committed to cannot write it, a `-wal` is
replayed into whatever file stands beside it, an open file cannot be replaced or
removed. A migration is a number; its script is left out.

### Triage

A predicate is the set of directories, or of buckets, that it covers, and
`triage_rule` a function from ids to `seq`, predicate and decision. `Winner` is
the generated SQL, the lower of the directory position and the `CASE` position;
`Kept` the verdict. Every write of `triage_api.py` is one immediate transaction
and one action, with the renumbering it ends in. `survey` is the table
`triage_survey.build` replaces, so it may be older than `size`, what a probe has
measured since. `sheet` is a client reading the contact sheet a page at a time;
its `steady` is a history, the paths it has covered ever since it was opened.

### Grouping

| Model | Code |
|---|---|
| a file, a path | A number in hash order with its pair class, dates, size and hash; a pair key, the date its name states, its mtime, whether it has an edit marker. A world of the instance fixes them. |
| `published`, `condemned`, `origins`, `taken` | `file.state`, `triage_override`, `origin`, `file.taken_at` and `taken_src`. |
| `photo`, `member`, `pairKey`, `nearBand`, `nearDup` | The five tables of `group.py`. |
| `sound` | History: tiled files nothing has been learnt or decided about since. |

`Components` and `Absorb` are the union-find and the merge of the code;
`Together` in the properties says what a group is without searching. A hash is
the set of its bits, pixels and bytes of a rank are one number. Either build is
one step: what happens between its reads and its COMMIT is `Rebuild`'s. A file
condemned since stops an `Extend` that would read its tile again, which the
code does by a `KeyError`.

### Inventory, Origins

| Model | Code |
|---|---|
| `file`, `stored` | The disk (bytes, size, mtime) and the repository, the snapshot first and top-ups later. |
| `disk`, `snap`, `repoHash`, `subtree` | The tables of the work database, whatever run wrote them. |
| `origin`, `rows` | The catalog's `origin` and the hashes with a row of `file`. |
| `run` | The process: the phase, the files still to hash or write, the directories and loose files to compare. |
| `map` | `origins.jsonl`: its whole lines, a last line without a newline, how it ends. |
| `topped`, `drift`, `since`, `excused`, `unseen`, `late`, `exported` | Histories: what a finished top-up answers for, what changed when, what was adopted while phase c was writing, what was on record at the last export. |

Bytes and hashes are numbers, the backed up ones 0, so that a file is as it was
backed up or one of its later selves. The end of the backup is the one moment
mtimes are compared with. A phase is a start, its loops file by file or
directory by directory, and an end; a refusal and a hard stop end it. Hashes are
committed by batch in the code and by file here, because a lost batch is files
not hashed yet. `restic` is external.

### The review desk of v1

| Model | Code |
|---|---|
| `jobs` | `background_jobs` joined with the row each fills (`library_materialized_views`, `stack_profiles`, `junk_profiles`, ...): kind, key, catalog generation, status, attempts, whether it is held, whether its row is current, what it holds. |
| `worker[w]`, `holder` | A worker process with what it has read and not yet written; the writer lock. |
| `entities`, `verified` | The logical photos with the generation that catalogued them; the assets whose object is verified. |
| `decisions`, `events`, `replies`, `generation` | `photo_user_state` with its revision, its event log, the idempotency records, the generation of the application. |
| `client[c]` | What a client saw, the request it made of it and what it was told. |
| `raced` | History: favourites set while a junk run had read them. |

A request is one immediate transaction and one action; a page is read in two
steps, its rows and then its generation, as `library_page` does. An answer may be
lost, and the client sends the request again with the same key. A job is split
where the code commits. SQLite is external: a connection that keeps a SELECT open
over its own commits reads from one snapshot and may write no more once another
connection has committed (`Open`, `Overtaken`).

### The intake of v1

| Model | Code |
|---|---|
| `file[i]` | What lies in the inbox: its bytes and its stamp (size, mtime, ctime). |
| `item[i]` | `import_items`: present, the stamp seen, class, hash, match, observation, decision and its revision, copy status, the approval it stands under, the asset it is a source of. |
| `batch`, `approval` | `import_batches`, and `import_batch_approvals` with the rows each snapshots. |
| `jobs` | The scan, preflight, execute and copy jobs: status, control state, attempts. |
| `store`, `asset` | The objects at their final names, and `object_status`. |
| `worker[w]`, `holder` | As above; a worker holds the lock while it scans and while it copies. |

Contents that hash alike are the same bytes, so the byte comparisons can only
disagree because somebody has edited a file in between, or because a foreign
file stands at an object's name. A partial file is not modelled apart: between
two commits it is in nobody's sight, and it is published by one `link`. A lease is
kept by heartbeats; that it has run out is seen only by the next claim, which in
the model may find any running copy late. Free space is taken as sufficient and
previews as made when a scan ends. `EndScan` is one step: the code releases the
lock, takes it again to enqueue the previews (`review_runtime.py:195`), which may be
refused and then fails the job, and completes the job after that. So are `Match`,
whose outcome and observation are two commits (`review_imports.py:1123`, 1126), and
`Discover`, which commits a directory at a time. An approval is one immediate transaction
(`review_api.py:3594`); `authorize_execution` reads before its own, and is one
step here (`Authorize`), so that what could come between is not in the model.

The writer lock of v1 excludes in the model (`Claim`, `StartScan`, and the review
desk's loop). The code's `VaultRunLock` (`core.py:342`) takes a lock file whose pid is not yet
written for a stale one and removes it, so two workers started at the same moment
may both hold it. What is checked and proved of v1 supposes that they are not; the
same race of the two pipeline locks is in `RunLock`.

## 3. Runs

| Run | Question | Bounds |
|---|---|---|
| `promote` | Do disk, ledger, log and state agree through every fault, is custody kept, does `promote_verify` find wrong exactly what interrupted steps left, does every object leave the worklist where only kills and blocked deletes stood in its way? | One MediaVault and one staged object, limits 1 and 2, all nine faults, three upsets, deletes blocked any number of times. |
| `runlock` | Mutual exclusion, no wedged lock. | Three processes, two kills, all four worlds. |
| `stacking` | Do the resumes miss nothing while no tile left, is the fence respected, is the pair table of one screen, are the stacks the walk's, is everything stacked in the end? Are the walks the definitions? | Three photographs and a video that alone bridges a gap, two screens, one missing or corrupt derivative at first, three opening tile sets, two upsets. |
| `serving` | Single flight, the decisions in the tiles, the restore point, fresh memos, the sheet against the view; does every run and every sheet come to an end? | Three photographs, two of one second and one stack, pages of one row, two server threads; the budgets of `MCSheet`. |
| `databases` | Why may the two files differ in version, can a migration land on a split, can a restore be undone, is the live file whole? | Two migrators, versions 0 to 2, two decisions; two worlds: three migrations with a kill, another writer and a server; one migration with a backup, a restore, a kill and two server starts. |
| `decode_pool` | One answer per task, nothing forgotten, does the pass end? | Three tasks, two workers, one pump, a queue of one, two deaths. |
| `ingest` | Do rows and disk agree, does `state` go forward, is everything measured? | An `.arw`, a `.jpg`, a video and a file MediaVault never saw, one at a time with two or three upsets (kill, failure, retry, partial run, promotion, verdict), and two of them together with a kill. |
| `triage` | Are the counts those of the paths, is the preview what adding does, does the sheet show what stayed in it? | Four paths of three contents, three predicates, three rules, pages of one path, two or three edits in five worlds. |
| `grouping` | Is an extend a rebuild, does it only merge, do dates only improve? | Four files, five paths, four or five edits in four worlds: copies chained by keys, one card with three clocks, hashes three bits apart, missing and impossible dates. |
| `inventory` | Is a hard stop ever drift, is a finished top-up complete and never made over a hard stop, do the hashes on record stay, does the map match the catalog? | Six paths (two in one directory, one in another, one loose, two the backup has not), two or three upsets in six worlds: kills, locked and unlisted files, four kinds of edits, files that come and go, a damaged repository, adoption with the right hash and a wrong one, exports. |
| `vault_review` | Is every decision kept, done once and told truly? Are views and junk pages what they should be, and is nothing overwritten that the client did not see? Do stacks stay? Does a backfill end, and was it all done then? | Three assets, one the raw image of another, batches of one and two, two attempts, two clients and two workers in twelve worlds. |
| `vault_intake` | Is what is published what was approved? Does complete mean kept? Does every job end, and which are left? | Two photographs, which may be the same, and a sidecar; two contents, two attempts, two workers, in thirteen worlds: edits, decisions, pauses and a cancel, rescans whole and partial, a newer approval, a second round, a foreign object, a file gone when it is compared, rescans that fail before they match, failures, a death with and without a restart. |

Some properties put together what belongs together, each part with its own name
and comment in the module: `NamesAndBooksAgree` of `promote` (a read-only file has
one name, published rows and missing bytes are explained), `DoneIsShown` and
`WaitingEnds` of `serving` (a finished run shows its decisions in fresh numbers;
runs and sheets end), `PassesResume` and `StacksAreTheWalks` of `stacking`,
`PhasesReportTruly` and `PhasesBuildOnEarlierOnes` of `inventory`,
`SplitsAreContained` of `databases`, `PagesAreRight` and `BackfillEndsWell` of
`vault_review`.

Two objects are enough where objects meet only through the order of the
worklist; the procedures never read another object's state. Three upsets allow
a stranger, a kill and a new verdict in any order, which is one of each kind
that the procedures tell apart.

`stacking` has four frames because a run needs a gap, a bridge over it and a
frame behind, and the strict majority needs two members and a third. Upsets are
changes of the tiles, of the screen, of a derivative, and kills; two let a pass
be killed and resumed in another world.

`serving` gives each behaviour one of six budgets of decisions, runs (the
website's and the console's), faults and changes of view, so that the run is the
union of six small worlds instead of the product of all: three decisions empty
the kept set; a decision between two runs lets one overtake the other; a fault
beside a run and a decision covers every death and restart; a change of view
beside a run and a decision, or beside a run and a fault, leaves an answer of the
old view in the air.

The later runs are built likewise: `Worlds` (or `Budgets`) is a set of small
worlds, one for each way things can get in each other's way, and a behaviour
lives in one of them. `databases`: a split needs a kill or a restore, a refused
migration a second migrator or another writer, an overrun restore a server
started twice. `decode_pool`: a worker must be able to answer late, take the next
task and be killed for the first, while another is idle, dies or waits with the
lock; two workers and three tasks do that. `ingest`: files meet only through the
batch and through the order of a worklist, hence one world with two; a file
has at most three programs after it, and each world holds every program that
touches its kind. `triage`: a rule in the middle needs two others around it or
behind it; the path with two names and two extensions is what makes the fold
count. `vault_review`: two clients that lose one answer, a job killed or failed
once and something asked for twice are each other's hazards in pairs, and a world
holds one pair; three assets give a catalog that retires a companion, a view of
three batches and a backfill of two. `vault_intake`: with two items a copy has an
item behind it and one before it when something comes between; twins meet in one
object; a second approval is as many as it takes to supersede one. In the worlds
with a second round the reviewer asks for the next thing when the workers have
nothing left to do (`patient`); in the others at any time. `grouping`: the chain needs a file in the middle, so three files, and a
fourth that arrives later; every batch of every subset is tried in every order.

Deadlock is not checked where a pass, a process or a reader
may have nothing left to do.

Where a property leaves out what the code cannot promise, a history or a premise says
so (`Orderly`, `lapsed`, `Masked`, `excused`, `cut`, `late`, `raced`, `Late`,
`Stranded`). The "note" of a hazard in `PROJECT.json` names the part of it that is left out so, and
section 5 says what the code does there.

**Fairness.** `FairSpec` of `Promote`: a started process takes its next step
(nothing in it waits, every retry is bounded by `DELETE_BACKOFF_MS`); the
operator runs `--execute` again while there is work, which the README of the
pipeline asks for; a delete tried again and again is not blocked for ever.
`RunLock`: a process inside a run goes on, and somebody starts another one.
`Stacking`: started passes go on and somebody starts each again without a limit.
The embedding and checking starts are strongly fair, because a corrupt
derivative keeps their worklists from being empty for good and `--limit` repeated
would stop at the same frames. `Sheet`: the job's thread and the programs it
spawned go on (each step ends or is ended by SQLite's busy timeout), a server
thread waits for nothing but the lock, whose holder waits for nothing, and the
reader scrolls on. Nobody is obliged to decide, start, change views or fail.
`DecodePool`: every thread and every waiting process is scheduled, and since the
clock moves an entry that stays is found overdue; a decode need not end and a
worker need not die. `Ingest`: adoption and inventory are run, a started process
goes on, and the operator runs the daily passes again; `phase2b`'s start is
strongly fair, because it may find `phase2a.lock` any number of times first.
`VaultDesk` and `VaultCopy`: a worker that is up and has something to do takes its
next step; that a worker is started, fails, is killed, and everything a person
does, is nobody's duty. What follows is less than one may expect, and the properties
name what is left behind (`Stalled`, `Stranded`). `databases`, `triage`,
`grouping` and `inventory` assume nothing and state no liveness: each of their steps is
somebody's wish.

## 4. Proofs

`PROJECT.json` lists the theorems and, where a run checks the same property on
a small instance, that property. A theorem of a property that puts others together
stands after the theorems of its parts. Several theorems state more than any run does:
types, the inductive invariants, and facts such as `ExcludedIsLogged`,
`StacksRestOnMatches` or `HeardIsFresh` that the properties of the runs rest on.

Promotion, in `ArchiveProofs`: for every set of objects, faults and bounds, from
`ObjectsAssumption` alone, `TypeCorrect`, `InductiveHolds`, and from the latter
each safety property of `promote` (`NamesAndBooksAlwaysAgree`, those it rests on, and
`VerifyFindsWhatWasLeft`, over the histories of `MCPromote`), the action property
`FinishedIsFinal` and the refinement `CustodyIsKept`.

The safety properties are not inductive: they speak of objects at rest. The
invariant `Inductive` adds what is known in the middle of the work: that the
object at work is a job whose intent matches the step (`FlowOK`), what the two
names hold at each step (`WorkOK`), that its ledger row is open (`RowOK`), that
an object with two names is writable and has no third (`TwoNames`), and what the
jobs behind the current one look like (`JobsBehind`). The step lemma has one
case per action. The refinement rests on two lemmas: a step that leaves both
names alone moves no bytes (`QuietStep`); the six actions that bind or remove a
name change the place of one object in one of the ways `Custody` allows
(`NameStep`). What `promote_verify` finds needs three
invariants more, each preserved by every step, kills included: only an object's own
file is ever set read-only and a target is hashed only for an object that was never
staged (`NamesInv`); where the source is gone the vault name is read-only exactly when
the object is not in `bare`, but while a run is between the delete and the seal
(`BareInv`); and a destruction has one log line, or more exactly when a run was
killed behind the line (`LoggedInv`).

`RunLock`, in `DatabasesProofs`: `LockInv` says that orderly contenders come one at a time, that
the one probing has read the holder's own pid, and that nobody holds the lock
once a contender clears it. `RunsExcludeEachOther` and `TheHolderIsNamed` follow,
for any number of processes and kills.

`Stacking`, in `GroupingProofs`: for every population, screen and bound, `InductiveHolds` and
from it types, the fence, one screen, the evidence of stacks and both tallies.
The invariant says of a worklist in flight what its rows will have to satisfy
when they are written, in terms of the histories; the lemmas the rest hangs on
are `FenceGrows` (arriving tiles only join runs), `TallyTells` (between two sets
one inside the other, equal counts mean equal sets) and `CutHasEvidence`.

`StacksAreTheWalks`, in `GroupingProofs`, in two halves.

* *What is on show is a cut of its run* (`StacksStayDrawn`). `Inductive` is not enough,
  since a worklist is a plan made for earlier tiles. `DrawnInv` adds `PlanOK`:
  there is a set T of tiles, those at the start of `place`, such that what is left
  to place are whole runs of T, each with a frame unplaced, and no tile that came later
  has a stack; and `ReadOK`: a Match that is not late was read by the placing. When
  `PlaceRun` writes the cut of a run of T and the run has grown since, a frame of
  it is unplaced and nothing is claimed (`RunWithin`); else it is the run of today, and every
  Match inside it that is not late was read, so the cut drawn is the cut asked
  for (`CutReadsItsRun`). `StacksAreDrawn` is about a table no population change
  made stale (`lapsed`), as the run's is.
* *The walks of the code compute what `Stacking` defines* (`WalksDraw`). `InOrder` is
  the one increasing list (`InOrderIs`), both walks are folds that put a frame into the last
  part or open one (`TakenIs`), and `Walked` carries an invariant over prefixes
  through such a fold. For `runs` it is `Fenced`: two frames so far are in one part
  exactly when no cut between them is unbridged among the frames so far. A new frame
  is compared with its neighbour only; `FenceStep` says that suffices, because the population
  is ordered by camera and time. For `link` it is `LinkCut`: naming each
  frame by the head of its part makes a cut of what was walked so far (`LinkGrows`).
  That there is no other cut is `CutIsOne`, by the least frame at which two would
  differ.

`Grouping`, in `GroupingProofs`, from `GroupingAssumption` alone, so for any files, paths,
worlds and any sequence of batches: all three properties of its run.

* `ComponentsAre`: the union-find gives two items one root exactly when a chain of edges
  joins them. `FoldSet` is a recursion over subsets; `BySubsets` is the induction over
  them (on the property written as a set, which the provers can instantiate),
  `FoldExists` says the fold is defined and `FoldKeeps` carries an invariant through it.
* `AbsorbIs`: what the merges of an `extend` make of the ids. The invariant of that fold is
  `Absorbed`: after the groups taken so far, two files share an id exactly when tiles and
  those groups chain them together, and the next id is above all in use. The
  proof needs a group to leave files of other tiles alone, hence `Ties`.
* `GroupingInv` is the inductive invariant. The rows of `pair_key` and `near_band` are
  what is known of a file as long as it is `sound`; every near-duplicate is tiled; every tile has members, the one it shows among them; and
  when all tiled files are sound the groups are the chains of the evidence, each with its
  best file and earliest date (`GroupsAre`). `RebuildIs` and `ExtendIs` establish it,
  `CalmStep` carries it through what is learnt and decided in between.
* The new files of an `extend` are compared with what shares a key or a band with them,
  nothing else; `EdgesAre` says that no pair is lost by this. For near-duplicates that is
  `CloseShareABand`: three differing bits cannot lie in all four bands.
* `OutranksOrders`: the rank is a total order, so the best file of a tile is one and the
  tiles of a rebuild and of an extend agree.
* `DatesInv` says that a date on record was read from what is known of the file now;
  `DatesOnlyImprove` follows rung by rung.

`WebsiteProofs`, of the serving side: for every set of photographs, number of server threads and
budget, over `GridSpec`, the job and the memos composed. `DecisionsAreShown`
is about the tiles and is carried by what the processes hold: a kept set loaded
after a start shows every older decision (`LoadedShows`), the tiles from the
COMMIT on (`CommittedShows`), and no empty set is loaded (`LoadedIsSome`).
`DoneMeansFresh` follows from `HeardMemosAreFresh`, which speaks of the request
that is filling a memo too, and from `JobIsHeard`: the tiles of the job were
heard of when its state says done.

The sheet, in `WebsiteProofs`, from `SheetAssumption`, for any times, stacks and page
length: `SheetAlwaysIsTheView`. The invariant `ScrollInv` says

* of the requests (`OurRequest`): one at most is of the sheet's generation, it is for
  the view on screen and the cursor in hand, and the flag in flight says exactly
  whether there is one; every other answer is dropped, and moves nothing;
* of the memos (`Unmixed`): while the tiles stay as they were heard, every memo, the
  one being filled and what our request took of either are of these tiles. At a
  reset this is `HeardMemosAreFresh`;
* of the rows (`Scrolled`): those on screen are the first k of the view, and the
  cursor stands at the k-th, or there is none at the end.

That the next page goes on at k + 1 (`PageIs`) rests on the order of the rows:
places are apart and totally ordered (`PlacesOrder`), so a view has a listing
(`ListingIs`), and the walk past a cursor stops behind the row it was taken from
(`PassedIs`). `ServesTheSheet` says that what `GridSpec` promises of the job and the
memos is kept under the sheet's requests too.

The pool, in `IngestProofs`, from `PoolAssumption`, for any number of tasks, workers,
pumps and deaths: `OneAnswerEach`. The invariant `PoolInv` follows a task from
the queue (`Waiting`) to the one worker that alone speaks of it (`Holds`,
`Owned`), says that of a task there is one start and then one answer, wherever
they are (`Sequenced`), that what is on the books or done has begun (`Booked`),
and that the reaper's list, `out` and `told` share no task (`AnswersOK`). Without
`Sequenced` a start read late would put an answered task on the books again.
`NothingIsForgotten` rests on `BooksInv`, which holds while every process that ended
had told the parent all: the messages of a worker come in the order of its tasks and
tell of the one it has (`Followed`), and every task is done, taken by nobody yet, or on
its way with some worker (`Known`).

`IngestProofs`, from `IngestAssumption`, for any files and worlds:
`RowsMatchTheDisk` and `StateGoesForward`. `IngestInv` follows an answer from the
tier it was computed from, through the queue, to the row it becomes: a file being
repaired has never been measured (`Repairs`), whether a file is turned is the
same when it is listed and when it is written (`Measures`), what is queued as
decoded or staged is on disk (`Decodes`, `Stages`).

`DatabasesProofs`, from `DatabasesAssumption`, for any migrators, checkouts and
budgets: `SplitIsExplained`, `NeverOntoASplit`, and `RestoreIsSafe` with its parts
`Undoable` and `LiveIsWhole`.
`DBInv`: both files hold the versions 1 to some n (`Numbered`); a migrator between
its script and its second commit holds its locks and what it read still stands
(`Moving`); from the fold on there is no `-wal` unless somebody came in behind the
restore (`Folded`); the decisions are in the live file or in a whole snapshot, and
in a snapshot while a restore is past its safety one (`Kept`).

`WebsiteProofs`, of triage, from `TriageAssumption`: `FirstMatchDecides` (for every rule list
and bucket, the lower of the two positions gives the verdict of the first rule
that matches) and `PreviewIsInsertion` (the previewed verdict of a bucket is that
of the list with the candidate put in) are facts about operators, for every
input. Three properties hold for every set of predicates, paths, page size and edits.

* `SheetAlwaysShowsTheSteady`: what is shown is at or before the cursor, and what has been
  covered throughout is shown or still ahead of it.
* `CountsAreAlwaysOfThePaths`: the order (seq, id) lists every rule once whatever was
  added, moved and deleted (`IdsAre`), so the rules are a list shorter than `NO_MATCH` to which
  `FirstMatchDecides` applies; the sum over the buckets is the number of their paths (`SumsUp`,
  by induction over the fold); the overrides add what the rules drop and take away what
  they keep, and nothing twice (`CountsAre`).
* `PreviewsComeTrue`: a table that was renumbered is listed as it was numbered (`NumberedAnew`), so
  the rules read after an insertion are the ones before with the new one at its
  place (`RulesAdded`). `PreviewIsInsertion` gives the verdicts; an overridden path is one the
  rule does not take, so the correction stays.

`VaultCopyProofs`, for any inbox, sidecars, contents, vault at the start, workers and
budgets: `PublishedAsApproved` and `CompleteMeansKept`. Both are about the moment of a
commit, so `CopyInv` follows a copy job from its claim on: whoever scans or copies
holds the writer lock and is alone in it; the job of a copying worker is running and
is the one of the approval in force (`ClaimInv`); a row of the manifest that is
under this approval is the row that was snapshotted, as far as the copy asks
(`ManifestInv`); an asset is verified only over an object with its bytes
(`VerifiedIsKept`), and what a complete batch approved is verified
(`CompleteIsVerified`).

The inventory, in `ArchiveProofs`, from `InventoryAssumption` (no file of the backup has the path of
the directory of another), for any paths, directories, edits and budgets:
`PhasesReportTruly` and `PhasesBuildOnEarlierOnes`. `PhasesInv` says what a worklist in
flight may hold (`Worklists`), what a dump in the repository is of (`Dumps`), that a row hashed
and not touched since has the hash of the file (`HashedAsIs`), what a hash that is not
known or differs may be put down to (`Honest`), that a directory down as
verified has nothing that differs (`VerifiedIsClean`), and that what c has still to write
agrees with what is on record (`WritesAgree`). Five runs go over the same tables, so
each part has to survive the start, the end and the kill of every one. `MapMatches`
rests on `MapInv` alone: what is in the map is on record, and what a finished export
wrote stays readable until an append is cut short.

`VaultDeskProofs`, from `JobsAssumption`, `StagesAssumption` (finitely many assets, numbered
from 1, each with its raw file among them) and `DeskAssumption` (the faults, requests and
budgets of a world are of their types), for any photographs, scenes, workers, clients,
batches and budgets: `DecisionsAreKept`, `NothingIsOverwrittenUnseen`, `PagesAreRight` and
`StacksStay`. `DeskInvariant` has two halves.

* `PagesInv` is about the ledger. A step is described once by what it does to each job:
  the job shows what it did (`Still`), is no longer current (`Shelved`), or is no longer
  ready (`Dropped`); only the job at work may do anything else (`MovesAt`), and a request
  only asks (`Asks`). A worker at a job holds the lock, so it is alone in it, its job is
  running and is of the kind the step is for (`WorkOK`). A view under way keeps the sum:
  what is written and what is still to be written together are the answer of its
  generation, and a generation that moved meanwhile makes the page stale rather than
  wrong. A junk profile agrees with the favourites, photo by photo, save those set
  between its reading and its writing (`Judges`, `raced`).
* `DeskInv` is about the clients. What a client saw of a photo is how it is, or was at an
  earlier revision (`Saw`), which is what makes the check of revisions enough; the
  keys given out are above the budget that is left, and no two clients share one
  (`Keys`); an event leads to the state in force or to the next event of its photo, no
  two events of a photo start from one revision, and there are no fewer than its
  revision asks for (`EventsOK`).

`StacksStay` needs no history: a page on show is a completed job, `PagesInv` says who
may touch one, and only `FinishStacks` of another generation may take it down (`Late`).

Checked by TLC only: all liveness (`CalmObjectsSettle`, `WaitingEnds`, `PassEnds`,
`JobsEnd` and the like), which rests on fairness.

## 5. What the code does otherwise than it says

Of promotion and the pool, what weighs most:

* **A killed staged rename never finishes** (`promote.py:783`). Killed
  between `os.rename` and `finish`, the object refuses every later run, because
  `prove_inside` refuses a missing source before the target is looked at.
* **A worker's next task dies with it** (`decode.py:307`). The reaper kills
  whatever the worker does by then, not the task it has found overdue; the
  collector, which would have told it, has not read that far. `results()` then
  waits for ever, though it says "Yield exactly `count` results, whatever became of
  the tasks." `NothingIsForgotten` and `PassEnds` are stated around it (`blind`).

The rest was met while modelling as well. Of promotion:

* A recovered unlink is logged twice, which `promote_verify` (264) reports as a
  failure for good (`promote.py:895`).
* An excluded object can keep its vault name: half-linked as kept, then unlinked
  as excluded (`promote.py:876` against 373).
* The probe of `promote.py`'s lock is a Ctrl-C to the holder on Windows
  (`promote.py:168` against 138).
* An unlink killed after its delete, of an object decided "keep" since, can
  never settle (outside `CalmObjectsSettle` for that reason).
* A dropped staged copy is finished as published without its vault name being
  set read-only (`promote.py:799`), which `promote_verify` then reports. So it does
  of a promotion killed or refused at the seal and recovered later, and of an unlink
  killed after its delete and decided "keep" since. `VerifyFindsTheInterrupted` says
  that it reports these and no others, and a log that disagrees with the excluded set
  for the objects killed between line and finish and no others.

Of stacking and serving:

* A resume of the screen counts rows and misses pairs (`candidates.py:319`
  against 140): the stored pair of a tile that left stands in for a new one.
* A row can carry one stack's name and another's photographs (`grid.py:443`
  against 516): `_assigned` looks the ids of a memoised assignment up in
  tiles that a COMMIT has numbered anew, or finds no such id and the request
  dies. The window is short after a rebuild by the website and lasts until a
  restart after one from a console.

And in the same models: a promotion
recovered by hash has no line in the delete log although `promote.py:178` says
every delete has one, and is published writable although `promote_verify.py:16`
wants it read-only; a blocked staging drop is repaired by `promote_one`, becomes
a collision and leaves the repair's selection; a recorded collision does not
hold back the excluded deletes although `promote.py:1176` says every kept object
has its second name by then; two runs started at the same moment both enter
either lock, and v1's (`core.py:356`) has the same race, which its models leave out.

Of the passes: `membership.py:52` calls filling a hole the one change a re-run
does not pick up, but a tile that leaves also leaves stale stacks, and a stack
can then span two runs; membership refuses for ever when the screen left no
survivor; match rows survive the deletion of the candidate pairs and mask new
ones in the same count.

Of the serving side: `rebuild.py:126` says of two group runs that the second
arrives at the same answer twice, which is false when a decision lies between
their two loads (hence `overtaken`);
`tests/test_rebuild.py:84` says of a failed run that the tile set did not change,
but a group process that dies in its report has committed, and the memos stay as
they were until the next run that succeeds; `_work` catches `OSError` only, and
any other exception leaves the state `running` for good; a keyset cursor holds an
id, so a sheet that pages on across a rebuild may draw a photograph of a tie
twice or not at all.

Of ingestion:

* Pass C writes `deriv_rot = coalesce(deriv_rot, 0)` for every file it measures
  (`phase2a.py:682`), so an `.arw` whose repair failed or was skipped counts as
  repaired (526) and stays on its side, although 521 promises it is redone. To
  select such rows again would be wrong too: their scalars are then those of
  other pixels (the mistake `RowsMatchTheDisk` is tried against).
* The two phases are said never to run together (`phase2b.py:1308`), but 2b only
  asks whether 2a's lock file exists, before it takes its own, and 2a never asks
  about 2b's. A `phase2a.lock` left by a kill stops 2b until 2a has run again.
* `clear_errors` is "scoped to what this module could actually redo"
  (`phase2b.py:1176`), but also clears rows without a `vault_relpath` and the
  errors of 2a over rows whose extension both decode.
* A row the inventory put first keeps `vault_relpath` NULL when adoption finds
  the object, so 2b never takes the file.
* The staging pass commits from its pool's threads on the main thread's
  connection once 200 rows are queued, which `sqlite3` refuses; in the model
  a failed commit is a kill.
* `thumbnails.py` takes no lock and can copy a tile over one just turned
  (`pasted`).

Of the inventory:

* Phase a empties `disk` but leaves `subtree` and `repo_hash`, so a directory
  verified before the new walk is skipped although its files were hashed again
  (`inventory.py:1106`; hence `unseen`).
* A hard stop among the loose files ends neither d nor e (`inventory.py:1371`
  asks for directories alone).
* A file that could not be read is hashed again by no c (`inventory.py:563`), and
  is in no top-up when d compared it, because its NULL is not `!=` to anything.
* A directory or a loose file made since the backup is not in the snapshot: its
  dump fails, d never completes, and e, which would back it up, is refused.
* A file edited between two inventories, whatever its mtime says, disagrees with
  `origin` and every later c refuses.
* A file edited between the walk and its hash can be a hard stop without anybody
  having kept its mtime, and so can one of another size that was hashed before
  the snapshot was listed (`inventory.py:102`, `excused`).
* Adoption between c's comparison and its writes leaves a disagreement that c
  itself reports only when it is run again (`late`).
* An export killed inside a line leaves a file that no later export and no
  `--verify` can read (`origins.py:137`). Killed before the newline, the next
  export appends to that line and ends the same way, though `origins.py:34` says
  a path that existed once stays in the map.
* An export between c's two writes, or between adoption's, finds hashes in one
  table only and refuses half way, its lines already appended.

Of the databases:

* `MigrationRefused` says nothing was applied; an earlier migration of the same
  call may be committed, and the version is split when the call died between the
  two commits. `apply` then refuses for good.
* A snapshot from before a migration splits the schema when restored.
* A decision committed between the safety snapshot and the replace is in neither
  (`raced`), although `restore_state.py` calls a restore undoable.

Of triage and grouping:

* The counts of a candidate correct by the overrides over the saved rules'
  verdict (`triage.py:463`, 611): where an overridden path is covered by the
  candidate, the preview is not what adding does (hence the premise).
* A rule's id is a reused rowid: a client that deletes by an id it has seen can
  delete another's rule (`triage_api.py:165`).
* A path found after the survey was built has no verdict until the next.
* `group.extend` dies of a `KeyError`, its transaction with it, when a tile it
  would read again holds a file condemned since (`group.py:671`), although a new
  photo "joins, merges or forms its own".
* A file condemned and cleared without a rebuild never pairs with those that
  came meanwhile, and `extend` never reads the keys and dates of tiled files
  again (both outside `sound`).
* The earliest mtime of a file is taken before it is looked at
  (`capture_time.py:340`): one copy stamped 1970 hides every plausible one. The
  file then counts as `none`, though `unresolvable`, which looks at each mtime,
  counts it as dated (`tests/test_capture_time.py:81` has them equal), and a
  path found later can take a date away.

Of v1's review desk:

* A job that keeps a SELECT open over its own commits is overtaken when another
  connection commits, and SQLite answers "database is locked" (the asset loops of
  `review_library.py`, `review_stacks.py`). `_fail_job` writes over the same
  connection and fails too; the job stays `running` until a worker starts.
* The stack job of an older generation, coming out late, clears the current flag
  of newer profiles (`review_stacks.py:1121`), which `StacksStay` excepts; nobody
  serves either until one is asked for again. An older catalog job that is run
  again makes its generation the current one.
* A favourite toggled between a junk run's reading and its writing stays hidden
  (`review_junk.py:519` against 576; `raced`).
* A backfill asks for a failed catalog again without bound, its own attempt being
  counted once; a child that was held is not released by a resume; a killed
  worker's asset job waits for another start; an asset imported below the cursor
  is never visited (`review_backfill.py:327`).
* `library_page` and `stack_detail` read rows and generation apart, and
  `reject_stack_rest` checks the stack's revision but none of its photos', so it can
  reject one decided on meanwhile (`NothingIsOverwrittenUnseen` allows as much).

Of v1's intake:

* A copy whose worker died stays `running`. Leases are taken back only when some
  copy is claimed (`review_copy.py:367`), and the loop picks `queued` jobs only, so a
  lone one waits for a rescan; jobs of stage 6 are never taken back.
  `archive/v1/docs/ARCHITECTURE_REVIEW.md` (130, 214) says so itself.
* Each resume costs an attempt. Once they are used up a resumed job stays `queued`
  and unclaimable at the highest priority, and the loop picks it for ever, before
  everything else (`review_copy.py:320`, `review_runtime.py:70`).
* A job whose approval was superseded is refused before the `try`
  (`review_copy.py:1587`) and stays `running`; taken back later, it marks the batch,
  which may be complete by then, `interrupted`.
* A pause asked for as the lease ran out leaves the job `queued` with
  `pause_requested`, which no claim takes and no resume accepts until it is paused
  once more.
* A pause or cancel after the last boundary is overruled by `_finish_job`, and a
  cancel after the pause was heeded likewise (1548).
* A newer approval between the check and the commit that starts the copy (1586,
  1608) makes all its items conflicts; nothing wrong is published.
* A decision made between the two statements of `_update_classification` is
  overwritten, its revision kept (`review_imports.py:926`).
* A comparison with a stale representative, another inbox file edited since, tells
  an asset apart as a hash collision that is none; an edit during a reuse marks a
  right object as a conflict (`review_copy.py:874`, 1400).
* An approved item that a rescan found gone while the copy was paused fails, but is
  not counted, and the batch is `complete` (`review_copy.py:1116`): hence "still in its
  manifest" in `CompleteMeansKept`.
* Two rescans that fail between hashing and matching leave an item without an
  observation. `_copy_item` then compares NULL with NULL (`review_copy.py:1351`), and
  bytes edited since the approval are copied under it, although `SCHEMA.md:90` says
  "A decision or observation change invalidates execution until a new approval is
  recorded". It takes three scans, and both properties except such items (`Bound`).
* A file of the same asset that is gone or changed when it is compared makes the
  good object a `conflict`, because `byte_compare` answers False to an `OSError` too
  (`_mark_destination`). If the item then leaves the manifest the batch is complete with
  it; hence an approved item counts as kept in a conflict whose object is right.
* `approve_batch`, `set_decision` and the controls commit inside the request, before
  its generation and its replay are recorded; a request that dies there is done and
  would be done again.

## 6. Plan and state

1. *Done:* promotion, the run locks, their proofs.
2. *Done:* the stacking passes and the walks of the code they stand for, their proofs.
3. *Done:* the rebuild, the grid's memos and the sheet's paging, composed; proofs
   of the first two.
4. *Done:* the databases as files: migrations, restore, backups, with proofs.
5. *Done:* ingestion and the decode pool, with proofs.
6. *Done:* triage, with proofs of the verdict, the preview and the sheet.
7. *Done:* capture time and grouping, with proofs.
8. *Done:* the inventory and the origins map, with proofs.
9. *Done:* the review desk of v1 and its intake, with proofs.

Worth doing next: the selection and undo of `select.js` against reloads.

## Not modelled

* **Decoders, image arithmetic, the encoder**: external programs and numbers;
  only that they answer, fail, hang or die is in the models.
* **HTML, layout, rendering, the client's selection and undo**: no state of the
  server depends on them.
* **Read-only reports** (coverage, regression, survey prints, the aggregates of
  the triage screens): they change nothing.
* **The rest of `archive/v1`**: its legacy importer and scanner, the exporters, saved
  views and preferences, manifest pages, import previews, telemetry and the
  histories of imports; `retry` and `claim_next` of the copy jobs, which only tests
  call. Its migrations are one-way scripts; its previews are taken
  as settled where an approval asks for them.
* **The label harness**: one reader and one append-only file outside the serving
  path.
* **Configuration, UTC offsets, the patterns of a dated name, `refuse_if_busy`,
  reveal**: read once, or pure functions of a string, or probes.

The definitions stand for about 13,000 of the 40,800 lines of implementation.
What is left is the rest of v1, the harness, parsing and rendering, and the wording
around the handlers that are modelled.
