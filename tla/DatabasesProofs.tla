-------------------------- MODULE DatabasesProofs --------------------------
(***************************************************************************)
(* Databases and RunLock, which share no state: the properties of their    *)
(* runs for any number of migrators, migrations, restores, backups,        *)
(* decisions and kills, and for every set of processes.                    *)
(***************************************************************************)
EXTENDS Databases, RunLock, Integers, FiniteSetTheorems, TLAPS

Content == [rows : SUBSET Nat, holds : SUBSET Decision]

DBTypes ==
    /\ catalog \in SUBSET Nat /\ base \in Content /\ gen \in Nat
    /\ wal \in SUBSET [to : Content, of : Nat] /\ \A v, w \in wal : v = w
    /\ open \subseteq Migrator \union {Server}
    /\ lock \in [{"catalog", "state"} -> Migrator \union {Nobody, Pipeline}]
    /\ mig \in [Migrator -> [at : {"off", "script", "commit", "attached", "next"},
                             current : Nat, number : Nat]]
    /\ restore \in [at : {"off", "probe", "before", "verify", "fold", "copy", "replace", "unlink"},
                    of : Content, safety : Content]
    /\ backups \subseteq [of : Content, whole : BOOLEAN]
    /\ made \in SUBSET Decision /\ raced \in BOOLEAN /\ cut \in BOOLEAN

\* Migrations are applied in order, so versions are the numbers up to one.
UpTo(rows) == \E k \in Nat : rows = 1..k

Numbered ==
    /\ UpTo(catalog) /\ UpTo(Live.rows) /\ UpTo(base.rows)
    /\ \A b \in backups : UpTo(b.of.rows)
    /\ UpTo(restore.of.rows) /\ UpTo(restore.safety.rows)

\* A migrator has the file open, nothing it applied has been taken back, and
\* between its script and its second commit nobody else moves what it writes.
Moving ==
    \A m \in Migrator :
        /\ mig[m].at # "off" =>
             /\ m \in open /\ mig[m].number > 0
             /\ 1..(mig[m].number - 1) \subseteq catalog \cap Live.rows
        /\ mig[m].at = "commit" =>
             /\ lock["catalog"] = m /\ lock["state"] = m
             /\ catalog = 1..(mig[m].number - 1) /\ Live.rows = catalog
        /\ mig[m].at = "attached" =>
             /\ lock["state"] = m
             /\ catalog = 1..mig[m].number /\ Live.rows = 1..(mig[m].number - 1)
        /\ mig[m].at \in {"commit", "attached"} => mig[m].number <= Knows[m]

\* Unless a writer came in behind a restore, the -wal is of the file that
\* stands, and there is none from the fold on.
Folded ==
    ~raced => ~Torn /\ (restore.at \in {"copy", "replace", "unlink"} => wal = {})

Together == cut \/ raced \/ catalog = Live.rows \/ \E m \in Migrator : mig[m].at = "attached"

\* What the whole snapshots hold.
Saved == UNION {s.of.holds : s \in {b \in backups : b.whole}}

Decided ==
    /\ Live.holds \subseteq made /\ base.holds \subseteq made
    /\ restore.of.holds \subseteq made /\ restore.safety.holds \subseteq made
    /\ \A b \in backups : b.of.holds \subseteq made
    /\ IsFiniteSet(made)

SafetyIsBehind ==
    restore.at = "verify" =>
        restore.safety.rows \subseteq Live.rows /\ restore.safety.holds \subseteq Live.holds

Kept == ~raced => /\ made \subseteq Live.holds \union Saved
                  /\ Behind => made \subseteq Saved

DBInv == DBTypes /\ Numbered /\ Moving /\ Folded /\ Together /\ Decided /\ SafetyIsBehind /\ Kept

-----------------------------------------------------------------------------
(* What is read of the state file, through each thing that moves it. *)

LEMMA LiveIs ==
  ASSUME DBTypes
  PROVE  /\ Live \in Content /\ (wal = {} => Live = base)
         /\ \A w \in wal : Live = w.to
         /\ Live.rows \in SUBSET Nat /\ Live.holds \in SUBSET Decision
<1>1. CASE wal = {}
  BY <1>1 DEF DBTypes, Live, Content
<1>2. CASE wal # {}
  <2>1. PICK w \in wal : TRUE
    BY <1>2
  <2>2. (CHOOSE x \in wal : TRUE) \in wal
    BY <2>1
  <2>3. \A x \in wal : (CHOOSE y \in wal : TRUE) = x
    BY <2>2 DEF DBTypes
  <2>4. Live = w.to /\ w.to \in Content
    BY <1>2, <2>1, <2>3 DEF Live, DBTypes
  <2> QED
    BY <1>2, <2>3, <2>4 DEF Live, Content
<1> QED
  BY <1>1, <1>2

LEMMA LiveStays ==
  ASSUME UNCHANGED stateFile
  PROVE  Live' = Live /\ base' = base /\ wal' = wal /\ gen' = gen
  BY DEF Live, stateFile

LEMMA LiveAfterClose ==
  ASSUME DBTypes, NEW p, Closes(p)
  PROVE  /\ Live' = Live /\ base' \in {base, Live} /\ wal' \in {wal, {}} /\ gen' = gen
         /\ open' = open \ {p}
<1>1. CASE p \in open /\ open' = {} /\ wal # {}
  BY <1>1 DEF Closes, Live
<1>2. CASE ~(p \in open /\ open' = {} /\ wal # {})
  <2>1. base' = base /\ wal' = wal /\ gen' = gen /\ open' = open \ {p}
    BY <1>2 DEF Closes
  <2> QED
    BY <2>1, LiveStays DEF stateFile
<1> QED
  BY <1>1, <1>2

LEMMA LiveAfterDrop ==
  ASSUME NEW p, Drops(p)
  PROVE  /\ Live' = Live /\ base' = base /\ wal' = wal /\ gen' = gen /\ open' = open \ {p}
  BY LiveStays DEF Drops

LEMMA LiveAfterCommit ==
  ASSUME NEW to, NEW by, CommitState(to, by)
  PROVE  /\ Live' = to /\ base' = base /\ wal' = {[to |-> to, of |-> gen]} /\ gen' = gen
         /\ raced' = (raced \/ Behind)
<1>1. wal' = {[to |-> to, of |-> gen]}
  BY DEF CommitState
<1>2. (CHOOSE w \in wal' : TRUE) = [to |-> to, of |-> gen]
  BY <1>1
<1> QED
  BY <1>1, <1>2 DEF CommitState, Live

LEMMA Recorded ==
  ASSUME DBTypes, NEW n \in Nat, NEW d \in Decision
  PROVE  /\ [Live EXCEPT !.rows = @ \union {n}] \in Content
         /\ [Live EXCEPT !.rows = @ \union {n}].rows = Live.rows \union {n}
         /\ [Live EXCEPT !.rows = @ \union {n}].holds = Live.holds
         /\ [Live EXCEPT !.holds = @ \union {d}] \in Content
         /\ [Live EXCEPT !.holds = @ \union {d}].rows = Live.rows
         /\ [Live EXCEPT !.holds = @ \union {d}].holds = Live.holds \union {d}
  BY LiveIs DEF Content

LEMMA GreatestExists ==
  ASSUME NEW S \in SUBSET Nat, IsFiniteSet(S), S # {}
  PROVE  \E x \in S : \A y \in S : y <= x
<1> DEFINE above == {{z \in S : x <= z} : x \in S}
<1>1. above \subseteq FiniteSubsetsOf(Nat) /\ above # {}
  <2>1. \A x \in S : {z \in S : x <= z} \in SUBSET S
    OBVIOUS
  <2>2. \A x \in S : IsFiniteSet({z \in S : x <= z}) /\ {z \in S : x <= z} \in SUBSET Nat
    BY <2>1, FS_Subset
  <2> QED
    BY <2>2 DEF FiniteSubsetsOf
<1>2. PICK t \in above : \A u \in above : <<u, t>> \notin StrictSubsetOrdering(Nat)
  <2> HIDE DEF above
  <2> QED
    BY <1>1, FS_StrictSubsetOrderingWellFounded, WFMin
<1>3. PICK x \in S : t = {z \in S : x <= z}
  OBVIOUS
<1>4. ASSUME NEW y \in S, ~(y <= x)
      PROVE  FALSE
  <2> DEFINE u == {z \in S : y <= z}
  <2>1. \A z \in S : y <= z => x <= z
    BY <1>4
  <2>2. x \in t /\ x \notin u
    BY <1>3, <1>4
  <2>3. u \in SUBSET Nat /\ t \in SUBSET Nat /\ u \subseteq t
    BY <1>3, <2>1, Zenon
  <2>4. <<u, t>> \in StrictSubsetOrdering(Nat)
    <3> HIDE DEF u
    <3> QED
      BY <2>2, <2>3 DEF StrictSubsetOrdering
  <2> QED
    BY <1>2, <2>4
<1> QED
  BY <1>4

LEMMA LatestIsLatest ==
  Latest \in Nat /\ \A m \in Migrator : Knows[m] <= Latest
<1> DEFINE S == {Knows[m] : m \in Migrator}
<1>1. S \in SUBSET Nat /\ S # {}
  BY DatabasesAssumption
<1>2. Knows \in Surjection(Migrator, S)
  BY DatabasesAssumption DEF Surjection
<1>3. IsFiniteSet(S)
  <2> HIDE DEF S
  <2> QED
    BY <1>2, FS_Surjection, DatabasesAssumption
<1>4. \E x \in S : \A y \in S : y <= x
  <2> HIDE DEF S
  <2> QED
    BY <1>1, <1>3, GreatestExists
<1>5. \E x \in S : \A m \in Migrator : Knows[m] <= x
  BY <1>4
<1>6. Latest \in S /\ \A m \in Migrator : Knows[m] <= Latest
  BY <1>5, Zenon DEF Latest
<1> QED
  BY <1>1, <1>6

-----------------------------------------------------------------------------
(* The invariant through steps that leave something alone. *)

\* The state file reads the same and the history stands.
FilesSame ==
    /\ Live' = Live /\ base' \in {base, Live} /\ wal' \in {wal, {}}
    /\ catalog' = catalog \/ UpTo(catalog')
    /\ UNCHANGED <<gen, restore, backups, made, raced>>

LEMMA FilesStay ==
  ASSUME DBInv, FilesSame
  PROVE  Numbered' /\ Folded' /\ Decided' /\ SafetyIsBehind' /\ Kept'
<1>1. Numbered'
  BY DEF DBInv, Numbered, FilesSame
<1>2. Folded'
  <2>1. Torn' => Torn
    BY DEF FilesSame, Torn
  <2> QED
    BY <2>1 DEF DBInv, Folded, FilesSame
<1>3. Decided'
  BY DEF DBInv, Decided, FilesSame
<1>4. SafetyIsBehind'
  BY DEF DBInv, SafetyIsBehind, FilesSame
<1>5. Kept'
  BY DEF DBInv, Kept, FilesSame, Saved, Behind
<1> QED
  BY <1>1, <1>2, <1>3, <1>4, <1>5

LEMMA MigratorsStay ==
  ASSUME DBInv, Live' = Live, UNCHANGED <<catalog, mig>>, raced => raced', cut => cut',
         \A m \in Migrator : mig[m].at # "off" => m \in open',
         \A m \in Migrator : mig[m].at \in {"commit", "attached"} => lock'["state"] = lock["state"],
         \A m \in Migrator : mig[m].at = "commit" => lock'["catalog"] = lock["catalog"]
  PROVE  Moving' /\ Together'
<1>1. Moving'
  BY DEF DBInv, Moving
<1>2. Together'
  BY DEF DBInv, Together
<1> QED
  BY <1>1, <1>2

\* One migrator moves and the others, the files and the locks of the others do not.
LEMMA MigratorMoves ==
  ASSUME DBInv, NEW m \in Migrator, Live' = Live, UNCHANGED <<catalog, raced>>,
         cut => cut', mig[m].at = "attached" => cut',
         \A k \in Migrator \ {m} : mig'[k] = mig[k] /\ (k \in open => k \in open'),
         \A k \in Migrator \ {m} : \A f \in {"catalog", "state"} : lock[f] = k => lock'[f] = k,
         mig'[m].at # "off" =>
             /\ m \in open' /\ mig'[m].number > 0
             /\ 1..(mig'[m].number - 1) \subseteq catalog \cap Live.rows,
         mig'[m].at = "commit" =>
             /\ lock'["catalog"] = m /\ lock'["state"] = m
             /\ catalog = 1..(mig'[m].number - 1) /\ Live.rows = catalog
             /\ mig'[m].number <= Knows[m],
         mig'[m].at # "attached"
  PROVE  Moving' /\ Together'
<1>1. Moving'
  <2> SUFFICES ASSUME NEW k \in Migrator
               PROVE  /\ mig'[k].at # "off" =>
                           /\ k \in open' /\ mig'[k].number > 0
                           /\ 1..(mig'[k].number - 1) \subseteq catalog' \cap Live'.rows
                      /\ mig'[k].at = "commit" =>
                           /\ lock'["catalog"] = k /\ lock'["state"] = k
                           /\ catalog' = 1..(mig'[k].number - 1) /\ Live'.rows = catalog'
                      /\ mig'[k].at = "attached" =>
                           /\ lock'["state"] = k
                           /\ catalog' = 1..mig'[k].number /\ Live'.rows = 1..(mig'[k].number - 1)
                      /\ mig'[k].at \in {"commit", "attached"} => mig'[k].number <= Knows[k]
    BY Zenon DEF Moving
  <2>1. CASE k = m
    BY <2>1
  <2>2. CASE k # m
    BY <2>2 DEF DBInv, Moving
  <2> QED
    BY <2>1, <2>2
<1>2. Together'
  BY DEF DBInv, Together
<1> QED
  BY <1>1, <1>2

LEMMA DBStutter == DBInv /\ UNCHANGED vars => DBInv'
<1> SUFFICES ASSUME DBInv, UNCHANGED vars
             PROVE  DBInv'
  OBVIOUS
<1>1. FilesSame
  BY LiveStays DEF FilesSame, vars, stateFile
<1>2. DBTypes'
  BY DEF DBInv, DBTypes, vars
<1>3. Moving' /\ Together'
  BY <1>1, MigratorsStay DEF vars, FilesSame, DBInv, Moving
<1> QED
  BY <1>1, <1>2, <1>3, FilesStay DEF DBInv

LEMMA DBInit == Init => DBInv
<1> SUFFICES ASSUME Init
             PROVE  DBInv
  OBVIOUS
<1>1. InitialVersion \in Nat /\ UpTo(1..InitialVersion) /\ UpTo({})
  <2>1. {} = 1..0
    OBVIOUS
  <2> QED
    BY <2>1, DatabasesAssumption DEF UpTo
<1>2. Live = base /\ base.rows = 1..InitialVersion /\ base.holds = {} /\ catalog = base.rows
  BY DEF Init, Live
<1>3. /\ restore.at = "off" /\ restore.of.rows = {} /\ restore.of.holds = {}
      /\ restore.safety.rows = {} /\ restore.safety.holds = {}
      /\ made = {} /\ backups = {} /\ raced = FALSE /\ wal = {}
      /\ \A m \in Migrator : mig[m].at = "off"
  BY DEF Init, Idle, Blank
<1>4. DBTypes
  <2>1. Blank \in Content /\ 1..InitialVersion \in SUBSET Nat
    BY <1>1 DEF Blank, Content
  <2>2. catalog \in SUBSET Nat /\ base \in Content /\ gen \in Nat /\ wal = {} /\ open = {}
    BY <2>1 DEF Init, Content
  <2>3. lock \in [{"catalog", "state"} -> Migrator \union {Nobody, Pipeline}]
    BY DEF Init
  <2>4. mig \in [Migrator -> [at : {"off", "script", "commit", "attached", "next"},
                              current : Nat, number : Nat]]
    BY DEF Init
  <2>5. restore \in [at : {"off", "probe", "before", "verify", "fold", "copy", "replace", "unlink"},
                     of : Content, safety : Content]
    BY <2>1 DEF Init, Idle
  <2>6. raced \in BOOLEAN /\ cut \in BOOLEAN
    BY DEF Init
  <2> QED
    BY <1>3, <2>2, <2>3, <2>4, <2>5, <2>6 DEF DBTypes
<1>5. Numbered
  BY <1>1, <1>2, <1>3 DEF Numbered
<1>6. Moving
  BY <1>3 DEF Moving
<1>7. Folded /\ Together /\ SafetyIsBehind
  BY <1>2, <1>3 DEF Folded, Torn, Together, SafetyIsBehind
<1>8. Decided
  BY <1>2, <1>3, FS_EmptySet DEF Decided
<1>9. Kept
  BY <1>2, <1>3 DEF Kept, Behind
<1> QED
  BY <1>4, <1>5, <1>6, <1>7, <1>8, <1>9 DEF DBInv

-----------------------------------------------------------------------------
(* The migrators. *)

LEMMA VersionIs ==
  ASSUME NEW rows, UpTo(rows)
  PROVE  Version(rows) \in Nat /\ rows = 1..Version(rows)
<1>1. PICK k \in Nat : rows = 1..k
  BY DEF UpTo
<1>2. CASE k = 0
  BY <1>1, <1>2 DEF Version
<1>3. CASE k # 0
  <2>1. k \in rows /\ \A j \in rows : j <= k
    BY <1>1, <1>3
  <2>2. \A x \in rows : (\A j \in rows : j <= x) => x = k
    BY <1>1, <2>1
  <2>3. (CHOOSE x \in rows : \A j \in rows : j <= x) = k
    BY <2>1, <2>2, Zenon
  <2> QED
    BY <1>1, <2>1, <2>3 DEF Version
<1> QED
  BY <1>2, <1>3

LEMMA NextVersion ==
  ASSUME NEW rows, UpTo(rows), NEW n \in Nat, n > 0, 1..(n - 1) \subseteq rows, n \notin rows
  PROVE  rows = 1..(n - 1)
<1>1. PICK k \in Nat : rows = 1..k
  BY DEF UpTo
<1>2. k < n
  BY <1>1
<1>3. n - 1 <= k
  <2>1. CASE n = 1
    BY <2>1
  <2>2. CASE n # 1
    <3>1. n - 1 \in 1..(n - 1)
      BY <2>2
    <3> QED
      BY <1>1, <3>1
  <2> QED
    BY <2>1, <2>2
<1> QED
  BY <1>1, <1>2, <1>3

LEMMA ReadVersionsKeeps ==
  ASSUME DBInv, NEW m \in Migrator, ReadVersions(m)
  PROVE  DBInv'
<1>1. FilesSame /\ UNCHANGED <<catalog, cut, lock>>
  BY LiveStays DEF ReadVersions, FilesSame, history
<1>2. CASE UNCHANGED <<open, mig, stale>>
  <2>1. DBTypes'
    BY <1>2 DEF DBInv, DBTypes, ReadVersions, stateFile, history
  <2>2. Moving' /\ Together'
    BY <1>1, <1>2, MigratorsStay DEF FilesSame, DBInv, Moving
  <2> QED
    BY <1>1, <2>1, <2>2, FilesStay DEF DBInv
<1>3. CASE /\ Version(catalog) = Version(Live.rows) /\ ~(Version(catalog) > Knows[m])
           /\ open' = open \union {m}
           /\ mig' = [mig EXCEPT ![m] =
                [at |-> "script", current |-> Version(catalog), number |-> Version(catalog) + 1]]
  <2>1. /\ Version(catalog) \in Nat
        /\ catalog = 1..Version(catalog) /\ Live.rows = 1..Version(catalog)
    BY <1>3, VersionIs DEF DBInv, Numbered
  <2>2. DBTypes'
    BY <1>3, <2>1 DEF DBInv, DBTypes, ReadVersions, stateFile, history
  <2>3. /\ mig'[m].at = "script" /\ mig'[m].number = Version(catalog) + 1
        /\ \A k \in Migrator \ {m} : mig'[k] = mig[k]
        /\ mig[m].at = "off"
    BY <1>3 DEF DBInv, DBTypes, ReadVersions
  <2>4. mig'[m].number > 0 /\ 1..(mig'[m].number - 1) \subseteq catalog \cap Live.rows
    BY <2>1, <2>3
  <2>5. Moving' /\ Together'
    BY <1>1, <1>3, <2>3, <2>4, MigratorMoves DEF FilesSame
  <2> QED
    BY <1>1, <2>2, <2>5, FilesStay DEF DBInv
<1> QED
  BY <1>2, <1>3 DEF ReadVersions

LEMMA EndsKeeps ==
  ASSUME DBInv, NEW m \in Migrator, Ends(m), mig[m].at # "attached",
         UNCHANGED <<catalog, restore, backups, made, raced, cut>>
  PROVE  DBInv'
<1>1. /\ Live' = Live /\ base' \in {base, Live} /\ wal' \in {wal, {}} /\ gen' = gen
      /\ open' = open \ {m}
  BY LiveAfterClose DEF Ends, DBInv
<1>2. FilesSame
  BY <1>1 DEF FilesSame
<1>3. /\ mig'[m].at = "off" /\ \A k \in Migrator \ {m} : mig'[k] = mig[k]
      /\ \A k \in Migrator \ {m} : \A f \in {"catalog", "state"} : lock[f] = k => lock'[f] = k
  BY DEF Ends, Unlock, DBInv, DBTypes
<1>4. Moving' /\ Together'
  BY <1>1, <1>3, MigratorMoves
<1>5. DBTypes'
  <2>1. base' \in Content
    BY <1>1, LiveIs DEF DBInv, DBTypes
  <2>2. wal' \in SUBSET [to : Content, of : Nat] /\ \A v, w \in wal' : v = w
    BY <1>1 DEF DBInv, DBTypes
  <2>3. lock' \in [{"catalog", "state"} -> Migrator \union {Nobody, Pipeline}]
    BY DEF Ends, Unlock, DBInv, DBTypes
  <2>4. mig' \in [Migrator -> [at : {"off", "script", "commit", "attached", "next"},
                               current : Nat, number : Nat]]
    BY DEF Ends, DBInv, DBTypes
  <2> QED
    BY <1>1, <2>1, <2>2, <2>3, <2>4 DEF DBInv, DBTypes
<1> QED
  BY <1>2, <1>4, <1>5, FilesStay DEF DBInv

LEMMA RunScriptKeeps ==
  ASSUME DBInv, NEW m \in Migrator, RunScript(m)
  PROVE  DBInv'
<1> DEFINE n == mig[m].number
<1>1. CASE Ends(m)
  BY <1>1, EndsKeeps DEF RunScript, history
<1>2. CASE /\ \A f \in {"catalog", "state"} : lock[f] = Nobody
           /\ n \notin catalog /\ n \notin Live.rows
           /\ mig' = [mig EXCEPT ![m].at = "commit"]
           /\ lock' = [f \in DOMAIN lock |-> m]
           /\ UNCHANGED <<open, stateFile>>
  <2>1. FilesSame /\ UNCHANGED <<catalog, cut, open>>
    BY <1>2, LiveStays DEF RunScript, FilesSame, history
  <2>2. /\ mig[m].at = "script" /\ n \in Nat /\ n <= Knows[m]
        /\ mig'[m].at = "commit" /\ mig'[m].number = n
        /\ \A k \in Migrator \ {m} : mig'[k] = mig[k]
    BY <1>2 DEF RunScript, DBInv, DBTypes
  <2>3. n > 0 /\ m \in open /\ 1..(n - 1) \subseteq catalog /\ 1..(n - 1) \subseteq Live.rows
    BY <2>2 DEF DBInv, Moving
  <2>4. catalog = 1..(n - 1) /\ Live.rows = 1..(n - 1)
    BY <1>2, <2>2, <2>3, NextVersion DEF DBInv, Numbered
  <2>5. /\ lock'["catalog"] = m /\ lock'["state"] = m
        /\ \A k \in Migrator \ {m} : \A f \in {"catalog", "state"} : lock[f] # k
    BY <1>2, DatabasesAssumption DEF DBInv, DBTypes
  <2>6. Moving' /\ Together'
    BY <2>1, <2>2, <2>3, <2>4, <2>5, MigratorMoves DEF FilesSame
  <2>7. DBTypes'
    BY <1>2 DEF RunScript, DBInv, DBTypes, stateFile, history
  <2> QED
    BY <2>1, <2>6, <2>7, FilesStay DEF DBInv
<1> QED
  BY <1>1, <1>2 DEF RunScript

LEMMA CommitMainKeeps ==
  ASSUME DBInv, NEW m \in Migrator, CommitMain(m)
  PROVE  DBInv'
<1> DEFINE n == mig[m].number
<1>1. /\ mig[m].at = "commit" /\ n \in Nat /\ n > 0 /\ m \in open
      /\ catalog = 1..(n - 1) /\ Live.rows = 1..(n - 1) /\ lock["state"] = m
      /\ n <= Knows[m]
  BY DEF CommitMain, DBInv, DBTypes, Moving
<1>2. catalog' = 1..n /\ catalog \subseteq catalog'
  BY <1>1 DEF CommitMain
<1>3. Live' = Live /\ base' = base /\ wal' = wal /\ gen' = gen
  BY LiveStays DEF CommitMain
<1>4. FilesSame
  BY <1>1, <1>2, <1>3 DEF CommitMain, FilesSame, UpTo, history
<1>5. /\ mig'[m].at = "attached" /\ mig'[m].number = n
      /\ \A k \in Migrator \ {m} : mig'[k] = mig[k]
      /\ lock'["state"] = m /\ open' = open
  BY <1>1 DEF CommitMain, DBInv, DBTypes
<1>6. \A k \in Migrator \ {m} : mig[k].at \notin {"commit", "attached"}
  BY <1>1 DEF DBInv, Moving
<1>7. Moving'
  <2> SUFFICES ASSUME NEW k \in Migrator
               PROVE  /\ mig'[k].at # "off" =>
                           /\ k \in open' /\ mig'[k].number > 0
                           /\ 1..(mig'[k].number - 1) \subseteq catalog' \cap Live'.rows
                      /\ mig'[k].at = "commit" =>
                           /\ lock'["catalog"] = k /\ lock'["state"] = k
                           /\ catalog' = 1..(mig'[k].number - 1) /\ Live'.rows = catalog'
                      /\ mig'[k].at = "attached" =>
                           /\ lock'["state"] = k
                           /\ catalog' = 1..mig'[k].number /\ Live'.rows = 1..(mig'[k].number - 1)
                      /\ mig'[k].at \in {"commit", "attached"} => mig'[k].number <= Knows[k]
    BY Zenon DEF Moving
  <2>1. CASE k = m
    BY <1>1, <1>2, <1>3, <1>5, <2>1
  <2>2. CASE k # m
    BY <1>2, <1>3, <1>5, <1>6, <2>2 DEF DBInv, Moving
  <2> QED
    BY <2>1, <2>2
<1>8. Together'
  BY <1>5 DEF Together
<1>9. DBTypes'
  <2>1. catalog' \in SUBSET Nat
    BY <1>1, <1>2
  <2>2. lock' \in [{"catalog", "state"} -> Migrator \union {Nobody, Pipeline}]
    BY DEF CommitMain, DBInv, DBTypes
  <2>3. mig' \in [Migrator -> [at : {"off", "script", "commit", "attached", "next"},
                               current : Nat, number : Nat]]
    BY DEF CommitMain, DBInv, DBTypes
  <2> QED
    BY <1>3, <2>1, <2>2, <2>3 DEF CommitMain, DBInv, DBTypes, history
<1> QED
  BY <1>4, <1>7, <1>8, <1>9, FilesStay DEF DBInv

LEMMA CommitAttachedKeeps ==
  ASSUME DBInv, NEW m \in Migrator, CommitAttached(m)
  PROVE  DBInv'
<1> DEFINE n == mig[m].number
           to == [Live EXCEPT !.rows = @ \union {n}]
<1>1. /\ mig[m].at = "attached" /\ n \in Nat /\ n > 0 /\ m \in open
      /\ catalog = 1..n /\ Live.rows = 1..(n - 1) /\ lock["state"] = m
  BY DEF CommitAttached, DBInv, DBTypes, Moving
<1>2. to \in Content /\ to.rows = Live.rows \union {n} /\ to.holds = Live.holds
  BY <1>1, LiveIs, Recorded DEF DBInv, Content
<1>3. /\ Live' = to /\ base' = base /\ wal' = {[to |-> to, of |-> gen]} /\ gen' = gen
      /\ raced' = (raced \/ Behind)
  BY LiveAfterCommit DEF CommitAttached
<1> HIDE DEF to
<1>4. to.rows = 1..n
  BY <1>1, <1>2
<1>5. UNCHANGED <<catalog, open, restore, backups, made, cut>>
  BY DEF CommitAttached
<1>6. /\ mig'[m].at = "next" /\ mig'[m].number = n + 1
      /\ \A k \in Migrator \ {m} : mig'[k] = mig[k]
      /\ mig' \in [Migrator -> [at : {"off", "script", "commit", "attached", "next"},
                                current : Nat, number : Nat]]
  <2>1. mig' = [mig EXCEPT ![m].at = "next", ![m].number = @ + 1]
    BY DEF CommitAttached
  <2> QED
    BY <1>1, <2>1 DEF DBInv, DBTypes
<1>7. \A k \in Migrator \ {m} : mig[k].at \notin {"commit", "attached"}
  BY <1>1 DEF DBInv, Moving
<1>8. DBTypes'
  <2>1. wal' \in SUBSET [to : Content, of : Nat] /\ (\A v, w \in wal' : v = w) /\ raced' \in BOOLEAN
    BY <1>2, <1>3 DEF DBInv, DBTypes
  <2>2. lock' \in [{"catalog", "state"} -> Migrator \union {Nobody, Pipeline}]
    BY DEF CommitAttached, DBInv, DBTypes
  <2> QED
    BY <1>3, <1>5, <1>6, <2>1, <2>2 DEF DBInv, DBTypes
<1>9. Numbered'
  BY <1>1, <1>3, <1>4, <1>5 DEF DBInv, Numbered, UpTo
<1>10. Moving'
  <2> SUFFICES ASSUME NEW k \in Migrator
               PROVE  /\ mig'[k].at # "off" =>
                           /\ k \in open' /\ mig'[k].number > 0
                           /\ 1..(mig'[k].number - 1) \subseteq catalog' \cap Live'.rows
                      /\ mig'[k].at \notin {"commit", "attached"}
    BY Zenon DEF Moving
  <2>1. CASE k = m
    BY <1>1, <1>3, <1>4, <1>5, <1>6, <2>1
  <2>2. CASE k # m
    BY <1>2, <1>3, <1>5, <1>6, <1>7, <2>2 DEF DBInv, Moving
  <2> QED
    BY <2>1, <2>2
<1>11. Together'
  BY <1>1, <1>3, <1>4, <1>5 DEF Together
<1>12. Folded'
  <2>1. ~Torn'
    BY <1>3 DEF Torn
  <2> QED
    BY <1>3, <1>5, <2>1 DEF Folded, Behind
<1>13. Decided' /\ SafetyIsBehind'
  BY <1>2, <1>3, <1>5 DEF DBInv, Decided, SafetyIsBehind
<1>14. Kept'
  BY <1>2, <1>3, <1>5 DEF DBInv, Kept, Behind, Saved
<1> QED
  BY <1>8, <1>9, <1>10, <1>11, <1>12, <1>13, <1>14 DEF DBInv

LEMMA NextMigrationKeeps ==
  ASSUME DBInv, NEW m \in Migrator, NextMigration(m)
  PROVE  DBInv'
<1>1. FilesSame /\ UNCHANGED <<catalog, cut, lock, open>>
  BY LiveStays DEF NextMigration, FilesSame, history
<1>2. /\ mig[m].at = "next" /\ mig'[m].at = "script" /\ mig'[m].number = mig[m].number
      /\ \A k \in Migrator \ {m} : mig'[k] = mig[k]
  BY DEF NextMigration, DBInv, DBTypes
<1>3. /\ m \in open /\ mig[m].number > 0
      /\ 1..(mig[m].number - 1) \subseteq catalog \cap Live.rows
  BY <1>2 DEF DBInv, Moving
<1>4. Moving' /\ Together'
  BY <1>1, <1>2, <1>3, MigratorMoves DEF FilesSame
<1>5. DBTypes'
  BY DEF NextMigration, DBInv, DBTypes, stateFile, history
<1> QED
  BY <1>1, <1>4, <1>5, FilesStay DEF DBInv

LEMMA KillMigratorKeeps ==
  ASSUME DBInv, NEW m \in Migrator, KillMigrator(m)
  PROVE  DBInv'
<1>1. /\ Live' = Live /\ base' = base /\ wal' = wal /\ gen' = gen /\ open' = open \ {m}
  BY LiveAfterDrop DEF KillMigrator
<1>2. FilesSame /\ UNCHANGED catalog
  BY <1>1 DEF FilesSame, KillMigrator
<1>3. /\ mig'[m].at = "off" /\ \A k \in Migrator \ {m} : mig'[k] = mig[k]
      /\ \A k \in Migrator \ {m} : \A f \in {"catalog", "state"} : lock[f] = k => lock'[f] = k
      /\ (cut => cut') /\ (mig[m].at = "attached" => cut')
  BY DEF KillMigrator, Unlock, DBInv, DBTypes
<1>4. Moving' /\ Together'
  BY <1>1, <1>2, <1>3, MigratorMoves DEF FilesSame
<1>5. DBTypes'
  <2>1. lock' \in [{"catalog", "state"} -> Migrator \union {Nobody, Pipeline}]
    BY DEF KillMigrator, Unlock, DBInv, DBTypes
  <2>2. mig' \in [Migrator -> [at : {"off", "script", "commit", "attached", "next"},
                               current : Nat, number : Nat]]
    BY DEF KillMigrator, DBInv, DBTypes
  <2>3. cut' \in BOOLEAN
    BY DEF KillMigrator, DBInv, DBTypes
  <2> QED
    BY <1>1, <2>1, <2>2, <2>3 DEF KillMigrator, DBInv, DBTypes
<1> QED
  BY <1>2, <1>4, <1>5, FilesStay DEF DBInv

-----------------------------------------------------------------------------
(* The ordinary writers and the backups. *)

LEMMA PipelineKeeps ==
  ASSUME DBInv, PipelineBegins \/ PipelineCommits
  PROVE  DBInv'
<1>1. FilesSame /\ UNCHANGED <<catalog, cut, mig, open>>
  BY LiveStays DEF PipelineBegins, PipelineCommits, FilesSame, history
<1>2. \A m \in Migrator : mig[m].at = "commit" => lock["catalog"] \notin {Nobody, Pipeline}
  BY DatabasesAssumption DEF DBInv, Moving
<1>3. /\ lock'["state"] = lock["state"]
      /\ lock' \in [{"catalog", "state"} -> Migrator \union {Nobody, Pipeline}]
      /\ lock["catalog"] \in {Nobody, Pipeline}
  BY DEF PipelineBegins, PipelineCommits, DBInv, DBTypes
<1>4. Moving' /\ Together'
  BY <1>1, <1>2, <1>3, MigratorsStay DEF FilesSame, DBInv, Moving
<1>5. DBTypes'
  BY <1>3 DEF PipelineBegins, PipelineCommits, DBInv, DBTypes, stateFile, history
<1> QED
  BY <1>1, <1>4, <1>5, FilesStay DEF DBInv

\* The server holds no lock and the migrators stay connected.
LEMMA ServerKeeps ==
  ASSUME DBInv, FilesSame, UNCHANGED <<catalog, lock, mig, cut>>,
         open' \in {open, open \ {Server}}
  PROVE  DBInv'
<1>1. \A m \in Migrator : m \in open => m \in open'
  BY DatabasesAssumption
<1>2. Moving' /\ Together'
  BY <1>1, MigratorsStay DEF FilesSame, DBInv, Moving
<1>3. DBTypes'
  <2>1. base' \in Content
    BY LiveIs DEF FilesSame, DBInv, DBTypes
  <2>2. wal' \in SUBSET [to : Content, of : Nat] /\ \A v, w \in wal' : v = w
    BY DEF FilesSame, DBInv, DBTypes
  <2> QED
    BY <2>1, <2>2 DEF FilesSame, DBInv, DBTypes
<1> QED
  BY <1>2, <1>3, FilesStay DEF DBInv

LEMMA ServerStepKeeps ==
  ASSUME DBInv, ServerStarts \/ ServerStops \/ ThreadEnds
  PROVE  DBInv'
<1>1. CASE ServerStarts
  <2>1. FilesSame /\ UNCHANGED <<catalog, lock, mig, cut, open>>
    BY <1>1, LiveStays DEF ServerStarts, FilesSame, history
  <2> QED
    BY <2>1, ServerKeeps
<1>2. CASE ServerStops
  <2>1. UNCHANGED <<catalog, lock, mig, cut, restore, backups, made, raced>>
    BY <1>2 DEF ServerStops, history
  <2>2. Closes(Server) \/ Drops(Server)
    BY <1>2 DEF ServerStops
  <2>3. /\ Live' = Live /\ base' \in {base, Live} /\ wal' \in {wal, {}} /\ gen' = gen
        /\ open' = open \ {Server}
    BY <2>2, LiveAfterClose, LiveAfterDrop DEF DBInv
  <2> QED
    BY <2>1, <2>3, ServerKeeps DEF FilesSame
<1>3. CASE ThreadEnds
  <2>1. /\ Live' = Live /\ base' \in {base, Live} /\ wal' \in {wal, {}} /\ gen' = gen
        /\ open' = open \ {Server}
    BY <1>3, LiveAfterClose DEF ThreadEnds, DBInv
  <2> QED
    BY <1>3, <2>1, ServerKeeps DEF FilesSame, ThreadEnds, history
<1> QED
  BY <1>1, <1>2, <1>3

LEMMA DecideKeeps ==
  ASSUME DBInv, NEW d \in Decision, Decide(d)
  PROVE  DBInv'
<1> DEFINE to == [Live EXCEPT !.holds = @ \union {d}]
<1>1. to \in Content /\ to.rows = Live.rows /\ to.holds = Live.holds \union {d}
  BY Recorded DEF DBInv
<1>2. /\ Live' = to /\ base' = base /\ wal' = {[to |-> to, of |-> gen]} /\ gen' = gen
      /\ raced' = (raced \/ Behind)
  BY LiveAfterCommit DEF Decide
<1> HIDE DEF to
<1>3. /\ UNCHANGED <<catalog, lock, mig, restore, backups, cut>>
      /\ open' = open \union {Server} /\ made' = made \union {d}
  BY DEF Decide
<1>4. DBTypes'
  <2>1. wal' \in SUBSET [to : Content, of : Nat] /\ (\A v, w \in wal' : v = w) /\ raced' \in BOOLEAN
    BY <1>1, <1>2 DEF DBInv, DBTypes
  <2> QED
    BY <1>2, <1>3, <2>1 DEF DBInv, DBTypes
<1>5. Numbered'
  BY <1>1, <1>2, <1>3 DEF DBInv, Numbered
<1>6. Moving'
  BY <1>1, <1>2, <1>3 DEF DBInv, Moving
<1>7. Together'
  BY <1>1, <1>2, <1>3 DEF DBInv, Together
<1>8. Folded'
  <2>1. ~Torn'
    BY <1>2 DEF Torn
  <2> QED
    BY <1>2, <1>3, <2>1 DEF Folded, Behind
<1>9. Decided'
  <2>1. IsFiniteSet(made')
    BY <1>3, FS_AddElement DEF DBInv, Decided
  <2> QED
    BY <1>1, <1>2, <1>3, <2>1 DEF DBInv, Decided
<1>10. SafetyIsBehind' /\ Kept'
  BY <1>1, <1>2, <1>3 DEF DBInv, SafetyIsBehind, Kept, Behind, Saved
<1> QED
  BY <1>4, <1>5, <1>6, <1>7, <1>8, <1>9, <1>10 DEF DBInv

\* Snapshots are added, and the restore goes on to a place that promises nothing.
LEMMA SnapshotsGrow ==
  ASSUME DBInv, DBTypes', Live' = Live, base' \in {base, Live}, wal' \in {wal, {}},
         UNCHANGED <<catalog, gen, open, lock, mig, made, raced, cut>>,
         backups \subseteq backups',
         \A b \in backups' : UpTo(b.of.rows) /\ b.of.holds \subseteq made,
         UpTo(restore'.of.rows) /\ restore'.of.holds \subseteq made,
         UpTo(restore'.safety.rows) /\ restore'.safety.holds \subseteq made,
         restore' = restore \/ restore'.at \in {"off", "probe", "before"}
  PROVE  DBInv'
<1>1. Numbered' /\ Decided'
  BY DEF DBInv, Numbered, Decided
<1>2. Moving' /\ Together'
  BY MigratorsStay DEF DBInv, Moving
<1>3. Folded'
  <2>1. Torn' => Torn
    BY DEF Torn
  <2> QED
    BY <2>1 DEF DBInv, Folded
<1>4. SafetyIsBehind'
  BY DEF DBInv, SafetyIsBehind
<1>5. Kept'
  <2>1. Saved \subseteq Saved'
    BY DEF Saved
  <2> QED
    BY <2>1 DEF DBInv, Kept, Behind
<1> QED
  BY <1>1, <1>2, <1>3, <1>4, <1>5 DEF DBInv

LEMMA BackupKeeps ==
  ASSUME DBInv, Backup
  PROVE  DBInv'
<1>1. UNCHANGED <<catalog, gen, open, lock, mig, made, raced, cut, restore, base, wal>> /\ Live' = Live
  BY LiveStays DEF Backup, history
<1>2. PICK w \in BOOLEAN : backups' = backups \union {[of |-> Live, whole |-> w]}
  BY DEF Backup, Whole, Part
<1>3. Live \in Content /\ UpTo(Live.rows) /\ Live.holds \subseteq made
  BY LiveIs DEF DBInv, Numbered, Decided
<1>4. /\ backups \subseteq backups' /\ backups' \subseteq [of : Content, whole : BOOLEAN]
      /\ \A b \in backups' : UpTo(b.of.rows) /\ b.of.holds \subseteq made
  <2> DEFINE s == [of |-> Live, whole |-> w]
  <2>1. s \in [of : Content, whole : BOOLEAN] /\ s.of = Live
    BY <1>3
  <2> HIDE DEF s
  <2>2. backups' = backups \union {s}
    BY <1>2 DEF s
  <2> QED
    BY <1>3, <2>1, <2>2 DEF DBInv, DBTypes, Numbered, Decided
<1>5. DBTypes'
  BY <1>1, <1>4 DEF DBInv, DBTypes
<1> QED
  BY <1>1, <1>4, <1>5, SnapshotsGrow DEF DBInv, Numbered, Decided

-----------------------------------------------------------------------------
(* The restore. *)

LEMMA BlankIsIdle ==
  /\ Blank \in Content /\ UpTo(Blank.rows) /\ Blank.holds = {}
  /\ Idle.at = "off" /\ Idle.of = Blank /\ Idle.safety = Blank
<1>1. {} = 1..0
  OBVIOUS
<1> QED
  BY <1>1 DEF Blank, Content, Idle, UpTo

Restoring == [at : {"off", "probe", "before", "verify", "fold", "copy", "replace", "unlink"},
              of : Content, safety : Content]

\* A restore that is refused, or killed, has left the state file as it reads.
LEMMA RefusedKeeps ==
  ASSUME DBInv, restore' = Idle, Live' = Live, base' \in {base, Live}, wal' \in {wal, {}},
         UNCHANGED <<catalog, gen, open, lock, mig, made, raced, cut>>,
         backups \subseteq backups', backups' \subseteq [of : Content, whole : BOOLEAN],
         \A b \in backups' : UpTo(b.of.rows) /\ b.of.holds \subseteq made
  PROVE  DBInv'
<1>1. /\ restore' \in Restoring /\ restore'.at = "off"
      /\ UpTo(restore'.of.rows) /\ restore'.of.holds \subseteq made
      /\ UpTo(restore'.safety.rows) /\ restore'.safety.holds \subseteq made
  BY BlankIsIdle DEF Restoring, Idle
<1>2. DBTypes'
  <2>1. base' \in Content
    BY LiveIs DEF DBInv, DBTypes
  <2>2. wal' \in SUBSET [to : Content, of : Nat] /\ \A v, w \in wal' : v = w
    BY DEF DBInv, DBTypes
  <2> QED
    BY <1>1, <2>1, <2>2 DEF DBInv, DBTypes, Restoring
<1> QED
  BY <1>1, <1>2, SnapshotsGrow

LEMMA BackupsHold ==
  ASSUME DBInv
  PROVE  /\ backups \subseteq [of : Content, whole : BOOLEAN]
         /\ \A b \in backups : UpTo(b.of.rows) /\ b.of.holds \subseteq made
  BY DEF DBInv, DBTypes, Numbered, Decided

LEMMA BeginRestoreKeeps ==
  ASSUME DBInv, BeginRestore
  PROVE  DBInv'
<1>1. UNCHANGED <<catalog, gen, open, lock, mig, made, raced, cut, backups, base, wal>> /\ Live' = Live
  BY LiveStays DEF BeginRestore, history
<1>2. PICK s \in backups : restore' = [Idle EXCEPT !.at = "probe", !.of = s.of]
  BY DEF BeginRestore
<1>3. restore' = [at |-> "probe", of |-> s.of, safety |-> Blank]
  BY <1>2 DEF Idle
<1>4. s.of \in Content /\ UpTo(s.of.rows) /\ s.of.holds \subseteq made
  BY BackupsHold
<1>5. DBTypes'
  BY <1>1, <1>3, <1>4, BlankIsIdle DEF DBInv, DBTypes
<1> QED
  BY <1>1, <1>3, <1>4, <1>5, BlankIsIdle, BackupsHold, SnapshotsGrow

LEMMA ProbeLockKeeps ==
  ASSUME DBInv, ProbeLock
  PROVE  DBInv'
<1>1. /\ UNCHANGED <<catalog, gen, open, lock, mig, made, raced, cut, backups>>
      /\ Live' = Live /\ base' \in {base, Live} /\ wal' \in {wal, {}}
  <2>1. CASE open = {} /\ wal # {} /\ ~Torn
    BY <2>1 DEF ProbeLock, Live, history
  <2>2. CASE ~(open = {} /\ wal # {} /\ ~Torn)
    <3>1. base' = base /\ wal' = wal /\ gen' = gen
      BY <2>2 DEF ProbeLock
    <3> QED
      BY <3>1, LiveStays DEF ProbeLock, stateFile, history
  <2> QED
    BY <2>1, <2>2
<1>2. CASE restore' = Idle
  BY <1>1, <1>2, BackupsHold, RefusedKeeps
<1>3. CASE restore' = [restore EXCEPT !.at = "before"]
  <2>1. /\ restore' \in Restoring /\ restore'.at = "before"
        /\ restore'.of = restore.of /\ restore'.safety = restore.safety
    BY <1>3 DEF DBInv, DBTypes, Restoring
  <2>2. DBTypes'
    <3>1. base' \in Content
      BY <1>1, LiveIs DEF DBInv, DBTypes
    <3>2. wal' \in SUBSET [to : Content, of : Nat] /\ \A v, w \in wal' : v = w
      BY <1>1 DEF DBInv, DBTypes
    <3> QED
      BY <1>1, <2>1, <3>1, <3>2 DEF DBInv, DBTypes, Restoring
  <2> QED
    BY <1>1, <2>1, <2>2, BackupsHold, SnapshotsGrow DEF DBInv, Numbered, Decided
<1> QED
  BY <1>2, <1>3 DEF ProbeLock, Refused, Goes

LEMMA VacuumBeforeKeeps ==
  ASSUME DBInv, VacuumBefore
  PROVE  DBInv'
<1>1. /\ UNCHANGED <<catalog, gen, open, lock, mig, made, raced, cut, backups, base, wal>>
      /\ Live' = Live
  BY LiveStays DEF VacuumBefore, history
<1>2. CASE restore' = Idle
  BY <1>1, <1>2, BackupsHold, RefusedKeeps
<1>3. CASE restore' = [restore EXCEPT !.at = "verify", !.safety = Live]
  <2>1. Live \in Content /\ UpTo(Live.rows) /\ Live.holds \subseteq made
    BY LiveIs DEF DBInv, Numbered, Decided
  <2>2. /\ restore' \in Restoring /\ restore'.at = "verify"
        /\ restore'.of = restore.of /\ restore'.safety = Live
    BY <1>3, <2>1 DEF DBInv, DBTypes, Restoring
  <2>3. DBTypes'
    BY <1>1, <2>2 DEF DBInv, DBTypes, Restoring
  <2>4. Numbered' /\ Decided'
    BY <1>1, <2>1, <2>2 DEF DBInv, Numbered, Decided
  <2>5. Moving' /\ Together'
    BY <1>1, MigratorsStay DEF DBInv, Moving
  <2>6. Folded'
    BY <1>1, <2>2 DEF DBInv, Folded, Torn
  <2>7. SafetyIsBehind'
    BY <1>1, <2>2 DEF SafetyIsBehind
  <2>8. Kept'
    BY <1>1, <2>2 DEF DBInv, Kept, Behind, Saved
  <2> QED
    BY <2>3, <2>4, <2>5, <2>6, <2>7, <2>8 DEF DBInv
<1> QED
  BY <1>2, <1>3 DEF VacuumBefore, Refused

\* Equal counts of decisions, of which one set has grown out of the other.
LEMMA SameCountsIsSame ==
  ASSUME DBInv, restore.at = "verify", SameCounts(Live, restore.safety)
  PROVE  restore.safety.holds = Live.holds
<1> DEFINE L == Live.holds
           S == restore.safety.holds
<1>1. L \subseteq made /\ IsFiniteSet(made) /\ S \subseteq L
  BY DEF DBInv, Decided, SafetyIsBehind
<1>2. Cardinality(L) = Cardinality(S)
  BY DEF SameCounts
<1> HIDE DEF L, S
<1>3. IsFiniteSet(L)
  BY <1>1, FS_Subset
<1>4. L = S
  BY <1>1, <1>2, <1>3, FS_Subset
<1> QED
  BY <1>4 DEF L, S

LEMMA VerifyBeforeKeeps ==
  ASSUME DBInv, VerifyBefore
  PROVE  DBInv'
<1>1. UNCHANGED <<catalog, gen, open, lock, mig, made, raced, cut, base, wal>> /\ Live' = Live
  BY LiveStays DEF VerifyBefore, history
<1>2. CASE restore' = Idle /\ backups' = backups
  BY <1>1, <1>2, BackupsHold, RefusedKeeps
<1>3. CASE /\ SameCounts(Live, restore.safety)
           /\ backups' = backups \union {Whole(restore.safety)}
           /\ restore' = [restore EXCEPT !.at = "fold", !.safety = Blank]
  <2> DEFINE s == Whole(restore.safety)
  <2>1. /\ s \in [of : Content, whole : BOOLEAN] /\ s.whole = TRUE /\ s.of = restore.safety
        /\ UpTo(s.of.rows) /\ s.of.holds \subseteq made /\ s.of.holds = Live.holds
    BY <1>3, SameCountsIsSame DEF Whole, DBInv, DBTypes, Numbered, Decided, VerifyBefore
  <2> HIDE DEF s
  <2>2. backups' = backups \union {s}
    BY <1>3 DEF s
  <2>3. /\ restore' \in Restoring /\ restore'.at = "fold"
        /\ restore'.of = restore.of /\ restore'.safety = Blank
    BY <1>3, BlankIsIdle DEF DBInv, DBTypes, Restoring
  <2>4. DBTypes'
    BY <1>1, <2>1, <2>2, <2>3 DEF DBInv, DBTypes, Restoring
  <2>5. Numbered' /\ Decided'
    BY <1>1, <2>1, <2>2, <2>3, BlankIsIdle DEF DBInv, Numbered, Decided
  <2>6. Moving' /\ Together'
    BY <1>1, MigratorsStay DEF DBInv, Moving
  <2>7. Folded' /\ SafetyIsBehind'
    BY <1>1, <2>3 DEF DBInv, Folded, Torn, SafetyIsBehind
  <2>8. Kept'
    <3>1. Saved \subseteq Saved' /\ Live.holds \subseteq Saved'
      BY <2>1, <2>2 DEF Saved
    <3> QED
      BY <1>1, <3>1 DEF DBInv, Kept
  <2> QED
    BY <2>4, <2>5, <2>6, <2>7, <2>8 DEF DBInv
<1> QED
  BY <1>2, <1>3 DEF VerifyBefore, Refused

\* The steps from the fold to the replace.
LEMMA GoesKeeps ==
  ASSUME DBInv, FoldWal \/ CopyIncoming
  PROVE  DBInv'
<1>1. /\ UNCHANGED <<catalog, gen, open, lock, mig, made, cut, backups>>
      /\ restore.at \in {"fold", "copy"} /\ restore'.at \in {"copy", "replace"}
      /\ restore' \in Restoring /\ restore'.of = restore.of /\ restore'.safety = restore.safety
  BY DEF FoldWal, CopyIncoming, Goes, DBInv, DBTypes, Restoring, stateFile, history
<1>2. Live' = Live /\ base' \in {base, Live} /\ wal' \in {wal, {}}
  <2>1. CASE FoldWal /\ ~Torn
    <3>1. base' = Live /\ wal' \in {wal, {}}
      BY <2>1 DEF FoldWal
    <3>2. CASE wal' = {}
      BY <3>1, <3>2 DEF Live
    <3>3. CASE wal' # {}
      <4>1. wal' = wal /\ wal # {}
        BY <3>1, <3>3
      <4> DEFINE c == CHOOSE v \in wal' : TRUE
      <4>2. PICK w \in wal' : TRUE
        BY <3>3
      <4>3. c \in wal
        BY <4>1, <4>2
      <4>4. Live' = c.to
        BY <3>3 DEF Live
      <4> HIDE DEF c
      <4>5. Live = c.to
        BY <4>3, LiveIs DEF DBInv
      <4> QED
        BY <4>4, <4>5, <3>1
    <3> QED
      BY <3>1, <3>2, <3>3
  <2>2. CASE FoldWal /\ Torn
    <3>1. base' = base /\ wal' = wal /\ gen' = gen
      BY <2>2 DEF FoldWal
    <3> QED
      BY <3>1, LiveStays DEF stateFile
  <2>3. CASE CopyIncoming
    BY <2>3, LiveStays DEF CopyIncoming
  <2> QED
    BY <2>1, <2>2, <2>3
<1>3. (raced => raced') /\ raced' \in BOOLEAN
  BY DEF FoldWal, CopyIncoming, DBInv, DBTypes, history
<1>4. DBTypes'
  <2>1. base' \in Content
    BY <1>2, LiveIs DEF DBInv, DBTypes
  <2>2. wal' \in SUBSET [to : Content, of : Nat] /\ \A v, w \in wal' : v = w
    BY <1>2 DEF DBInv, DBTypes
  <2> QED
    BY <1>1, <1>3, <2>1, <2>2 DEF DBInv, DBTypes, Restoring
<1>5. Numbered' /\ Decided' /\ SafetyIsBehind'
  BY <1>1, <1>2 DEF DBInv, Numbered, Decided, SafetyIsBehind
<1>6. Moving' /\ Together'
  BY <1>1, <1>2, <1>3, MigratorsStay DEF DBInv, Moving
<1>7. Folded'
  <2>1. Torn' => Torn
    BY <1>1, <1>2 DEF Torn
  <2>2. CASE CopyIncoming
    BY <1>1, <1>2, <1>3, <2>1, <2>2 DEF DBInv, Folded, CopyIncoming
  <2>3. CASE FoldWal
    BY <1>3, <2>1, <2>3 DEF DBInv, Folded, FoldWal
  <2> QED
    BY <2>2, <2>3
<1>8. Kept'
  BY <1>1, <1>2, <1>3 DEF DBInv, Kept, Behind, Saved
<1> QED
  BY <1>4, <1>5, <1>6, <1>7, <1>8 DEF DBInv

\* The two steps that take the state file away from under its readers: nobody
\* has it open, so no migrator is at work.
LEMMA TakenAway ==
  ASSUME DBInv, open = {}, mig' = mig
  PROVE  Moving'
<1>1. \A m \in Migrator : mig[m].at = "off"
  BY DEF DBInv, Moving
<1> QED
  BY <1>1 DEF Moving

LEMMA ReplaceStateKeeps ==
  ASSUME DBInv, ReplaceState
  PROVE  DBInv'
<1>1. UNCHANGED <<catalog, wal, open, lock, mig, backups, made, raced>>
  BY DEF ReplaceState
<1>2. CASE open # {}
  <2>1. UNCHANGED <<base, gen>> /\ restore' = Idle /\ cut' = cut
    BY <1>2 DEF ReplaceState, Refused, DBInv, DBTypes
  <2>2. Live' = Live
    BY <1>1, <2>1, LiveStays DEF stateFile
  <2> QED
    BY <1>1, <2>1, <2>2, BackupsHold, RefusedKeeps
<1>3. CASE open = {}
  <2>1. /\ base' = restore.of /\ gen' = gen + 1 /\ restore.at = "replace"
        /\ restore' \in Restoring /\ restore'.at = "unlink"
        /\ restore'.of = restore.of /\ restore'.safety = restore.safety
        /\ cut' = (cut \/ restore.of.rows # catalog)
    BY <1>3 DEF ReplaceState, Goes, DBInv, DBTypes, Restoring
  <2>2. Live' = IF wal = {} THEN restore.of ELSE Live
    BY <1>1, <2>1 DEF Live
  <2>3. DBTypes'
    BY <1>1, <2>1 DEF DBInv, DBTypes, Restoring
  <2>4. Numbered' /\ Decided'
    BY <1>1, <2>1, <2>2 DEF DBInv, Numbered, Decided
  <2>5. Moving'
    BY <1>1, <1>3, TakenAway
  <2>6. ~raced => wal = {}
    BY <2>1 DEF DBInv, Folded
  <2>7. Together'
    <3>1. CASE raced
      BY <1>1, <3>1 DEF Together
    <3>2. CASE ~raced
      BY <1>1, <2>1, <2>2, <2>6, <3>2 DEF Together
    <3> QED
      BY <3>1, <3>2
  <2>8. Folded'
    BY <1>1, <2>6 DEF Folded, Torn
  <2>9. SafetyIsBehind'
    BY <2>1 DEF SafetyIsBehind
  <2>10. Kept'
    BY <1>1, <2>1 DEF DBInv, Kept, Behind, Saved
  <2> QED
    BY <2>3, <2>4, <2>5, <2>7, <2>8, <2>9, <2>10 DEF DBInv
<1> QED
  BY <1>2, <1>3

LEMMA UnlinkWalKeeps ==
  ASSUME DBInv, UnlinkWal
  PROVE  DBInv'
<1>1. /\ UNCHANGED <<catalog, base, gen, open, lock, mig, backups, made, raced, cut>>
      /\ restore.at = "unlink" /\ restore' = Idle
      /\ wal' = IF open = {} THEN {} ELSE wal
  BY DEF UnlinkWal, Refused, history
<1>2. CASE open # {} \/ wal = {}
  <2>1. wal' = wal
    BY <1>1, <1>2
  <2>2. Live' = Live
    BY <1>1, <2>1, LiveStays DEF stateFile
  <2> QED
    BY <1>1, <2>1, <2>2, BackupsHold, RefusedKeeps
<1>3. CASE open = {} /\ wal # {}
  <2>1. raced /\ wal' = {} /\ Live' = base
    BY <1>1, <1>3 DEF DBInv, Folded, Live
  <2>2. restore' \in Restoring /\ restore'.at = "off" /\ restore'.of = Blank /\ restore'.safety = Blank
    BY <1>1, BlankIsIdle DEF Restoring, Idle
  <2>3. DBTypes'
    BY <1>1, <2>1, <2>2 DEF DBInv, DBTypes, Restoring
  <2>4. Numbered' /\ Decided'
    BY <1>1, <2>1, <2>2, BlankIsIdle DEF DBInv, Numbered, Decided
  <2>5. Moving'
    BY <1>1, <1>3, TakenAway
  <2>6. Together' /\ Folded' /\ Kept' /\ SafetyIsBehind'
    BY <1>1, <2>1, <2>2 DEF Together, Folded, Kept, SafetyIsBehind
  <2> QED
    BY <2>3, <2>4, <2>5, <2>6 DEF DBInv
<1> QED
  BY <1>2, <1>3

LEMMA KillRestoreKeeps ==
  ASSUME DBInv, KillRestore
  PROVE  DBInv'
<1>1. /\ UNCHANGED <<catalog, gen, open, lock, mig, made, raced, cut, base, wal>> /\ Live' = Live
      /\ restore' = Idle
  BY LiveStays DEF KillRestore, Refused, history
<1>2. \/ backups' = backups
      \/ \E w \in BOOLEAN : backups' = backups \union {[of |-> restore.safety, whole |-> w]}
  BY DEF KillRestore, Whole, Part
<1>3. CASE backups' = backups
  BY <1>1, <1>3, BackupsHold, RefusedKeeps
<1>4. CASE \E w \in BOOLEAN : backups' = backups \union {[of |-> restore.safety, whole |-> w]}
  <2>1. PICK w \in BOOLEAN : backups' = backups \union {[of |-> restore.safety, whole |-> w]}
    BY <1>4
  <2> DEFINE s == [of |-> restore.safety, whole |-> w]
  <2>2. /\ s \in [of : Content, whole : BOOLEAN]
        /\ UpTo(s.of.rows) /\ s.of.holds \subseteq made
    BY DEF DBInv, DBTypes, Numbered, Decided
  <2> HIDE DEF s
  <2>3. backups' = backups \union {s}
    BY <2>1 DEF s
  <2>4. /\ backups \subseteq backups' /\ backups' \subseteq [of : Content, whole : BOOLEAN]
        /\ \A b \in backups' : UpTo(b.of.rows) /\ b.of.holds \subseteq made
    BY <2>2, <2>3, BackupsHold
  <2> QED
    BY <1>1, <2>4, RefusedKeeps
<1> QED
  BY <1>2, <1>3, <1>4

-----------------------------------------------------------------------------
LEMMA DBStep == DBInv /\ [Next]_vars => DBInv'
<1> SUFFICES ASSUME DBInv, [Next]_vars
             PROVE  DBInv'
  OBVIOUS
<1>1. ASSUME NEW m \in Migrator, MigratorStep(m)
      PROVE  DBInv'
  <2>1. CASE FinishMigrations(m)
    BY <2>1, EndsKeeps DEF FinishMigrations, history
  <2> QED
    BY <1>1, <2>1, ReadVersionsKeeps, RunScriptKeeps, CommitMainKeeps, CommitAttachedKeeps,
       NextMigrationKeeps, KillMigratorKeeps DEF MigratorStep
<1>2. ASSUME RestoreStep
      PROVE  DBInv'
  BY <1>2, BeginRestoreKeeps, ProbeLockKeeps, VacuumBeforeKeeps, VerifyBeforeKeeps, GoesKeeps,
     ReplaceStateKeeps, UnlinkWalKeeps, KillRestoreKeeps DEF RestoreStep
<1>3. CASE UNCHANGED vars
  BY <1>3, DBStutter
<1> QED
  BY <1>1, <1>2, <1>3, PipelineKeeps, ServerStepKeeps, DecideKeeps, BackupKeeps DEF Next

\* The inductive invariant: versions are the numbers up to one, a migrator's
\* script runs on what it read, no restore goes on under an open connection, and
\* everything decided is held or saved.
THEOREM DBInvHolds == Spec => []DBInv
  BY DBInit, DBStep, PTL DEF Spec

\* However many migrators, migrations, restores and kills there are, the two
\* versions come apart by a kill between a migration's two commits, a restore
\* from before a migration, or a writer that came in behind a restore, and by
\* nothing else (migrate.py:5, 104; restore_state.py:190).
THEOREM SplitIsAlwaysExplained == Spec => []SplitIsExplained
<1>1. DBInv => SplitIsExplained
  BY DEF DBInv, Together, SplitIsExplained
<1> QED
  BY <1>1, DBInvHolds, PTL

\* Every migration lands on a pair of files that agree, next in order and once
\* (migrate.py:85, 104).
THEOREM MigrationsNeverLandOnASplit == Spec => NeverOntoASplit
<1> DEFINE Good == catalog' # catalog =>
                     /\ \E n \in 1..Latest : catalog = 1..(n - 1) /\ catalog' = 1..n
                     /\ Live.rows = catalog
<1>1. DBInv /\ [Next]_vars => Good
  <2> SUFFICES ASSUME DBInv, [Next]_vars, catalog' # catalog
               PROVE  /\ \E n \in 1..Latest : catalog = 1..(n - 1) /\ catalog' = 1..n
                      /\ Live.rows = catalog
    OBVIOUS
  <2>1. PICK m \in Migrator : CommitMain(m)
    BY DEF Next, vars, MigratorStep, RestoreStep, ReadVersions, RunScript, CommitAttached,
           NextMigration, FinishMigrations, KillMigrator, PipelineBegins, PipelineCommits,
           ServerStarts, ServerStops, ThreadEnds, Decide, Backup, BeginRestore, ProbeLock,
           VacuumBefore, VerifyBefore, FoldWal, CopyIncoming, ReplaceState, UnlinkWal, KillRestore
  <2> DEFINE n == mig[m].number
  <2>2. /\ n \in Nat /\ n > 0 /\ n <= Knows[m] /\ catalog = 1..(n - 1) /\ Live.rows = catalog
        /\ catalog' = catalog \union {n}
    BY <2>1 DEF CommitMain, DBInv, DBTypes, Moving
  <2>3. n \in 1..Latest
    BY <2>2, LatestIsLatest, DatabasesAssumption
  <2>4. catalog' = 1..n
    BY <2>2
  <2> QED
    BY <2>2, <2>3, <2>4
<1>2. Spec => [][Good]_vars
  BY <1>1, DBInvHolds, PTL DEF Spec
<1> QED
  BY <1>2, PTL DEF NeverOntoASplit

\* Every decision ever committed is in the state file or in a whole snapshot,
\* unless a writer came in behind a restore (restore_state.py:30).
THEOREM RestoresAreUndoable == Spec => []Undoable
<1>1. DBInv => Undoable
  BY DEF DBInv, Kept, Undoable, Saved
<1> QED
  BY <1>1, DBInvHolds, PTL

\* And the state file is never read through the log of the one it replaced
\* (restore_state.py:181, 192).
THEOREM LiveIsAlwaysWhole == Spec => []LiveIsWhole
<1>1. DBInv => LiveIsWhole
  BY DEF DBInv, Folded, Decided, LiveIsWhole
<1> QED
  BY <1>1, DBInvHolds, PTL

\* Both: a restore nobody wrote behind loses nothing and tears nothing.
THEOREM RestoresAreSafe == Spec => []RestoreIsSafe
<1>1. Undoable /\ LiveIsWhole => RestoreIsSafe
  BY DEF RestoreIsSafe
<1> QED
  BY <1>1, RestoresAreUndoable, LiveIsAlwaysWhole, PTL

\* The two files part in the named ways only and nothing is built on them apart,
\* for any number of migrators, migrations and restores.
THEOREM SplitsAreAlwaysContained == Spec => SplitsAreContained
<1> QED
  BY SplitIsAlwaysExplained, MigrationsNeverLandOnASplit DEF SplitsAreContained

-----------------------------------------------------------------------------
\* RunLock, for every set of processes and number of kills.

\* Every step keeps the types.
LEMMA TypeStep == TypeOK /\ [LockNext]_lockVars => TypeOK'
<1> SUFFICES ASSUME TypeOK, [LockNext]_lockVars PROVE TypeOK'
  OBVIOUS
<1> USE LockAssumption DEF TypeOK, States, Entering, At, Goto, Created, Removed,
            world, file
<1>1. CASE UNCHANGED lockVars
  BY <1>1 DEF lockVars
<1>2. ASSUME NEW p \in Procs, Starts(p) PROVE TypeOK'
  BY <1>2 DEF Starts, Create, FileExists
<1>3. ASSUME NEW p \in Procs, Steps(p) PROVE TypeOK'
  BY <1>3 DEF Steps, Read, Answers, NotAlive, Interrupts, Clear, Recreate,
              WritePid, Exit
<1>4. ASSUME NEW p \in Procs, Kill(p) PROVE TypeOK'
  BY <1>4 DEF Kill
<1>5. QED
  BY <1>1, <1>2, <1>3, <1>4 DEF LockNext

\* While runs are started one by one, every step keeps them apart.
LEMMA ApartStep ==
  ASSUME TypeOK, Orderly, Apart, [LockNext]_lockVars
  PROVE  Apart'
<1> USE LockAssumption DEF TypeOK, Apart, Orderly, Holders, Entering, At, Goto,
            Created, Removed, world, file
<1>1. CASE UNCHANGED lockVars
  BY <1>1 DEF lockVars
<1>2. ASSUME NEW p \in Procs, Starts(p) PROVE Apart'
  <2>1. CASE Create(p)
    BY <2>1 DEF Create, Begins
  <2>2. CASE FileExists(p)
    BY <2>2 DEF FileExists, Begins
  <2>3. QED
    BY <1>2, <2>1, <2>2 DEF Starts
<1>3. ASSUME NEW p \in Procs, Steps(p) PROVE Apart'
  <2>1. CASE Read(p)
    BY <2>1 DEF Read
  <2>2. CASE Answers(p)
    BY <2>2 DEF Answers
  <2>3. CASE NotAlive(p)
    BY <1>3, <2>3 DEF NotAlive, Alive
  <2>4. CASE Interrupts(p)
    BY <2>4 DEF Interrupts
  <2>5. CASE Clear(p)
    BY <2>5 DEF Clear
  <2>6. CASE Recreate(p)
    BY <2>6 DEF Recreate
  <2>7. CASE WritePid(p)
    BY <2>7 DEF WritePid
  <2>8. CASE Exit(p)
    BY <2>8 DEF Exit
  <2>9. QED
    BY <1>3, <2>1, <2>2, <2>3, <2>4, <2>5, <2>6, <2>7, <2>8 DEF Steps
<1>4. ASSUME NEW p \in Procs, Kill(p) PROVE Apart'
  BY <1>4 DEF Kill
<1>5. QED
  BY <1>1, <1>2, <1>3, <1>4 DEF LockNext

(***************************************************************************)
(* The types are kept and orderly runs stay apart in every state.          *)
(***************************************************************************)
THEOREM LockInvHolds == LockSpec => []LockInv
<1>1. LockInit => LockInv
  <2> SUFFICES ASSUME LockInit PROVE LockInv
    OBVIOUS
  <2>1. TypeOK
    <3>1. exists \in BOOLEAN /\ handle \in BOOLEAN
      BY DEF LockInit
    <3>2. seen \in [Procs -> Procs \cup {NoPid}] /\ pc \in [Procs -> States]
      BY DEF LockInit, States
    <3>3. kills \in 0 .. MaxKills
      BY LockAssumption DEF LockInit
    <3>4. QED
      BY <3>1, <3>2, <3>3, Zenon DEF LockInit, TypeOK
  <2>2. Apart
    BY DEF LockInit, Entering, Apart, Holders, At
  <2>3. QED
    BY <2>1, <2>2 DEF LockInv
<1>2. LockInv /\ [LockNext]_lockVars => LockInv'
  <2> SUFFICES ASSUME LockInv, [LockNext]_lockVars PROVE LockInv'
    OBVIOUS
  <2>1. Orderly' <=> Orderly
    BY DEF LockNext, Starts, Steps, Kill, lockVars, world, Orderly
  <2>2. QED
    BY <2>1, TypeStep, ApartStep DEF LockInv
<1>3. QED
  BY <1>1, <1>2, PTL DEF LockSpec

(***************************************************************************)
(* Two orderly runs of phase2a never hold the lock together, through any   *)
(* number of kills at any system call.                                     *)
(***************************************************************************)
THEOREM RunsExcludeEachOther == LockSpec => []MutualExclusion
<1>1. LockInv => MutualExclusion
  BY DEF LockInv, Apart, MutualExclusion, Holders
<1>2. QED
  BY <1>1, LockInvHolds, PTL

(***************************************************************************)
(* The file names its holder for as long as it is held.                    *)
(***************************************************************************)
THEOREM TheHolderIsNamed == LockSpec => []HolderIsNamed
<1>1. LockInv => HolderIsNamed
  BY DEF LockInv, Apart, HolderIsNamed, Holders
<1>2. QED
  BY <1>1, LockInvHolds, PTL
=============================================================================
