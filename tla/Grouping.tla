------------------------------ MODULE Grouping ------------------------------
(***************************************************************************)
(* archive/pipeline/group.py and capture_time.py: the date of a file from  *)
(* everything known of it, and the tiles: the whole-corpus rebuild and the *)
(* incremental extend over the same tables, while files are published,     *)
(* condemned and cleared, and paths are found.                             *)
(*                                                                         *)
(* A file is a number, in the order of the hashes; a path carries its pair *)
(* key, the date its name states, its mtime and whether it has an edit     *)
(* marker; a date is a number of seconds and 0 one that is no date.  A     *)
(* perceptual hash is the set of its bits.  Both builds are one step: what *)
(* happens between their reads and their COMMIT is Rebuild's.              *)
(***************************************************************************)
EXTENDS Integers, FiniteSets, FiniteSetsExt, Functions, Folds

CONSTANTS
    File,       \* sha256 of every file
    Path,       \* every origin path there may be
    Worlds      \* bounds: the files and paths of a behaviour, and what it does

ASSUME GroupingAssumption ==
    /\ File \subseteq Nat \ {0} /\ IsFiniteSet(File)
    /\ \A w \in Worlds :
         /\ w.edits \in Nat /\ w.published \subseteq File /\ w.found \subseteq Path
         /\ DOMAIN w.file = File /\ DOMAIN w.path = Path
         /\ \A f \in File : LET i == w.file[f] IN {i.exif, i.recovered, i.size} \subseteq Nat /\ IsFiniteSet(i.bits)
         /\ \A o \in Path : {w.path[o].named, w.path[o].mtime} \subseteq Nat

VARIABLES
    published,  \* file.state = 'published'
    condemned,  \* triage_override: decision 'exclude'
    origins,    \* origin: the paths found
    taken,      \* file.taken_at and taken_src
    photo,      \* photo: id -> its representative and sort key
    member,     \* photo_member: file -> photo id
    pairKey,    \* pair_key: <<dir_stem, file>>
    nearBand,   \* near_band: <<<<band, chunk>>, file>>
    nearDup,    \* near_dup: file -> group id
    sound,      \* history: tiled files nothing was learnt or decided about since
    corpus, edits

inputs == <<published, condemned, origins, taken>>
tables == <<photo, member, pairKey, nearBand, nearDup>>
groupingVars == <<inputs, tables, sound, corpus, edits>>

GroupingInit ==
    /\ corpus \in Worlds /\ edits = corpus.edits
    /\ published = corpus.published /\ condemned = {} /\ origins = corpus.found
    /\ taken = [f \in File |-> IF corpus.file[f].exif = 0 THEN [at |-> 0, src |-> "null"]
                               ELSE [at |-> corpus.file[f].exif, src |-> "exif"]]
    /\ photo = << >> /\ member = << >> /\ nearDup = << >>
    /\ pairKey = {} /\ nearBand = {}
    /\ sound = {}

-----------------------------------------------------------------------------
(* The chain of dates. *)

UNDATED == 0    \* SORT_KEY_UNDATED: below every date
Plausible(date) == date # 0
NamesOf(f) == {corpus.path[o] : o \in {o \in origins : corpus.path[o].file = f}}
NamedDates(f) == {o.named : o \in NamesOf(f)} \ {0}
\* A mistake: the latest copy's date.
BugLatest(S) == Max(S)
Earliest(S) == Min(S)
Mtimes(f) == {o.mtime : o \in NamesOf(f)}

Resolved(f) ==
    IF taken[f].src = "exif" THEN taken[f]
    ELSE IF corpus.file[f].recovered # 0 THEN [at |-> corpus.file[f].recovered, src |-> "exif"]
    ELSE IF NamedDates(f) # {} THEN [at |-> Earliest(NamedDates(f)), src |-> "filename"]
    ELSE IF Mtimes(f) # {} /\ Plausible(Earliest(Mtimes(f))) THEN [at |-> Earliest(Mtimes(f)), src |-> "mtime"]
    ELSE [at |-> 0, src |-> "none"]

-----------------------------------------------------------------------------
(* What a file is, for grouping. *)

Kept == published \ condemned
Cls(f) == corpus.file[f].cls
KeysOf(f) == IF Cls(f) = "none" THEN {} ELSE {o.key : o \in NamesOf(f)}
Edited(f) == NamesOf(f) # {} /\ \A o \in NamesOf(f) : o.edited

PAIR_TOLERANCE_SECONDS == 2
HasExif(f) == taken[f].src = "exif"
Corroborates(f, g) ==
    HasExif(f) /\ HasExif(g) =>
        taken[f].at - taken[g].at \in (-PAIR_TOLERANCE_SECONDS) .. PAIR_TOLERANCE_SECONDS

\* Pixels and bytes are one number here.
Rank(f) == <<IF Edited(f) THEN 0 ELSE 1, corpus.file[f].size, IF HasExif(f) THEN 1 ELSE 0, f>>
Outranks(f, g) ==
    \E i \in 1..4 : Rank(f)[i] > Rank(g)[i] /\ \A j \in 1..(i - 1) : Rank(f)[j] = Rank(g)[j]
DatesOf(S) == {taken[f].at : f \in S} \ {0}
Tile(S) == [rep |-> CHOOSE f \in S : \A g \in S \ {f} : Outranks(f, g),
            key |-> IF DatesOf(S) = {} THEN UNDATED ELSE Earliest(DatesOf(S))]

BucketEdges(S) ==
    {e \in S \X S : Cls(e[1]) = "raw" /\ Cls(e[2]) = "jpeg" /\ Corroborates(e[1], e[2])}

NEAR_BANDS == 4
NEAR_BAND_BITS == 16
NEAR_MAX_DISTANCE == 3
Hashed(S) == {f \in S : corpus.file[f].hashed}
Bits(f) == corpus.file[f].bits
Bands(f) == {<<b, Bits(f) \cap (b * NEAR_BAND_BITS)..(b * NEAR_BAND_BITS + 15)>> : b \in 0..(NEAR_BANDS - 1)}
Alike(f, g) == Cardinality((Bits(f) \ Bits(g)) \union (Bits(g) \ Bits(f))) <= NEAR_MAX_DISTANCE

-----------------------------------------------------------------------------
(* Union-find: the root of each item, the lower root winning. *)

Union(root, e) ==
    LET low == Min({root[e[1]], root[e[2]]})
    IN  [x \in DOMAIN root |-> IF root[x] \in {root[e[1]], root[e[2]]} THEN low ELSE root[x]]
Components(S, edges) == FoldSet(LAMBDA e, root : Union(root, e), [x \in S |-> x], edges)
Group(root, r) == {x \in DOMAIN root : root[x] = r}

\* The nth group, by its smallest member, gets id n; groups smaller than `least` none.
Numbered(root, least) ==
    LET roots == {r \in Range(root) : Cardinality(Group(root, r)) >= least}
    IN  [x \in {x \in DOMAIN root : root[x] \in roots} |-> Cardinality({r \in roots : r <= root[x]})]

-----------------------------------------------------------------------------
(* The whole-corpus build: rebuild(). *)

PairRows(S) == UNION {{<<k, f>> : k \in KeysOf(f)} : f \in S}
BandRows(S) == UNION {{<<b, f>> : b \in Bands(f)} : f \in Hashed(S)}
BucketsEdges(index) == UNION {BucketEdges({e[2] : e \in {e \in index : e[1] = k}}) : k \in {e[1] : e \in index}}
NearEdges(S) == {e \in S \X S : Bands(e[1]) \cap Bands(e[2]) # {} /\ Alike(e[1], e[2])}
Tiles(of) == [i \in Range(of) |-> Tile({f \in DOMAIN of : of[f] = i})]

Rebuild ==
    /\ Kept # {}
    /\ member' = Numbered(Components(Kept, BucketsEdges(PairRows(Kept))), 1)
    /\ photo' = Tiles(member')
    /\ pairKey' = PairRows(Kept)
    /\ nearBand' = BandRows(Kept)
    /\ nearDup' = Numbered(Components(Hashed(Kept), NearEdges(Hashed(Kept))), 2)
    /\ sound' = Kept
    /\ UNCHANGED <<inputs, corpus, edits>>

-----------------------------------------------------------------------------
(* The incremental path: extend(). *)

\* A group that touches tiles takes the lowest of their ids and all of their
\* members; one that touches none takes a new id.
\* A mistake: the other members of a touched tile are left behind.
BugJoined(root, least, r, s) ==
    LET ids == {s.of[f] : f \in Group(root, r) \cap DOMAIN s.of}
        target == IF ids = {} THEN s.next ELSE Min(ids)
    IN  IF Cardinality(Group(root, r)) < least THEN s
        ELSE [of |-> [f \in DOMAIN s.of \union Group(root, r) |->
                        IF f \in Group(root, r) THEN target ELSE s.of[f]],
              next |-> IF ids = {} THEN s.next + 1 ELSE s.next]
Joined(root, least, r, s) ==
    LET ids == {s.of[f] : f \in Group(root, r) \cap DOMAIN s.of}
        all == Group(root, r) \union {f \in DOMAIN s.of : s.of[f] \in ids}
        target == IF ids = {} THEN s.next ELSE Min(ids)
    IN  IF Cardinality(all) < least THEN s
        ELSE [of |-> [f \in DOMAIN s.of \union all |-> IF f \in all THEN target ELSE s.of[f]],
              next |-> IF ids = {} THEN s.next + 1 ELSE s.next]
First(of) == [of |-> of, next |-> IF DOMAIN of = {} THEN 1 ELSE Max(Range(of)) + 1]
\* The groups, smallest member first, folded into the ids there are.
Absorb(root, of, least) ==
    MapThenFoldSet(LAMBDA r, s : Joined(root, least, r, s), First(of), LAMBDA r : r, Max, Range(root)).of

\* A mistake: the evidence of the new files alone, not of their neighbours.
BugTouched(S, index) == {e \in index : e[2] \in S}
Touched(S, index) == {e \in index : \E f \in S : <<e[1], f>> \in index}

Extend(batch) ==
    LET new == (batch \cap Kept) \ DOMAIN member
        index == pairKey \union PairRows(new)
        reached == {e \in Touched(new, index) : e[2] \in Kept}
        edges == BucketsEdges(reached)
        root == Components(new \union UNION {{e[1], e[2]} : e \in edges}, edges)
        stirred == {member[f] : f \in DOMAIN root \cap DOMAIN member}
        hashed == Hashed(new)
        bands == nearBand \union BandRows(new)
        close == {e \in hashed \X Kept :
                    e[1] # e[2] /\ (\E b \in Bands(e[1]) : <<b, e[2]>> \in bands) /\ Alike(e[1], e[2])}
        alike == Components(hashed \union {e[2] : e \in close}, close)
    IN  /\ new # {}
        \* a tile that would be read again and holds a file no longer eligible is
        \* a KeyError, and the transaction is lost
        /\ \A f \in DOMAIN member : member[f] \in stirred => f \in Kept
        /\ member' = Absorb(root, member, 1)
        /\ photo' = [i \in Range(member') |->
                       IF i \in {member'[f] : f \in DOMAIN root} THEN Tiles(member')[i] ELSE photo[i]]
        /\ pairKey' = index
        /\ nearBand' = bands
        /\ nearDup' = Absorb(alike, nearDup, 2)
        /\ sound' = sound \union new
        /\ UNCHANGED <<inputs, corpus, edits>>

-----------------------------------------------------------------------------
(* The world: promotion, decisions, inventory and capture_time. *)

Edit(kind) == kind \in corpus.does /\ edits > 0 /\ edits' = edits - 1 /\ UNCHANGED corpus

Publish(f) ==
    /\ Edit("publish") /\ f \notin published /\ published' = published \union {f}
    /\ UNCHANGED <<condemned, origins, taken, tables, sound>>
Condemn(f) ==
    /\ Edit("decide") /\ f \notin condemned /\ condemned' = condemned \union {f}
    /\ sound' = sound \ {f}
    /\ UNCHANGED <<published, origins, taken, tables>>
Clear(f) ==
    /\ Edit("decide") /\ f \in condemned /\ condemned' = condemned \ {f}
    /\ UNCHANGED <<published, origins, taken, tables, sound>>
Find(o) ==
    /\ Edit("find") /\ o \notin origins /\ origins' = origins \union {o}
    /\ sound' = sound \ {corpus.path[o].file}
    /\ UNCHANGED <<published, condemned, taken, tables>>
ResolveDates ==
    /\ "resolve" \in corpus.does
    /\ taken' = [f \in File |-> Resolved(f)]
    /\ sound' = {f \in sound : taken'[f] = taken[f]}
    /\ UNCHANGED <<published, condemned, origins, tables, corpus, edits>>

GroupingNext ==
    \/ \E f \in File : Publish(f) \/ Condemn(f) \/ Clear(f)
    \/ \E o \in Path : Find(o)
    \/ ResolveDates
    \/ Rebuild
    \/ \E batch \in SUBSET File : Extend(batch)

GroupingSpec == GroupingInit /\ [][GroupingNext]_groupingVars

-----------------------------------------------------------------------------
Settled == DOMAIN member \subseteq sound

\* What a group is, without any search: nothing closed under the relation that
\* holds the one leaves out the other.
Together(S, Linked(_, _), f, g) ==
    \A C \in SUBSET S :
        f \in C /\ (\A x \in C, y \in S : Linked(x, y) \/ Linked(y, x) => y \in C) => g \in C

Paired(f, g) == KeysOf(f) \cap KeysOf(g) # {} /\ <<f, g>> \in BucketEdges({f, g})

\* While nothing was learnt or decided about a tiled file since it got its tile,
\* the tiles are the groups of the pairing, each with its best file and its
\* earliest date, however many extends of whatever batches made them
\* (group.py:596).
TilesAreThePairs ==
    Settled =>
      /\ \A f, g \in DOMAIN member : member[f] = member[g] <=> Together(DOMAIN member, Paired, f, g)
      /\ photo = Tiles(member)

\* Likewise the near-duplicate groups are the groups of two and more files that
\* are chained by distances of three bits, though only files that share a band
\* are compared, and of a batch only the new ones (group.py:705).
NearAreTheClose ==
    Settled =>
      \A f, g \in Hashed(DOMAIN member) : f # g =>
        (Together(Hashed(DOMAIN member), Alike, f, g)
           <=> {f, g} \subseteq DOMAIN nearDup /\ nearDup[f] = nearDup[g])

\* Both groupings, by extend as by rebuild (group.py:594).
GroupsAreTheEvidence == TilesAreThePairs /\ NearAreTheClose

\* Whatever was learnt or decided meanwhile: extend takes no file out of its
\* tile, never parts two files and never gives a tile's id to other files; and
\* a tile has members, its representative among them (group.py:653).
ExtendOnlyMerges ==
    [][Rebuild \/ /\ \A f, g \in DOMAIN member :
                       /\ f \in DOMAIN member' /\ member'[f] <= member[f]
                       /\ member[f] = member[g] => member'[f] = member'[g]
                  /\ DOMAIN photo' = Range(member')
                  /\ \A i \in DOMAIN photo' : photo'[i].rep \in DOMAIN member' /\ member'[photo'[i].rep] = i]_groupingVars

\* What is learnt only moves a date up the chain or, on one rung, to an earlier
\* reading (capture_time.py:27) -- but for a file that has a copy whose mtime is
\* no date: the earliest mtime is then that one, and the date is lost.
Rung(src) == CASE src = "exif" -> 3 [] src = "filename" -> 2 [] src = "mtime" -> 1 [] OTHER -> 0
Masked(f) == \E m \in Mtimes(f) : ~Plausible(m)
DatesOnlyImprove ==
    [][\A f \in File :
         \/ Rung(taken'[f].src) > Rung(taken[f].src)
         \/ taken'[f].src = taken[f].src /\ taken'[f].at <= taken[f].at
         \/ Rung(taken[f].src) <= 1 /\ taken'[f].at = 0 /\ (taken[f].at = 0 \/ Masked(f))]_groupingVars
=============================================================================
