----------------------------- MODULE MCGrouping -----------------------------
EXTENDS Grouping

\* A file, and a path of it.
Image(cls, exif, recovered, size, hashed, bits) ==
    [cls |-> cls, exif |-> exif, recovered |-> recovered, size |-> size, hashed |-> hashed, bits |-> bits]
Plain(cls, size) == Image(cls, 0, 0, size, FALSE, {})
Name(f, key, named, mtime, edited) ==
    [file |-> f, key |-> key, named |-> named, mtime |-> mtime, edited |-> edited]
World(does, n, file, path, already, found) ==
    [does |-> does, edits |-> n, file |-> file, path |-> path, published |-> already, found |-> found]

Paths == 1..5
Apart == <<Name(1, "a", 0, 50, FALSE), Name(2, "b", 0, 40, FALSE), Name(3, "c", 0, 30, FALSE),
           Name(4, "d", 0, 20, FALSE), Name(1, "e", 0, 60, FALSE)>>

\* A chain of copies: 1 and 3 share a key, and 2 and 4, and 1 and 2.
Chain == <<Name(1, "x", 0, 50, FALSE), Name(2, "x", 0, 40, TRUE), Name(3, "y", 0, 30, FALSE),
           Name(1, "y", 0, 20, FALSE), Name(4, "x", 0, 10, FALSE)>>
Copies == <<Plain("raw", 2), Plain("jpeg", 2), Plain("jpeg", 2), Plain("raw", 1)>>

\* One card, three clocks: 2 goes with either of the others until its own
\* date is recovered, and a name found late brings 4 in.
Clocks == <<Image("raw", 10, 0, 1, FALSE, {}), Image("jpeg", 0, 12, 1, FALSE, {}),
            Image("raw", 13, 0, 1, FALSE, {}), Image("jpeg", 0, 0, 1, FALSE, {})>>
Card == <<Name(1, "x", 0, 50, FALSE), Name(2, "x", 0, 40, FALSE), Name(3, "x", 0, 30, FALSE),
          Name(4, "y", 15, 20, FALSE), Name(4, "x", 0, 20, TRUE)>>

\* Hashes: 1 and 2 are three bits apart, each in a band of its own; 3 is chained to
\* 1 by 2; 4 has none.
Hashes == <<Image("jpeg", 5, 0, 1, TRUE, {}), Image("jpeg", 6, 0, 1, TRUE, {0, 16, 32}),
            Image("raw", 7, 0, 1, TRUE, {0, 16, 32, 48}), Image("none", 0, 0, 1, FALSE, {})>>

\* Dates: a name that states one, a copy's mtime that is none, and nothing at all.
Undated == <<Plain("jpeg", 1), Plain("raw", 1), Plain("jpeg", 2), Plain("none", 1)>>
Stamps == <<Name(1, "x", 0, 0, FALSE), Name(1, "y", 0, 30, FALSE), Name(2, "x", 22, 40, FALSE),
            Name(2, "x", 20, 50, FALSE), Name(3, "z", 0, 25, TRUE)>>

SmallWorlds ==
    {World({"publish", "decide"}, 5, Copies, Chain, {}, Paths),
     World({"publish", "decide", "find", "resolve"}, 4, Clocks, Card, {1}, {1, 2, 3, 4}),
     World({"publish", "decide"}, 4, Hashes, Apart, {}, Paths),
     World({"publish", "find", "resolve"}, 5, Undated, Stamps, {1}, {1})}
=============================================================================
