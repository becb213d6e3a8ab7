------------------------------ MODULE MCIngest ------------------------------
EXTENDS Ingest

\* An .arw v1 left on its side, a .jpg v1 rendered, a video it could not, and a
\* file of the photos root MediaVault never saw.
CONSTANTS arw, jpg, vid, gap

Bounds(files, faults, n) == [files |-> files, faults |-> faults, upsets |-> n]
SmallWorlds ==
    {Bounds({arw}, {"kill", "fail", "retry", "partial", "promote"}, 2),
     Bounds({jpg}, {"kill", "fail", "retry", "promote"}, 2),
     Bounds({vid}, {"kill", "fail", "retry", "promote", "decide"}, 2),
     Bounds({gap}, {"kill", "fail", "retry", "promote", "decide"}, 3),
     Bounds({vid, gap}, {"kill"}, 1)}
=============================================================================
