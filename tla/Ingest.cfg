SPECIFICATION FairSpec
CONSTANTS
    arw = arw
    jpg = jpg
    vid = vid
    gap = gap
    File = {arw, jpg, vid, gap}
    InVault = {arw, jpg, vid}
    Tiered = {arw, jpg}
    Sideways = {arw}
    Decodable = {jpg, vid, gap}
    InPhotos = {arw, jpg, vid, gap}
    Worlds <- SmallWorlds
INVARIANT RowsMatchTheDisk
PROPERTY StateGoesForward
PROPERTY FeaturesLand
CHECK_DEADLOCK FALSE
