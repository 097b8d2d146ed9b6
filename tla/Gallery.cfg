SPECIFICATION FairSpec
CONSTANTS
    i1 = i1
    i2 = i2
    a1 = a1
    a2 = a2
    t1 = t1
    t2 = t2
    Image = {i1, i2}
    Album = {a1, a2}
    Slug = {"x", "y", "z"}
    Opened <- TwoAlbums
    Placed <- FirstIn
    PictureOf <- OnePicture
    Size <- OneByte
    Limit = 2
    Requests = 3
    Task = {t1, t2}
    Retries = 1
    None = None
PROPERTIES
    UsageCatchesUp
INVARIANTS
    UploadsSurvive
