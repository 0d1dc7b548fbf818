SPECIFICATION RecordsSpec
CONSTANTS
    Clients = {u1, u2}
    Metas = {m1, m2}
    Ops = {"get", "save", "register", "delete"}
    Crashes = TRUE
    None = None
    CIDs = {c1, c2, c3}
    LinkTags = {t1, t2}
    Unmerged = {}
    Admins = {r1, r2}
    Views = {v1}
    Limit = 1
    NoComic = NoComic
INVARIANT LinksFlat
PROPERTIES StoreSpec AloneTakesEffect TagsGrow
CONSTRAINT Untroubled
SYMMETRY Symmetry
