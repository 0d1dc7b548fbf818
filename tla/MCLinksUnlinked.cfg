SPECIFICATION LinkSpec
CONSTANTS
    CIDs = {c1, c2, c3}
    LinkTags = {t1}
    Unmerged = {}
    Admins = {r1}
    Views = {v1}
    Limit = 1
    NoComic = NoComic
INVARIANTS UnlinkedIsFree
SYMMETRY Symmetry
