SPECIFICATION ToolsSpec
CONSTANTS
    Dialogs = {d1, d2, d3}
    Spare = d3
    MaxEditors = 1
    Patient = TRUE
    None = None
    Found <- MCFound
    Names <- MCNames
    Saves = {s1}
    MaxEdits = 2
    MaxId = 3
    Offered <- MCFound
    Typed <- MCTyped
    Source <- MCSource
    GroupIds = {g1, g2}
    Calls = {k1, k2}
    MaxChips = 3
    c1 = c1
    c2 = c2
    Comics <- MCComics
    AlignTags = {t1}
    Batches = {b1, b2}
    q1 = q1
    q2 = q2
    Queries = {q1, q2}
    Results <- MCResults
    Empty = Empty
    p1 = p1
    p2 = p2
    NPages = 2
    Sources = {p1, p2}
    PagesOf <- MCPagesOf
    MaxChanges = 2
    Posts = {k3}
    Nothing = Nothing
INVARIANTS DialogsHoldThePage ChipsAreDistinct GroupsRelateTags TagsStayDistinct UnsavedIsGuarded MarksMeanChanges InsertNamesItsSource
PROPERTY SaveMeansWhatItShows
SYMMETRY Symmetry
CHECK_DEADLOCK FALSE
