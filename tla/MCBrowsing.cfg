SPECIFICATION Spec
CONSTANTS
    NCards = 3
    CidOf <- MCCidOf
    Posts = {k1}
    None = None
    Comics = {1, 2, 3}
    Differing <- MCDiffering
    TagsOf <- MCTagsOf
    Url <- MCUrl
    Overlays = {o1, o2}
    Asks = {r1, r2}
    Nothing = Nothing
    q1 = q1
    q2 = q2
    q3 = q3
    Queries = {q1, q2, q3}
    Matches <- MCMatches
    Empty = Empty
    Sections = {s1, s2}
    MaxFetches = 3
    Likes = {l1, l2}
    Idle = Idle
    Images = {i1, i2}
    ZoomMin = 60
    ZoomMax = 120
    ZoomStep = 20
    MaxAlerts = 4
    AlertLimit = 2
    LastPage = 2
    Heights = {10, 16, 25}
    Fold = 10
    Slack = 5
    Ages <- MCAges
    MaxVisits = 2
    MaxArms = 2
INVARIANTS ChoiceIsMarked LinksAreSound PreviewFits ImagesMatchMode SkeletonsAreLoading MessagesEnd LabelFits
SYMMETRY Symmetry
CHECK_DEADLOCK FALSE
