SPECIFICATION PagesSpec
CONSTANTS
    NPages = 3
    s1 = s1
    s2 = s2
    Sources = {s1, s2}
    PagesOf <- MCPagesOf
    MaxChanges = 1
    Posts = {k1, k2}
    Nothing = Nothing
PROPERTY DeletesOnlyMarked
CHECK_DEADLOCK FALSE
