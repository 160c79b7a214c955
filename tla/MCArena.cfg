CONSTANTS
    p1 = p1 p2 = p2 p3 = p3
    Page <- Pages
    NULL = NULL
    MaxCount = 2
SPECIFICATION Spec
CHECK_DEADLOCK FALSE
INVARIANTS GrowsOnlyWhenFull PagesPartitioned CountsExact
