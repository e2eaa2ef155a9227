\* Five contents, two to a page; an upload may be overtaken by another.
SPECIFICATION Spec
CONSTANTS
    c1 = c1
    c2 = c2
    c3 = c3
    c4 = c4
    c5 = c5
    Contents <- MCContents
    PageSize = 2
    MaxPage = 4
    Overlap = 1
SYMMETRY Symmetry
INVARIANTS TypeOK PagesPartition MissesExplained 
PROPERTIES EmptyTruthful
