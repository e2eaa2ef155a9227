\* Five contents, two to a page; only the buttons lead to the second page.
SPECIFICATION Spec
CONSTANTS
    c1 = c1
    c2 = c2
    c3 = c3
    c4 = c4
    c5 = c5
    Contents <- MCContents
    PageSize = 2
    MaxPage = 1
    Overlap = 0
SYMMETRY Symmetry
PROPERTIES StableUnderPagination
