SPECIFICATION FairSpec
CONSTANTS
    p1 = p1
    p2 = p2
    d1 = d1
    d2 = d2
    None = None
    Paths = {p1, p2}
    Dirs = {d1, d2}
    DirOf <- TwoDirs
    Chars = {"x", "nl"}
    Blank = {"nl"}
    Newline = "nl"
    Texts <- SmallTexts
    Size = 4
    Overlap = 3
    Deletions <- OneOrAll
INVARIANTS
    StoredDocumentsAreWhole
    FinishedIndexIsFresh
PROPERTIES
    IndexKeepsDocuments
    IndexReturns
