\* Three pages of two double words of two bytes, and blocks that reach over
\* more than one page.
SPECIFICATION Spec
CONSTANTS
    Gran = 2
    PageSize = 4
    Pages = 3
    MaxBlock = 6
INVARIANTS
    WriterTypeOK
    Stored
    NeverOverprogrammed
    TrailerKept
    MarkedStored
