\* Workbooks, forms and authored documents, one render at a time.
CONSTANTS
    Jobs <- AllJobs
    Cells <- Sheet
SPECIFICATION Spec
INVARIANTS
    TypeOK
    VerdictHasCause
    FaultyNeverRenders
    LastWriteWins
    StaysInBand
    FormShowsData
