\* Two blocks that share rows.
CONSTANTS
    Jobs <- AllJobs
    Cells <- Sheet
SPECIFICATION Spec
INVARIANT HiddenRowsAreUnused
