\* Matching lines at the boundaries of the windows, the ranges and the limits.
SPECIFICATION Spec
CONSTANT Files <- MCFiles
INVARIANTS FirstLinesShown RangesApart
