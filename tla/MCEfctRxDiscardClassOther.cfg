SPECIFICATION Spec
INVARIANT ClassifyMatchesTable
