SPECIFICATION RwFairSpec
CONSTANT Thread = {t1, t2, t3, t4}
INVARIANT Exclusion
PROPERTY WriterProceeds
