SPECIFICATION FairSpec
CONSTANTS
  NB = 4
  BS = 2
  Jobs <- MCJobs
INVARIANTS
  IndInv DescriptorsLast
PROPERTIES
  CopiesImage Terminates
