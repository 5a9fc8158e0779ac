CONSTANTS NumFiles = 2
          RowsPerFile = 2
          MaxRuns = 2
          LinesPerCsv = 3
          MaxConversions = 2
          Layouts <- MCLayouts
          Shapes <- MCShapes
SPECIFICATION DSpec
INVARIANTS Delivered NoStaleRows CountedIsComplete VerifiedIsComplete CleanRunLeaves
PROPERTY ImplementsMerge
CHECK_DEADLOCK FALSE
