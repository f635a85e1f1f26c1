\* Two generations of up to two segments in one directory, fresh or resumed; one file
\* operation of the aligner fails or one segment cannot be parsed, the program may die; passes
\* of the first generation may run into the second.
CONSTANTS
  N = 2
  MaxGens = 2
  Modes = {TRUE, FALSE}
  MaxFaults = 1
SPECIFICATION LiveSpec
INVARIANTS TypeOK ListedIsServable StatusIsTrue
PROPERTIES OnlyGrows JobEnds
CHECK_DEADLOCK FALSE
