SPECIFICATION Spec
CONSTANTS
  MaxRows = 4
  Batch = 3
INVARIANT TypeOK
 
INVARIANT OwnModule
INVARIANT OwnArguments
INVARIANT OnlyPrintingFaults
 
INVARIANT TracedReturnIfMoved
\* The program ends.
CHECK_DEADLOCK FALSE
