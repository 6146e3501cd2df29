CONSTANTS
    Nodes <- AllNodes
    Height <- Heights
    Trees <- AllTrees
SPECIFICATION FairSpec
INVARIANTS IndentsOwed TellsApart
PROPERTIES KeepsPromise Returns
CHECK_DEADLOCK FALSE
