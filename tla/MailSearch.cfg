SPECIFICATION FairSpec
CONSTANTS
    None = None
    Mail <- MCMail
    Box <- MCBox
    Ask <- MCAsk
    Today = 1
    MaxListed = 2
    MaxChanges = 1
INVARIANTS
    NewestOfEachThread
    
PROPERTIES
    SearchEnds
CHECK_DEADLOCK FALSE
