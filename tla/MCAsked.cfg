SPECIFICATION AskedSpec
CONSTANTS
    Partners = {emsp, hub}
    Emsps = {emsp}
    Calls = {c1, c2}
    MaxStamp = 2
    PutContents <- MCPutContents
    PatchContents <- MCPatchContents
    Verdicts <- MCVerdicts
    Locations = {"l1", "l2", "l3"}
    Listed <- MCListed
    Limit = 1
    Starts = {0, 1}
    MaxPulls = 1
    MaxChanges = 2
INVARIANTS AskedIInv GoneIsHidden
PROPERTIES OwnerStays BestAnswerWins KeptStaysVisible AskingEnds
CHECK_DEADLOCK FALSE
