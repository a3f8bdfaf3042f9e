SPECIFICATION Spec
CONSTANTS
    Sites = {1, 2, 3}
    Networks <- SmallNetworks
    MaxObj = 3
PROPERTIES CalmLasts StrangersStay 
INVARIANTS TypeOK LinksConfigured TopologyWhenSettled FloodsDieOut
CHECK_DEADLOCK FALSE
