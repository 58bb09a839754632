SPECIFICATION Spec
CONSTANTS
    PrefLists <- SomeLists
    Handlers <- ManyHandlers
    Port <- EdgePorts
    Length <- EdgeLengths
    Size <- EdgeSizes
CHECK_DEADLOCK FALSE
INVARIANT OfferReachesListener
INVARIANT OnlyUnusableOffersLost
INVARIANT FailoverTriesAll
INVARIANT PayloadFramesJudged
 
INVARIANT ControlFramesPass
