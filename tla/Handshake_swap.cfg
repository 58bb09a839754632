SPECIFICATION FairSpec
CONSTANTS
    Advertiser = Advertiser
    Discoverer = Discoverer
    MaxSend = 2
    MaxOffers = 2
    MaxFaults = 1
    ReaderStops = TRUE
CHECK_DEADLOCK FALSE
INVARIANT HeardBeforeClosed
INVARIANT SwapsTogether
INVARIANT NeverBothWait
PROPERTY KeepsConversation
PROPERTY UpgradeConverges
PROPERTY OwnerReturns
