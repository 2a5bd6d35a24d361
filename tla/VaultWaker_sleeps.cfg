SPECIFICATION FairSpec
CONSTANTS
    Addresses = {a1}
    TTL = 2
    MaxChanges = 1
    MaxErrors = 0
    None = None
PROPERTY WarmingPageWakes
