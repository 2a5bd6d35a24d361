SPECIFICATION FairSpec
CONSTANTS
    Addresses = {a1, a2}
    TTL = 2
    MaxChanges = 1
    MaxErrors = 1
    None = None
INVARIANT NotFoundWasSo
PROPERTIES RecognisedWithinTTL ReachedIfUpOrAsked
