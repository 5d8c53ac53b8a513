SPECIFICATION Spec
CONSTANTS
    MaxRequests = 3
    MaxFaults = 1
    Fields = {media_thumbs}
    media_thumbs = media_thumbs
INVARIANTS
    SignedOutStaysOut
    BotsKept
    IssuedTokenKept
    InstanceAgrees
CHECK_DEADLOCK FALSE
