SPECIFICATION Spec
CONSTANTS
    Texts <- MCTexts
    Trim <- MCTrim
    Uint <- MCUint
    Float <- MCFloat
    NotAvailable = {"n/a"}
    Unranged <- MCUnranged
    Unbracketed <- MCUnbracketed
    Commas <- MCCommas
    Colons <- MCColons
    MaxInt = 7
    Invalid = Invalid
    NonFinite = NonFinite
    Responses <- MCResponses
INVARIANTS TypeOK DecodedInAnyOrder NoSeriesTwice EyeLanesAgree LanesLineUp
