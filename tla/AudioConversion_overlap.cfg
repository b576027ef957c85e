\* Two conversions of up to three files, one file replaced once, one fault.
SPECIFICATION ConversionSpec
CONSTANTS
    first = first
    second = second
    malformed = malformed
    Location <- Two
    Uri = {first, second, malformed}
    Content = {speech, music, text}
    Audio = {speech, music}
    Requests <- SomeRequests
    Conversion = {c1, c2}
    MaxPuts = 1
    MaxFaults = 1
    None = None
INVARIANTS
    PlaysInOrder
PROPERTIES
    RetriesAgree
\* All conversions end.
CHECK_DEADLOCK FALSE
