\* Texts with lines shorter and longer than a chunk, in up to 78 parts.
CONSTANTS
    Texts <- MCTexts
    MaxContent = 8
    Reserve = 3
    HeaderRunes <- MCHeaderRunes
SPECIFICATION FairSpec
INVARIANTS
    TypeOK
    BodiesAreTheText
    PartsFit
    LinesStayWhole
PROPERTY
    Terminates
