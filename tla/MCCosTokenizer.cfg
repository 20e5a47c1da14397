CONSTANTS
    Texts <- AnyTexts
    MayFail = TRUE
    IntMax = 7
    WhitespaceMax = 2
    NoToken = NoToken
SPECIFICATION EitherSpec
INVARIANTS ReadAsWritten TokensTellTheText
PROPERTIES CallsReturn
