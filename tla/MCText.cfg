\* Texts of each kind, up to a length that nests two delimiters.
SPECIFICATION TextSpec
CONSTANTS
    Pieces <- MCPieces
    MaxPieces <- MCMaxPieces
INVARIANTS
    BlocksStayWhole
    SplitKeepsTokens
    WordsAsTokens
    ValuesSurvive
\* A text is finished some time.
CHECK_DEADLOCK FALSE
