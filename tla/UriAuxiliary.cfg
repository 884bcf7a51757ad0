CONSTANTS
    Alphabet <- MCAlphabet
    MaxLen = 4
    UrlPrefixes <- MCUrlPrefixes
    UrlTokens <- MCUrlTokens
    MaxUrl = 8
SPECIFICATION Spec
INVARIANT TypeOK
INVARIANT DecodeInvertsEncode
INVARIANT ParseIsNormalForm
