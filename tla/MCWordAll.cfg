SPECIFICATION AllSpec
CONSTANTS
    Letter <- MCLetter
    MaxLen = 3
    MaxIndex = 4
    Word <- MCWord
    Key <- MCKey
    Sel <- MCSel
    CacheSize = 2
    MaxRead = 1
    MaxPage = 2
    MaxAsk = 1
    LevDist = 1
    Uninit = 7
    Stratcl <- MCStratcl
    Articles <- MCArticles
    ChunkSize = 2
    CacheChunks = 2
    DictSize = 8
    Corrupt = {3}
    Piece = 2
INVARIANTS AllTypeOK  FoundOnly ListedOnce    ArticleExact
 
