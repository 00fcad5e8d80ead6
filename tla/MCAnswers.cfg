SPECIFICATION FairSpec
CONSTANTS
    fileA = fileA
    fileB = fileB
    n1 = n1
    n2 = n2
    n3 = n3
    NoFile = NoFile
    NoFilter = NoFilter
    Blank = Blank
    Docs <- MCDocs
    Files <- MCFiles
    Llms <- MCLlms
    ModePrompt <- MCModePrompt
    Histories <- MCHistories
    Words <- MCWords
    Conversations <- MCConversations
    Responses <- MCResponses
    Nodes <- MCNodes
    Scores <- MCScores
    HistoryMax = 2
    ChunksPerDoc = 2
    Scale = 2
    VectorWeight = 1
    Bm25Weight = 1
    TopK = 1
    RerankTopN = 1
INVARIANTS
    TypeOK
    FiltersHold
    AnswersAreCurrent
    NamesAreReplaced
    DeltasAddUp
    MergeRespectsRanks
    EveryStyleAsks
PROPERTIES
    ChatsEnd
