SPECIFICATION Spec
CONSTANTS
    NONE = NONE
    Paths <- MCPaths
    Sonames <- MCSonames
    Versions <- MCVersions
    Trees <- MCTrees
    RootLists <- MCRootLists
    MaxChanges = 2
INVARIANTS
    TypeOK
    AnswerIsRight
    PackIsTheUnionOfClosures
    EdgesKeepTheirProvider
