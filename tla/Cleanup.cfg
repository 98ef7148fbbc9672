CONSTANTS
    Vocabulary <- MCVocabulary
    Lessons <- MCLessons
    FirstFile <- MCFile
    MaxWork = 3
SPECIFICATION Spec
INVARIANTS LearnRoundTrip OnlyFillersGo ClosedOnce
