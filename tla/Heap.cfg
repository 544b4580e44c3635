\* Every question about every graph of four nodes, page by page.
SPECIFICATION Spec
CONSTANTS
    LastNode = 3
    ClassOf <- MCClassOf
    SelfSize <- MCSelfSize
    MaxSize = 13
    Snapshots <- MCSnapshots
    Questions <- MCQuestions
INVARIANTS
    RetainedSizesExact
    AnswersAreExact
\* A request ends when its answer has been read.
CHECK_DEADLOCK FALSE
