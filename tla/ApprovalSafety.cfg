\* Two hosts that approve, deny, edit, cancel and tear down two operations, and a history of one.
SPECIFICATION Spec
CONSTANTS
    Host = {h1, h2}
    Capacity = 2
    HistoryLimit = 1
    Purpose = {"cancel", "clear"}
SYMMETRY Symmetry
INVARIANTS TypeOK NothingIsStranded AnswersMatchRecords ClosedIsAnswered
PROPERTY KeepsDecisions
