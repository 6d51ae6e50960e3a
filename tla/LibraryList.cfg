CONSTANTS
    Grades <- MCGrades
    NoGrade = NoGrade
    Window = 2
    Ids = {1, 2, 3}
    Mine = {2, 3}
    GradeOf <- MCGradeOf
SPECIFICATION Spec
INVARIANTS
    TypeOK
    SelectionInStep
    ListIsView
    UploadsListed
PROPERTIES
    BooksStay
    ChangesAreTicked
