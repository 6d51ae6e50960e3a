CONSTANTS
    algebra = algebra
    physics = physics
    cover = cover
    page = page
    Texts = {algebra, physics}
    Images = {cover, page}
    NoText = NoText
    NoImage = NoImage
    MaxSubmits = 2
    MaxForms = 2
    MaxFaults = 1
SPECIFICATION Spec
INVARIANTS
    TypeOK
    ImageBeforeDocument
    SuccessIsTrue
PROPERTY ImplementsShelf
CHECK_DEADLOCK FALSE
