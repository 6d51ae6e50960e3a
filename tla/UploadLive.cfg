CONSTANTS
    algebra = algebra
    physics = physics
    cover = cover
    page = page
    Texts = {algebra}
    Images = {cover}
    NoText = NoText
    NoImage = NoImage
    MaxSubmits = 2
    MaxForms = 2
    MaxFaults = 1
SPECIFICATION FairSpec
PROPERTIES
    SubmissionsEnd
    QueueDrains
CHECK_DEADLOCK FALSE
