\* Two writers racing on one clock that reaches 2.  The statuses of a flash
\* are the ones two writers (scheduler and flash endpoint) decide on at once.
CONSTANTS
    Writers = {w1, w2}
    MaxTime = 2
    IssuedStatuses = {"RAW_DATA_UP_TO_DATE", "READY_TO_FLASH", "FLASH_IN_PROGRESS"}
    Nil = Nil
INIT StatusAndParsersInit
NEXT StatusAndParsersNext
INVARIANTS
    TypeOK
    FacilityParsersAgree
    ContactFieldsAgree
