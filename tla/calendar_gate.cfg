\* Three sources that fail, answer nothing or answer.
SPECIFICATION CalendarSpec
CONSTANTS
    Configured <- MCConfigured
    FinnhubKey = FALSE
    TelegramAnswers <- MCAny
    StaleAfter = 2
    AlertCooldown = 1
    LastTick = 5
INVARIANTS
    FailsClosed
