CONSTANTS
    Width = 3
    Height = 3
    Margin = 1
    Threads <- TwoThreads
    Keyboard = "keyboard"
    Messages <- SomeMessages
    Letters <- TwoLetters
    ExitCommand <- Exit
    LineMax = 4
    MaxCalls = 3
    MaxKeys = 5
    MaxBusy = 1
SPECIFICATION Spec
INVARIANTS
    TypeOK
    CursorAtEnd
    NothingLost
    MarginRestored
    CommandIsEdited
CHECK_DEADLOCK FALSE
