\* Every sequence of up to three results, both services, every answer of the server.
SPECIFICATION ServedSpec
CONSTANTS
    MaxAttempts = 2
    MaxLines = 2
    MaxContext = 12
    MinEach = 4
    Longest = 7
    Results <- MCResults
INVARIANTS OneAnswer RoomIsShared OnlyTheDraftSlips
PROPERTIES CanceledIsSilent AnswerEnds
