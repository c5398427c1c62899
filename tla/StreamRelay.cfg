CONSTANTS
    MaxLines = 3
SPECIFICATION FairSpec
PROPERTIES ReadsWhatWasSaid ReaderIsAnswered
\* Everything has been said, read or lost.
CHECK_DEADLOCK FALSE
