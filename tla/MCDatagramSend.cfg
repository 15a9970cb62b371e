\* Two sends by two workers, fair loops.
CONSTANTS
    Senders = {w1, w2}
    MaxSends = 2
SPECIFICATION FairSendSpec
INVARIANTS AnswersAreTrue FreedTooEarlyInOneTurn
PROPERTIES SendIsAnswered
CHECK_DEADLOCK FALSE
