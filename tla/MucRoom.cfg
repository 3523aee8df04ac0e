SPECIFICATION FairSpec
CONSTANTS
    Contacts = {c1}
    Texts = {q1, q2}
    Creates = {q2}
    TubeRequests = {t1, t2, t3}
    Streams = {t3}
    MaxRooms = 2
INVARIANTS AnsweredOnce BusMatchesRoom 
PROPERTIES WaitingEnds
CHECK_DEADLOCK FALSE
