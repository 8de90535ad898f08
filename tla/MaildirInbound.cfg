SPECIFICATION FairSpec
CONSTANTS
    Messages = {m1, m2}
    NoMessage = NoMessage
    Pollers = {p1, p2}
    MaxFaults = 2
INVARIANT TypeOK
INVARIANT NoDoubleSpeak
INVARIANT NoReplyLostUnlessFault
INVARIANT DropsAreAccounted
PROPERTY EventuallyConsumed
PROPERTY KeepsInboxPromise
