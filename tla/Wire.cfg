SPECIFICATION Spec
CHECK_DEADLOCK FALSE
CONSTANTS
    Pub = Pub
    Sub = Sub
    Nothing = Nothing
    Server <- TheServer
    FrameMinSize = 24
    DefaultFrameMax = 96
    TuneOks <- TheOffers
    Channels = {0, 1, 2, 3}
    Messages <- TheMessages
    Names <- TheNames
    Requests <- TheRequests
    Replies <- TheReplies
    MaxStarted = 2
    ClientHeader <- HeaderOf
    ParsePublish <- ReadPublish
    ParseHeader <- ParseBasicHeader
    ReturnOctets <- BasicReturnOf
    DeliverOctets <- BasicDeliverOf
INVARIANTS
    PublishedAsSent
    NothingSwallowed
    DeliveredAsPublished
    LimitsRespected
    RequestsUnderstood
    TruncatedRefused
    RepliesReadable
