SPECIFICATION FairSpec
CONSTANTS
    n1 = n1
    n2 = n2
    u1 = u1
    u2 = u2
    u3 = u3
    u4 = u4
    NoNotice = NoNotice
    NoUser = NoUser
    NoticeSlot = NoticeSlot
    Notices = {n1, n2}
    Users <- MCUsers
    Recipients <- ShortRecipients
    TransportOf <- MCTransport
    Second = 2
    ExpireAt <- MCExpire
    Malformed = {}
    Known <- MCKnown
    WithEmail <- MCWithEmail
    WithPhone <- MCWithPhone
    Rejecting <- MCRejecting
    BatchSize = 2
    MarkMargin = 2
    MaxTime = 3
    MaxCrashes = 1
    MaxPublish = 1
PROPERTIES
    Drains
    StopHonoured
    ImplementsFanOut
