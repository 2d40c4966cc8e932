CONSTANTS
    Null = Null
    Cells = 3
    Groups = {1, 2}
    MaxIp = 3
    MaxTargets = 2
    Proxies = {"none", "socks5", "http-connect", "unreadable"}
    FallbackDirect = TRUE
    Flights <- MCFlights
    Replies <- MCReplies
    Answers <- MCAnswers
    DefaultTarget <- MCDefaultTarget
    Group = 5
    Word = 11
    Fields = {0, 1, 3}
    MaxFields = 2
    HeadFields = {1, 40}
    Values <- MCValues
    Strings <- MCStrings
    Headers <- MCHeaders
    Texts <- MCTexts
    Offsets = {0, 1, 2, 255, 256}
    Lengths = {4, 14, 18, 19, 270, 274, 525}

SPECIFICATION MCSpec

INVARIANTS
    LoginTypeOK
    StreamInOrder
    RecordsUnderstood
    PsksAgree
    TargetsWellOrdered
    ZeroRttUnderstood
    NoConnectionLeft
    MessagesAreRead
    PacketsAreRead
    Lz4IsExact


    
