SPECIFICATION FairPubSub
CONSTANTS
    p1 = p1
    s1 = s1
    s2 = s2
    Publishers = {p1}
    Subscribers = {s1, s2}
    TheBroker = broker
    TopicOf <- MCTopicOf
    TopicsOf <- MCTopicsOf
    QueueRoom = 2
    MaxSubs = 2
    MaxPubs = 1
    MaxLines = 2
CHECK_DEADLOCK FALSE
INVARIANTS LinesInOrder
PROPERTIES BrokerGoesOn Shutdown
