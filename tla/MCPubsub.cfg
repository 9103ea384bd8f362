SPECIFICATION FairSpec
CONSTANTS
    app = app
    other = other
    s1 = s1
    s2 = s2
    block = block
    tx = tx
    Threads = {app, other}
    Subscribers = {s1, s2}
    Topics = {block, tx}
    Calls <- CallsOf
    TopicsOf <- TopicOfEach
    Awaited = {s1}
    Again = {}
    Capacity = 1
    MaxEvents = 3
INVARIANTS HandledInOrder
PROPERTIES WaitSeesHandled CallsReturn
CHECK_DEADLOCK FALSE
