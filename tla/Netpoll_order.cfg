\* One netpoll_info: what overtakes does so on the one txq the comment is about.
SPECIFICATION Spec
CONSTANTS
    Netpolls = {n1}
    Infos = {i1}
    NoInfo = NoInfo
    MaxMsgs = 2
    Tries = 1
    PoolSize = 0
INVARIANT MessagesInOrder
