\* Two sessions, a remote goroutine, queues of one; the cases of the select are
\* fair, and printers, users and the transport may stall.
SPECIFICATION FairSpec
CONSTANTS
    a = a  b = b
    Clients = {a, b}
    Remotes = {"r"}
    Nicks = {"x", "y"}
    InboxCap = 1  QueueCap = 1  RemoteCap = 1  MaxPosts = 1
INVARIANTS TypeOK NoPanic StopReleasesPrinters NoReflood NickAsAnnounced
PROPERTIES CallsReturn PostsProcessed
CHECK_DEADLOCK FALSE
