-------------------------------- MODULE Hub --------------------------------
(***************************************************************************)
(* The partyline hub (internal/partyline) with the goroutines that use it: *)
(* one terminal goroutine and one printer per SSH session                  *)
(* (ssh.Server.runTerminal), the receive goroutines of the transport that  *)
(* call DeliverRemote, and the transport's fanout goroutine that reads     *)
(* remoteSend.                                                             *)
(*                                                                         *)
(* A goroutine blocked on one of the hub's unbuffered channels is at the   *)
(* step named after the channel; the hub's select may take any request     *)
(* that is there.  One case of the select is one action: the hub owns the  *)
(* session map, its sends do not block, and they go to different channels. *)
(***************************************************************************)
EXTENDS Integers, Sequences

CONSTANTS
    Clients,    \* SSH sessions; each joins once
    Remotes,    \* receive goroutines of the transport
    Nicks,      \* nicknames
    InboxCap,   \* capacity of Session.Send
    QueueCap,   \* capacity of Hub.broadcast
    RemoteCap,  \* capacity of Manager.remoteSend
    MaxPosts    \* bound: messages per client or remote

ASSUME HubAssumption ==
    /\ InboxCap \in Nat /\ QueueCap \in Nat \ {0} /\ RemoteCap \in Nat
    /\ MaxPosts \in Nat /\ Nicks # {} /\ Clients \cap Remotes = {}

VARIABLES
    hub,        \* "running" or "stopped"
    stop,       \* the stop channel has been closed
    sessions,   \* the hub's session map
    nick,       \* Session.Nick
    inbox,      \* how many lines are buffered in Session.Send
    closed,     \* the clients whose Session.Send is closed
    queue,      \* what is buffered in Hub.broadcast
    remoteSend, \* what is buffered in Manager.remoteSend
    pc,         \* the terminal goroutine of each session
    want,       \* the nickname it asks for
    posted,     \* how many messages each client or remote has written
    panicked,   \* a send on, or a close of, a closed channel has happened
    \* history
    last,       \* the line the hub sent out last
    announced,  \* the nickname the hub last announced for a session
    processed   \* the messages the hub has sent out

vars == <<hub, stop, sessions, nick, inbox, closed, queue, remoteSend, pc, want,
          posted, panicked, last, announced, processed>>

Authors == Clients \cup Remotes
SomeNick == CHOOSE n \in Nicks : TRUE

\* A line on the screen: what it is, whom it is about and under which nickname.
\* Lines from remote nodes carry a nickname the hub does not look at.
Line(kind, author, n) == [kind |-> kind, author |-> author, nick |-> n]

\* bcastMsg.  In the code a message that DeliverRemote queues names no session; the
\* hub looks only at the flag, and the author is kept for the properties.
Message == [from: Authors, text: 1 .. MaxPosts, system: BOOLEAN]
RemoteMsg == [from: Authors, nick: Nicks \cup {"remote"}, text: 1 .. MaxPosts]

Init ==
    /\ hub = "running" /\ stop = FALSE
    /\ sessions = {}
    /\ nick = [c \in Clients |-> SomeNick]
    /\ inbox = [c \in Clients |-> 0]
    /\ closed = {}
    /\ queue = << >>
    /\ remoteSend = << >>
    /\ pc = [c \in Clients |-> "off"]
    /\ want = [c \in Clients |-> SomeNick]
    /\ posted = [a \in Authors |-> 0]
    /\ panicked = FALSE
    /\ last = Line("none", "none", "none")
    /\ announced = [c \in Clients |-> "none"]
    /\ processed = {}

-----------------------------------------------------------------------------
(* The hub.                                                                 *)

\* Fault: the buffer has no bound.
SendAllUnbounded(S, line) ==
    /\ inbox' = [c \in Clients |-> IF c \in S THEN inbox[c] + 1 ELSE inbox[c]]
    /\ last' = line

\* Fault: sendAll waits for room in every inbox.
SendAllWaits(S, line) ==
    /\ \A c \in S : inbox[c] < InboxCap
    /\ inbox' = [c \in Clients |-> IF c \in S THEN inbox[c] + 1 ELSE inbox[c]]
    /\ last' = line

\* sendAll: a line for every session of S; a full inbox loses it, a closed
\* channel panics.
SendAll(S, line) ==
    /\ inbox' = [c \in Clients |->
                   IF c \in S /\ inbox[c] < InboxCap THEN inbox[c] + 1 ELSE inbox[c]]
    /\ last' = line

SendPanics(S) == S \cap closed # {}

Serving == hub = "running"

\* The nickname that stands in msg.from.
NickOf(a) == IF a \in Clients THEN nick[a] ELSE "remote"

HubJoin(c) ==
    /\ Serving /\ pc[c] = "join"
    /\ sessions' = sessions \cup {c}
    /\ nick' = [nick EXCEPT ![c] = want[c]]
    /\ pc' = [pc EXCEPT ![c] = "read"]
    /\ SendAll(sessions \cup {c}, Line("joined", c, want[c]))
    /\ panicked' = (panicked \/ SendPanics(sessions \cup {c}))
    /\ announced' = [announced EXCEPT ![c] = want[c]]
    /\ UNCHANGED <<hub, stop, closed, queue, remoteSend, want, posted, processed>>

\* Fault: the session stays in the map.
HubLeaveKeeps(c) ==
    /\ Serving /\ pc[c] = "leave"
    /\ pc' = [pc EXCEPT ![c] = "drain"]
    /\ closed' = closed \cup {c}
    /\ SendAll(sessions \ {c}, Line("left", c, nick[c]))
    /\ panicked' = (panicked \/ SendPanics(sessions \cup {c}))
    /\ UNCHANGED <<hub, stop, sessions, nick, queue, remoteSend, want, posted,
                   announced, processed>>

HubLeave(c) ==
    /\ Serving /\ pc[c] = "leave"
    /\ pc' = [pc EXCEPT ![c] = "drain"]
    /\ IF c \in sessions
       THEN /\ sessions' = sessions \ {c}
            /\ closed' = closed \cup {c}
            /\ SendAll(sessions \ {c}, Line("left", c, nick[c]))
            /\ panicked' = (panicked \/ SendPanics(sessions \cup {c}))
       ELSE UNCHANGED <<sessions, closed, inbox, last, panicked>>
    /\ UNCHANGED <<hub, stop, nick, queue, remoteSend, want, posted, announced, processed>>

\* Fault: messages of sessions that have left are thrown away.
HubBroadcastPresent ==
    /\ Serving /\ queue # << >>
    /\ IF Head(queue).from \in sessions
       THEN /\ SendAll(sessions \ {Head(queue).from},
                       Line("chat", Head(queue).from, nick[Head(queue).from]))
            /\ processed' = processed \cup {Head(queue)}
       ELSE UNCHANGED <<inbox, last, processed>>
    /\ queue' = Tail(queue)
    /\ UNCHANGED <<hub, stop, sessions, nick, closed, remoteSend, pc, want, posted,
                   panicked, announced>>

\* A message without the system flag goes to the other sessions under the
\* nickname its author has now and, if there is room, to the transport; one with
\* the flag is a finished line for all sessions.
HubBroadcast ==
    /\ Serving /\ queue # << >>
    /\ LET m == Head(queue)
       IN /\ SendAll(sessions \ {m.from},
                     IF m.system THEN Line("remote", m.from, "remote")
                                 ELSE Line("chat", m.from, NickOf(m.from)))
          /\ panicked' = (panicked \/ SendPanics(sessions \ {m.from}))
          /\ remoteSend' = IF ~m.system /\ Len(remoteSend) < RemoteCap
                           THEN Append(remoteSend, [from |-> m.from, nick |-> NickOf(m.from),
                                                    text |-> m.text])
                           ELSE remoteSend
          /\ processed' = processed \cup {m}
    /\ queue' = Tail(queue)
    /\ UNCHANGED <<hub, stop, sessions, nick, closed, pc, want, posted, announced>>

HubWho(c) ==
    /\ Serving /\ pc[c] = "who"
    /\ pc' = [pc EXCEPT ![c] = "read"]
    /\ UNCHANGED <<hub, stop, sessions, nick, inbox, closed, queue, remoteSend, want,
                   posted, panicked, last, announced, processed>>

HubSetNick(c) ==
    /\ Serving /\ pc[c] = "setNick"
    /\ nick' = [nick EXCEPT ![c] = want[c]]
    /\ pc' = [pc EXCEPT ![c] = "read"]
    /\ SendAll(sessions, Line("renamed", c, want[c]))
    /\ panicked' = (panicked \/ SendPanics(sessions))
    /\ announced' = [announced EXCEPT ![c] = want[c]]
    /\ UNCHANGED <<hub, stop, sessions, closed, queue, remoteSend, want, posted, processed>>

\* Fault: the channels stay open.
HubStopOnly ==
    /\ Serving /\ stop
    /\ hub' = "stopped"
    /\ UNCHANGED <<stop, sessions, nick, inbox, closed, queue, remoteSend, pc, want,
                   posted, panicked, last, announced, processed>>

HubStop ==
    /\ Serving /\ stop
    /\ hub' = "stopped"
    /\ closed' = closed \cup sessions
    /\ panicked' = (panicked \/ SendPanics(sessions))
    /\ UNCHANGED <<stop, sessions, nick, inbox, queue, remoteSend, pc, want, posted,
                   last, announced, processed>>

-----------------------------------------------------------------------------
(* Its users.                                                               *)

\* runTerminal: Join under the user name, then one call per line read; a read
\* error or /quit ends the loop and Leave follows.
Call(c, step) ==
    /\ pc' = [pc EXCEPT ![c] = step]
    /\ UNCHANGED <<hub, stop, sessions, nick, inbox, closed, queue, remoteSend,
                   posted, panicked, last, announced, processed>>

\* Fault: the caller writes Session.Nick itself before it asks the hub.
SetNickDirect(c, n) ==
    /\ pc[c] = "read" /\ pc' = [pc EXCEPT ![c] = "setNick"]
    /\ want' = [want EXCEPT ![c] = n] /\ nick' = [nick EXCEPT ![c] = n]
    /\ UNCHANGED <<hub, stop, sessions, inbox, closed, queue, remoteSend,
                   posted, panicked, last, announced, processed>>

Join(c, n) == pc[c] = "off" /\ Call(c, "join") /\ want' = [want EXCEPT ![c] = n]
SetNick(c, n) == pc[c] = "read" /\ Call(c, "setNick") /\ want' = [want EXCEPT ![c] = n]
Who(c) == pc[c] = "read" /\ Call(c, "who") /\ want' = want
Leave(c) == pc[c] = "read" /\ Call(c, "leave") /\ want' = want
Type(c) == pc[c] = "read" /\ posted[c] < MaxPosts /\ Call(c, "post") /\ want' = want

\* Broadcast and DeliverRemote block while the queue is full.
Enqueue(a, system) ==
    /\ Len(queue) < QueueCap
    /\ posted' = [posted EXCEPT ![a] = posted[a] + 1]
    /\ queue' = Append(queue, [from |-> a, text |-> posted[a] + 1, system |-> system])

Broadcast(c) ==
    /\ pc[c] = "post" /\ Enqueue(c, FALSE)
    /\ pc' = [pc EXCEPT ![c] = "read"]
    /\ UNCHANGED <<hub, stop, sessions, nick, inbox, closed, remoteSend, want,
                   panicked, last, announced, processed>>

\* Fault: what a remote node said is queued like a chat message, in the name of a
\* session made for the purpose.
DeliverRemoteAsChat(r) ==
    /\ posted[r] < MaxPosts /\ Enqueue(r, FALSE)
    /\ UNCHANGED <<hub, stop, sessions, nick, inbox, closed, remoteSend, pc, want,
                   panicked, last, announced, processed>>

\* "Delivered as a system message": a line with the flag, ready to be shown.
DeliverRemote(r) ==
    /\ posted[r] < MaxPosts /\ Enqueue(r, TRUE)
    /\ UNCHANGED <<hub, stop, sessions, nick, inbox, closed, remoteSend, pc, want,
                   panicked, last, announced, processed>>

\* The printer of a session writes one line to the terminal.
ShowLine(c) ==
    /\ inbox[c] > 0
    /\ inbox' = [inbox EXCEPT ![c] = @ - 1]
    /\ UNCHANGED <<hub, stop, sessions, nick, closed, queue, remoteSend, pc, want,
                   posted, panicked, last, announced, processed>>

\* The range over Session.Send ends, and with it runTerminal.
Finish(c) ==
    /\ pc[c] = "drain" /\ c \in closed /\ inbox[c] = 0
    /\ Call(c, "done") /\ want' = want

\* fanoutLoop takes the next message for the network.
TakeRemote ==
    /\ remoteSend # << >>
    /\ remoteSend' = Tail(remoteSend)
    /\ UNCHANGED <<hub, stop, sessions, nick, inbox, closed, queue, pc, want,
                   posted, panicked, last, announced, processed>>

Stop ==
    /\ ~stop /\ stop' = TRUE
    /\ UNCHANGED <<hub, sessions, nick, inbox, closed, queue, remoteSend, pc, want,
                   posted, panicked, last, announced, processed>>

-----------------------------------------------------------------------------
Select == \/ \E c \in Clients : HubJoin(c) \/ HubLeave(c) \/ HubWho(c) \/ HubSetNick(c)
          \/ HubBroadcast \/ HubStop

Users == \/ \E c \in Clients : \/ \E n \in Nicks : Join(c, n) \/ SetNick(c, n)
                               \/ Who(c) \/ Leave(c) \/ Type(c) \/ Broadcast(c)
                               \/ ShowLine(c) \/ Finish(c)
         \/ \E r \in Remotes : DeliverRemote(r)
         \/ TakeRemote \/ Stop

Next == Select \/ Users

\* select chooses at random among the cases that are ready and blocked senders
\* of a channel are served in turn, so no request is passed over for ever.  A
\* request stays where it is until it is taken, hence weak fairness; a client
\* that waits for room in the queue competes with the others for it, hence
\* strong fairness.  Users, printers and the transport may stop at any time.
Fairness ==
    /\ \A c \in Clients :
         /\ WF_vars(HubJoin(c)) /\ WF_vars(HubLeave(c))
         /\ WF_vars(HubWho(c)) /\ WF_vars(HubSetNick(c))
         /\ SF_vars(Broadcast(c))
    /\ WF_vars(HubBroadcast)

Spec == Init /\ [][Next]_vars
FairSpec == Spec /\ Fairness

-----------------------------------------------------------------------------
(* Properties.                                                              *)

\* The type of every variable.
TypeOK ==
    /\ hub \in {"running", "stopped"} /\ stop \in BOOLEAN
    /\ sessions \subseteq Clients
    /\ nick \in [Clients -> Nicks] /\ want \in [Clients -> Nicks]
    /\ inbox \in [Clients -> 0 .. InboxCap]
    /\ closed \subseteq Clients
    /\ queue \in Seq(Message) /\ Len(queue) <= QueueCap
    /\ remoteSend \in Seq(RemoteMsg) /\ Len(remoteSend) <= RemoteCap
    /\ pc \in [Clients -> {"off", "join", "read", "post", "who", "setNick", "leave",
                           "drain", "done"}]
    /\ posted \in [Authors -> 0 .. MaxPosts]
    /\ panicked \in BOOLEAN
    /\ announced \in [Clients -> Nicks \cup {"none"}]
    /\ processed \subseteq Message

\* The hub never sends on a closed channel and never closes one twice, however
\* joins, leaves, messages and the stop are interleaved (Run, sendAll): the map
\* holds exactly the sessions whose channel is open.
NoPanic ==
    /\ ~panicked
    /\ Serving => sessions \cap closed = {}

\* Once the hub has stopped no session is left with an open channel, or its
\* printer would wait for ever (Run's stop case): each one that joined has been
\* closed by its leave or by the stop.
StopReleasesPrinters ==
    hub = "stopped" =>
        \A c \in Clients : pc[c] \in {"off", "join"} \/ c \in closed

\* A chat line is shown under the nickname last announced for its author, even
\* when the author changed it after writing the message or has left: readers
\* can tell who is speaking (broadcast reads Nick when it sends out the line).
NickAsAnnounced ==
    last.kind = "chat" => last.author \in Clients /\ last.nick = announced[last.author]

\* What a remote node said is not sent to the network again (DeliverRemote:
\* "Delivered as a system message so it is NOT re-forwarded to transport").  When
\* the hub forwards a message it knows nothing of where it came from but the flag
\* that travelled with it through the queue, among those of local users.
NoReflood ==
    \A i \in 1 .. Len(remoteSend) : remoteSend[i].from \in Clients

\* A session that does not read its terminal delays nobody: a call of any client
\* returns unless the hub is stopped, though no printer ever has to print
\* (sendAll drops lines for a full inbox instead of waiting).
CallsReturn ==
    \A c \in Clients :
        pc[c] \in {"join", "post", "who", "setNick", "leave"}
          ~> pc[c] \in {"read", "drain", "done"} \/ stop

\* No message is lost between a terminal and the hub: what a user wrote is sent
\* out although the user may leave before the hub comes to it, unless the hub
\* is stopped.
PostsProcessed ==
    \A c \in Clients : \A t \in 1 .. MaxPosts :
        posted[c] = t ~> stop \/ [from |-> c, text |-> t, system |-> FALSE] \in processed
=============================================================================
