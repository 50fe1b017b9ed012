------------------------------ MODULE LiveFeed ------------------------------
(***************************************************************************)
(* The live feed of the portal (ws-hub): sockets register with the hub     *)
(* under their session and their account, one task passes what Redis       *)
(* publishes on to them, and each cleans up after itself.  The hub is a    *)
(* sharded map: what happens to one channel under its lock is one step,    *)
(* and nothing holds the locks of two.  The process the repository builds  *)
(* does not start the bridge; its tests do.                                *)
(***************************************************************************)
EXTENDS Naturals, Sequences

CONSTANTS
    Sockets,
    Channels,
    ChannelsOf,     \* socket -> its channels, in order
    MaxMessages     \* bound: messages published

VARIABLES
    clients,    \* channel -> the sockets registered; an absent channel is empty
    socket,     \* socket -> [pc, at, empty]: at the at'th of its channels
    sender,     \* the send task of a socket: "none", "on" or "off"
    queue,      \* its mpsc channel; 0 is the greeting
    got,        \* what the client received
    bridge,     \* the message being delivered, and where it still goes
    published,
    due         \* history: what a greeted socket's channels have carried since

vars == <<clients, socket, sender, queue, got, bridge, published, due>>

Chan(s) == {ChannelsOf[s][i] : i \in DOMAIN ChannelsOf[s]}

Init ==
    /\ clients = <<>>
    /\ socket = [s \in Sockets |-> [pc |-> "away", at |-> 1, empty |-> FALSE]]
    /\ sender = [s \in Sockets |-> "none"]
    /\ queue = [s \in Sockets |-> <<>>]
    /\ got = [s \in Sockets |-> <<>>]
    /\ bridge = [msg |-> 0, todo |-> {}]
    /\ published = 0
    /\ due = [s \in Sockets |-> <<>>]

At(s, pc) == socket[s].pc = pc
Here(s) == ChannelsOf[s][socket[s].at]
Last(s) == socket[s].at = Len(ChannelsOf[s])

With(c, S) == [d \in DOMAIN clients \cup {c} |-> IF d = c THEN S ELSE clients[d]]
Without(c) == [d \in DOMAIN clients \ {c} |-> clients[d]]

\* On to the next channel with pc, or past the last one.
Step(s, pc, past) ==
    socket' = [socket EXCEPT ![s] =
        IF Last(s) THEN [pc |-> past, at |-> 1, empty |-> FALSE]
        ELSE [pc |-> pc, at |-> @.at + 1, empty |-> FALSE]]

\* Hub::register, for each channel in turn.
Register(s) ==
    /\ socket[s].pc \in {"away", "join"}
    /\ clients' = With(Here(s), {s} \cup (IF Here(s) \in DOMAIN clients THEN clients[Here(s)] ELSE {}))
    /\ Step(s, "join", "greet")
    /\ UNCHANGED <<sender, queue, got, bridge, published, due>>

\* The greeting is queued, and the send task started.
Greet(s) ==
    /\ At(s, "greet")
    /\ socket' = [socket EXCEPT ![s].pc = "open"]
    /\ sender' = [sender EXCEPT ![s] = "on"]
    /\ queue' = [queue EXCEPT ![s] = Append(@, 0)]
    /\ UNCHANGED <<clients, got, bridge, published, due>>

\* The send task forwards the head of the queue, or ends with its sink, and
\* the queue with it; the socket stays registered.
Forward(s) ==
    /\ sender[s] = "on" /\ queue[s] # <<>>
    /\ queue' = [queue EXCEPT ![s] = Tail(@)]
    /\ got' = [got EXCEPT ![s] = Append(@, Head(queue[s]))]
    /\ UNCHANGED <<clients, socket, sender, bridge, published, due>>

SinkFails(s) ==
    /\ sender[s] = "on"
    /\ sender' = [sender EXCEPT ![s] = "off"]
    /\ queue' = [queue EXCEPT ![s] = <<>>]
    /\ UNCHANGED <<clients, socket, got, bridge, published, due>>

\* The receive loop ends, and takes the send task with it.
Close(s) ==
    /\ At(s, "open")
    /\ socket' = [socket EXCEPT ![s].pc = "leave"]
    /\ sender' = [sender EXCEPT ![s] = "off"]
    /\ queue' = [queue EXCEPT ![s] = <<>>]
    /\ UNCHANGED <<clients, got, bridge, published, due>>

\* Hub::unregister, for each channel: out of the set, and, if that left it
\* empty, out of the map in a step of its own.
Unregister(s) ==
    /\ At(s, "leave")
    /\ clients' = IF Here(s) \in DOMAIN clients
                  THEN With(Here(s), clients[Here(s)] \ {s}) ELSE clients
    /\ socket' = [socket EXCEPT ![s].pc = "reclaim",
                     ![s].empty = Here(s) \in DOMAIN clients /\ clients'[Here(s)] = {}]
    /\ UNCHANGED <<sender, queue, got, bridge, published, due>>

\* Variant: the emptiness seen before is not looked at again.
ReclaimUnchecked(s) ==
    /\ At(s, "reclaim")
    /\ clients' = IF socket[s].empty THEN Without(Here(s)) ELSE clients
    /\ Step(s, "leave", "gone")
    /\ UNCHANGED <<sender, queue, got, bridge, published, due>>

\* remove_if looks at the set again, under the lock.
Reclaim(s) ==
    /\ At(s, "reclaim")
    /\ clients' = IF socket[s].empty /\ Here(s) \in DOMAIN clients /\ clients[Here(s)] = {}
                  THEN Without(Here(s)) ELSE clients
    /\ Step(s, "leave", "gone")
    /\ UNCHANGED <<sender, queue, got, bridge, published, due>>

\* The bridge takes the next message of Redis: for a channel, for all, or for
\* none, if its payload is no text.  Its stream may end: then none is taken
\* any more.
Receive ==
    /\ bridge.todo = {}
    /\ published < MaxMessages
    /\ published' = published + 1
    /\ \E to \in {{c} : c \in Channels} \cup {Channels, {}} :
          bridge' = [msg |-> published + 1, todo |-> to]
    /\ UNCHANGED <<clients, socket, sender, queue, got, due>>

\* Hub::deliver, and one channel of Hub::deliver_broadcast, whose iteration
\* comes by every channel at some time.  A queue whose task has ended takes
\* nothing.
Deliver(c) ==
    /\ c \in bridge.todo
    /\ bridge' = [bridge EXCEPT !.todo = @ \ {c}]
    /\ queue' = [s \in Sockets |->
          IF c \in DOMAIN clients /\ s \in clients[c] /\ sender[s] # "off"
          THEN Append(queue[s], bridge.msg) ELSE queue[s]]
    /\ due' = [s \in Sockets |->
          IF sender[s] = "on" /\ c \in Chan(s) THEN Append(due[s], bridge.msg) ELSE due[s]]
    /\ UNCHANGED <<clients, socket, sender, got, published>>

Next ==
    \/ \E s \in Sockets :
          \/ Register(s) \/ Greet(s) \/ Forward(s) \/ SinkFails(s) \/ Close(s)
          \/ Unregister(s) \/ Reclaim(s)
    \/ Receive
    \/ \E c \in Channels : Deliver(c)

Spec == Init /\ [][Next]_vars

-----------------------------------------------------------------------------
(* Properties *)

\* What was queued for a socket behind its greeting.
Heard(s) ==
    LET all == got[s] \o queue[s]
        greeting == CHOOSE i \in DOMAIN all : all[i] = 0
    IN  SubSeq(all, greeting + 1, Len(all))

\* hub.rs:47-69: whichever sockets of its channels come and go meanwhile, a
\* socket that was greeted gets all that its channels carry, in order, a
\* broadcast once for each of them; and a channel of which nobody is left is
\* gone from the map.
FeedIsWhole ==
    /\ \A s \in Sockets : sender[s] = "on" => Heard(s) = due[s]
    /\ \A c \in DOMAIN clients : \E s \in Sockets :
          c \in Chan(s) /\ ~At(s, "away") /\ ~At(s, "gone")
=============================================================================
