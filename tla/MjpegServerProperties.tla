----------------------- MODULE MjpegServerProperties -----------------------
(* What MjpegServer promises its clients.                                    *)
EXTENDS MjpegServer

\* Every variable has its type.
TypeOK ==
    /\ accepting \in BOOLEAN
    /\ wire \in [Clients -> {"new", "open", "closed"}]
    /\ reading \subseteq Clients /\ asking \subseteq Clients
    /\ callbacks \in Seq([event : {"accept", "data", "disconnect"}, client : Clients])
    /\ greeting \in Clients \cup {NIL}
    /\ connected \subseteq Clients /\ listening \subseteq Clients
    /\ stream \in {"due", "shooting"}
    /\ taken \in 0..MaxFrames /\ nextImage \in 0..MaxFrames
    /\ scalings \in 0..MaxFrames /\ scaled \in 0..MaxFrames
    /\ written \in [Clients -> Seq(0..MaxFrames)]

\* What a client is sent starts with the header, and no frame reaches it twice or
\* after a newer one, however sending interleaves with the arrival of clients and
\* however many frames are replaced (FBMjpegServer.m:98-141, FBImageProcessor.m:49-79).
StreamInOrder ==
    \A c \in Clients :
        /\ written[c] # <<>> => written[c][1] = 0
        /\ \A i, j \in DOMAIN written[c] : i < j => written[c][i] < written[c][j]

Due(event, c) ==
    \E i \in DOMAIN callbacks : callbacks[i] = [event |-> event, client |-> c]

\* A socket in a list of the server that is closed has its disconnection coming,
\* and a listening client is a connected one: no list keeps a dead client
\* (FBTCPSocket.m:64-83, FBMjpegServer.m:120-149).
ListsFollowSockets ==
    /\ listening \subseteq connected
    /\ greeting # NIL => greeting \in connected
    /\ \A c \in connected : wire[c] = "open" \/ Due("disconnect", c)

\* A frame that waits has a block coming for it: replacing one never loses the
\* newest (FBImageProcessor.m:49-65).
NewestFrameIsTaken == nextImage # 0 => scalings > 0

\* A frame that waits while a client listens reaches that client, or a newer one
\* does, unless the client leaves.
FramesArrive ==
    \A c \in Clients, n \in Frames :
        (c \in listening /\ nextImage = n)
            ~> (c \notin listening \/ \E i \in DOMAIN written[c] : written[c][i] >= n)

\* A client that asks for the stream on a connection that stays open gets the header.
RequestsAnswered ==
    \A c \in Clients :
        (c \in asking) ~> (wire[c] = "closed" \/ written[c] # <<>>)
=============================================================================
