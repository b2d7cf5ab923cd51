---------------------------- MODULE MjpegServer ----------------------------
(***************************************************************************)
(* The screenshot broadcaster: Routing/FBTCPSocket.m, its delegate          *)
(* Utilities/FBMjpegServer.m and Utilities/FBImageProcessor.m.  Four        *)
(* threads of control meet in it:                                           *)
(*   - the socket queue, serial, which runs the callbacks of the sockets;   *)
(*   - the background queue, serial, which takes the screenshots;           *)
(*   - the scaling queue, serial, which scales and sends them;              *)
(*   - the main queue, which stops the broadcaster.                         *)
(* The network and GCDAsyncSocket are what lies under wire and callbacks:   *)
(* a socket reports that it was accepted, that data came, that it closed,   *)
(* in that order, each report being a block on the socket queue.            *)
(***************************************************************************)
EXTENDS Naturals, Sequences, FiniteSets

CONSTANTS
    Clients,     \* connections, each made at most once
    MaxFrames,   \* bound on the screenshots taken
    NIL

ASSUME MaxFramesAssumption == MaxFrames \in Nat
ASSUME NilAssumption == NIL \notin Clients

VARIABLES
    accepting,   \* listeningSocket accepts connections
    wire,        \* each connection: "new", "open" or "closed"
    reading,     \* clients whose next data will be reported
    asking,      \* clients whose request is on its way
    callbacks,   \* blocks on the socket queue
    greeting,    \* the client didClientSendData is writing the header to
    connected,   \* connectedClients
    listening,   \* listeningClients
    stream,      \* the block of the background queue: "due" or "shooting"
    taken,       \* screenshots taken so far; the frames are 1..taken
    nextImage,   \* the frame to be scaled next
    scalings,    \* blocks on the scaling queue
    scaled,      \* the frame the running block of that queue has taken
    written      \* what was written to each client: 0, the header, and frames

sockets == <<accepting, wire, reading, asking, callbacks>>
lists == <<greeting, connected, listening>>
images == <<stream, taken, nextImage, scalings, scaled>>
vars == <<sockets, lists, images, written>>

Frames == 1..MaxFrames

(***************************************************************************)
(* The network and the sockets.                                             *)
(***************************************************************************)
Report(event, c) == Append(callbacks, [event |-> event, client |-> c])

Connect(c) ==
    /\ accepting /\ wire[c] = "new"
    /\ wire' = [wire EXCEPT ![c] = "open"]
    /\ callbacks' = Report("accept", c)
    /\ UNCHANGED <<accepting, reading, asking, lists, images, written>>

Ask(c) ==
    /\ wire[c] = "open" /\ c \notin asking
    /\ asking' = asking \cup {c}
    /\ UNCHANGED <<accepting, wire, reading, callbacks, lists, images, written>>

\* Only a read that was asked for reports data; the server asks for one.
DataArrives(c) ==
    /\ wire[c] = "open" /\ c \in asking \cap reading
    /\ reading' = reading \ {c}
    /\ callbacks' = Report("data", c)
    /\ UNCHANGED <<accepting, wire, asking, lists, images, written>>

HangUp(c) ==
    /\ wire[c] = "open"
    /\ wire' = [wire EXCEPT ![c] = "closed"]
    /\ callbacks' = Report("disconnect", c)
    /\ UNCHANGED <<accepting, reading, asking, lists, images, written>>

\* writeData to a set of clients: what a closed socket is given is lost.
Write(item, to) ==
    written' = [c \in Clients |-> IF c \in to /\ wire[c] = "open"
                                  THEN Append(written[c], item) ELSE written[c]]

(***************************************************************************)
(* The socket queue: FBTCPSocket's callbacks and its delegate's.            *)
(***************************************************************************)
Callback(event, c) ==
    /\ greeting = NIL
    /\ callbacks # <<>>
    /\ Head(callbacks) = [event |-> event, client |-> c]
    /\ callbacks' = Tail(callbacks)

\* Faulty variant: no data is asked for.
DidAcceptSilently(c) ==
    /\ Callback("accept", c)
    /\ connected' = connected \cup {c}
    /\ UNCHANGED <<accepting, wire, reading, asking, greeting, listening, images, written>>

DidAcceptNewSocket(c) ==
    /\ Callback("accept", c)
    /\ connected' = connected \cup {c}
    /\ reading' = reading \cup {c}
    /\ UNCHANGED <<accepting, wire, asking, greeting, listening, images, written>>

\* The header is written first, and the client is added under the lock after it.
DidClientSendData(c) ==
    /\ Callback("data", c)
    /\ IF c \in listening
       THEN UNCHANGED <<greeting, written>>
       ELSE greeting' = c /\ Write(0, {c})
    /\ UNCHANGED <<accepting, wire, reading, asking, connected, listening, images>>

AddListeningClient ==
    /\ greeting # NIL
    /\ listening' = listening \cup {greeting}
    /\ greeting' = NIL
    /\ UNCHANGED <<sockets, connected, images, written>>

\* Faulty variant: the delegate is not told.
SocketDidDisconnectQuietly(c) ==
    /\ Callback("disconnect", c)
    /\ connected' = connected \ {c}
    /\ UNCHANGED <<accepting, wire, reading, asking, greeting, listening, images, written>>

SocketDidDisconnect(c) ==
    /\ Callback("disconnect", c)
    /\ connected' = connected \ {c}
    /\ listening' = listening \ {c}
    /\ UNCHANGED <<accepting, wire, reading, asking, greeting, images, written>>

(***************************************************************************)
(* The main queue.  Closing a socket reports it, as hanging up does; a      *)
(* connection whose acceptance is not reported yet is not in the list.      *)
(***************************************************************************)
Orders(S) == {o \in [1..Cardinality(S) -> S] : \A c \in S : \E i \in DOMAIN o : o[i] = c}

Stop ==
    /\ accepting
    /\ accepting' = FALSE
    /\ LET open == {c \in connected : wire[c] = "open"} IN
        /\ wire' = [c \in Clients |-> IF c \in open THEN "closed" ELSE wire[c]]
        /\ \E o \in Orders(open) :
              callbacks' = callbacks \o
                  [i \in DOMAIN o |-> [event |-> "disconnect", client |-> o[i]]]
    /\ UNCHANGED <<reading, asking, lists, images, written>>

(***************************************************************************)
(* The background queue.  Without listening clients streamScreenshot only   *)
(* schedules itself again.                                                  *)
(***************************************************************************)
StreamScreenshot ==
    /\ stream = "due" /\ listening # {} /\ taken < MaxFrames
    /\ stream' = "shooting"
    /\ UNCHANGED <<sockets, lists, taken, nextImage, scalings, scaled, written>>

ScreenshotFails ==
    /\ stream = "shooting"
    /\ stream' = "due"
    /\ UNCHANGED <<sockets, lists, taken, nextImage, scalings, scaled, written>>

\* Faulty variant: no block comes for a frame submitted while another is scaled.
SubmitScreenshotWhenIdle ==
    /\ stream = "shooting"
    /\ stream' = "due"
    /\ taken' = taken + 1
    /\ nextImage' = taken + 1
    /\ scalings' = IF scaled = 0 THEN scalings + 1 ELSE scalings
    /\ UNCHANGED <<sockets, lists, scaled, written>>

\* submitImageData: a frame that waits is replaced, and one more block comes.
SubmitScreenshot ==
    /\ stream = "shooting"
    /\ stream' = "due"
    /\ taken' = taken + 1
    /\ nextImage' = taken + 1
    /\ scalings' = scalings + 1
    /\ UNCHANGED <<sockets, lists, scaled, written>>

(***************************************************************************)
(* The scaling queue.                                                       *)
(***************************************************************************)
\* Faulty variant: the frame stays where the next block finds it again.
TakeNextImageAgain ==
    /\ scaled = 0 /\ scalings > 0
    /\ scalings' = scalings - 1
    /\ scaled' = nextImage
    /\ UNCHANGED <<sockets, lists, stream, taken, nextImage, written>>

TakeNextImage ==
    /\ scaled = 0 /\ scalings > 0
    /\ scalings' = scalings - 1
    /\ scaled' = nextImage
    /\ nextImage' = 0
    /\ UNCHANGED <<sockets, lists, stream, taken, written>>

SendScreenshot ==
    /\ scaled # 0
    /\ Write(scaled, listening)
    /\ scaled' = 0
    /\ UNCHANGED <<sockets, lists, stream, taken, nextImage, scalings>>

Init ==
    /\ accepting = TRUE
    /\ wire = [c \in Clients |-> "new"]
    /\ reading = {} /\ asking = {}
    /\ callbacks = <<>>
    /\ greeting = NIL
    /\ connected = {} /\ listening = {}
    /\ stream = "due"
    /\ taken = 0 /\ nextImage = 0 /\ scalings = 0 /\ scaled = 0
    /\ written = [c \in Clients |-> <<>>]

Network(c) == Connect(c) \/ Ask(c) \/ DataArrives(c) \/ HangUp(c)

SocketQueue ==
    \/ \E c \in Clients :
          DidAcceptNewSocket(c) \/ DidClientSendData(c) \/ SocketDidDisconnect(c)
    \/ AddListeningClient

ScalingQueue == TakeNextImage \/ SendScreenshot

Next ==
    \/ \E c \in Clients : Network(c)
    \/ SocketQueue
    \/ Stop
    \/ StreamScreenshot \/ ScreenshotFails \/ SubmitScreenshot
    \/ ScalingQueue

\* Serial queues run their blocks, and data on an open connection arrives.
Fairness ==
    /\ WF_vars(SocketQueue)
    /\ WF_vars(ScalingQueue)
    /\ \A c \in Clients : WF_vars(DataArrives(c))

Spec == Init /\ [][Next]_vars /\ Fairness
=============================================================================
