------------------------------ MODULE WebServer ------------------------------
(***************************************************************************)
(* Routing/FBWebServer.m with what its routes wait for: the calls to the    *)
(* XCTest daemon (FBXCTestDaemonsProxy.m, FBScreenshot.m,                   *)
(* FBRunLoopSpinner.m) and the timeouts swapped around them                 *)
(* (FBSessionCommands.m, XCUIApplicationProcess+FBQuiescence.m).            *)
(*                                                                          *)
(* All connections share one serial queue.  A block of it that has read a   *)
(* request runs its route on the main queue and waits (dispatch_sync), so   *)
(* the main thread has one request at a time and the next ones wait behind  *)
(* the block.  The daemon replies on a thread of its own, at any time, also *)
(* when nobody waits any more.                                              *)
(***************************************************************************)
EXTENDS Naturals, Sequences, FiniteSets

CONSTANTS
    Clients,         \* connections
    Boxes,           \* the variables and the semaphore one call waits with
    PortRange,       \* how many ports are tried
    DefaultTimeout,  \* the state timeout of XCTest when it starts
    IdleTimeout,     \* FBConfiguration.waitForIdleTimeout
    LaunchTimeouts,  \* values of the appLaunchStateTimeoutSec capability
    MaxRequests,     \* bound on the requests
    NIL

ASSUME PortRangeAssumption == PortRange \in Nat
ASSUME FiniteClients == IsFiniteSet(Clients)

VARIABLES
    phase, keepAlive,
    busy, port, listening,      \* ports in use, the port tried, isRunning
    sock,                       \* the socket of each client
    asked,                      \* clients that wait for a response
    connectionQueue,            \* blocks of the serial queue
    sent,                       \* number of requests so far
    main,                       \* the route on the main queue
    outer, inner,               \* timeouts saved by a launch and a wait for idle
    stateTimeout,               \* _XCTApplicationStateTimeout()
    session,                    \* the request that has created the session
    pending, boxes,             \* calls in flight, the reply in each box
    confirmed                   \* history: requests the daemon has granted

serverVars == <<phase, keepAlive, busy, port, listening>>
clientVars == <<sock, asked, connectionQueue, sent>>
timeoutVars == <<outer, inner, stateTimeout>>
daemonVars == <<pending, boxes, confirmed>>
vars == <<serverVars, clientVars, main, timeoutVars, session, daemonVars>>

\* Creating a session launches an application or opens a URL.
Routes ==
    [op : {"status", "screenshot", "tap", "launch", "open", "shutdown"},
     timeout : LaunchTimeouts \cup {NIL}]
Creates(r) == r.op \in {"launch", "open"}

Blocks == [do : {"read"}, of : Clients, route : Routes, serial : Nat]
          \cup [do : {"stop"}, of : Clients]

Steps == {"none", "queued", "swap", "call", "await", "check", "collect",
          "quiesce", "idle", "unswap", "done"}

NoRoute == [at |-> "none", of |-> NIL, route |-> NIL, serial |-> 0, box |-> NIL,
            ok |-> FALSE, error |-> FALSE]

Mains ==
    [at : Steps, of : Clients \cup {NIL}, route : Routes \cup {NIL},
     serial : Nat, box : Boxes \cup {NIL}, ok : BOOLEAN, error : BOOLEAN]

Timeouts == LaunchTimeouts \cup {DefaultTimeout, IdleTimeout}

TypeOK ==
    /\ phase \in {"start", "serve", "ended", "aborted"}
    /\ keepAlive \in BOOLEAN /\ listening \in BOOLEAN
    /\ busy \subseteq 0..PortRange /\ port \in 0..PortRange
    /\ sock \in [Clients -> {"none", "accepted", "open", "closed"}]
    /\ asked \subseteq Clients
    /\ connectionQueue \in Seq(Blocks)
    /\ sent \in Nat
    /\ main \in Mains
    /\ outer \in Timeouts \cup {NIL} /\ inner \in Timeouts \cup {NIL}
    /\ stateTimeout \in Timeouts
    /\ session \in Nat
    /\ pending \subseteq [box : Boxes, serial : Nat]
    /\ boxes \in [Boxes -> {"none", "ok", "error"}]
    /\ confirmed \subseteq Nat

Init ==
    /\ phase = "start" /\ keepAlive = FALSE
    /\ busy \in SUBSET (0..(PortRange - 1)) /\ port = 0 /\ listening = FALSE
    /\ sock = [c \in Clients |-> "none"]
    /\ asked = {} /\ connectionQueue = <<>> /\ sent = 0
    /\ main = NoRoute
    /\ outer = NIL /\ inner = NIL /\ stateTimeout = DefaultTimeout
    /\ session = 0    \* no session
    /\ pending = {} /\ boxes = [b \in Boxes |-> "none"] /\ confirmed = {}

-----------------------------------------------------------------------------
(* startServing.                                                             *)

\* One round of the loop over the ports.
AttemptToStartServer ==
    /\ phase = "start" /\ ~listening /\ port < PortRange
    /\ IF port \in busy
       THEN port' = port + 1 /\ UNCHANGED listening
       ELSE listening' = TRUE /\ UNCHANGED port
    /\ UNCHANGED <<phase, keepAlive, busy, clientVars, main, timeoutVars,
                   session, daemonVars>>

Abort ==
    /\ phase = "start" /\ port = PortRange
    /\ phase' = "aborted"
    /\ UNCHANGED <<keepAlive, busy, port, listening, clientVars, main,
                   timeoutVars, session, daemonVars>>

\* The server may have connections and requests before the loop is entered.
EnterLoop ==
    /\ phase = "start" /\ listening
    /\ phase' = "serve" /\ keepAlive' = TRUE
    /\ UNCHANGED <<busy, port, listening, clientVars, main, timeoutVars,
                   session, daemonVars>>

LeaveLoop ==
    /\ phase = "serve" /\ ~keepAlive
    /\ phase' = "ended"
    /\ UNCHANGED <<keepAlive, busy, port, listening, clientVars, main,
                   timeoutVars, session, daemonVars>>

-----------------------------------------------------------------------------
(* Connections.                                                              *)

Connect(c) ==
    /\ listening /\ sock[c] = "none"
    /\ sock' = [sock EXCEPT ![c] = "accepted"]
    /\ UNCHANGED <<serverVars, asked, connectionQueue, sent, main, timeoutVars,
                   session, daemonVars>>

\* Runs on serverQueue, perhaps after the server has been stopped.
DidAcceptNewSocket(c) ==
    /\ sock[c] = "accepted"
    /\ sock' = [sock EXCEPT ![c] = "open"]
    /\ UNCHANGED <<serverVars, asked, connectionQueue, sent, main, timeoutVars,
                   session, daemonVars>>

SendRequest(c) ==
    /\ sock[c] = "open" /\ c \notin asked /\ sent < MaxRequests
    /\ sent' = sent + 1
    /\ asked' = asked \cup {c}
    /\ \E r \in Routes :
          /\ r.timeout = NIL \/ Creates(r)
          /\ connectionQueue' =
                Append(connectionQueue,
                       [do |-> "read", of |-> c, route |-> r, serial |-> sent + 1])
    /\ UNCHANGED <<serverVars, sock, main, timeoutVars, session, daemonVars>>

HangUp(c) ==
    /\ sock[c] = "open"
    /\ sock' = [sock EXCEPT ![c] = "closed"]
    /\ asked' = asked \ {c}
    /\ UNCHANGED <<serverVars, connectionQueue, sent, main, timeoutVars,
                   session, daemonVars>>

\* The next block of the queue hands its request to the main queue and waits.
HandleRequest ==
    /\ connectionQueue # <<>> /\ main.at = "none"
    /\ LET b == Head(connectionQueue) IN
       /\ b.do = "read"
       /\ main' = [NoRoute EXCEPT !.at = "queued", !.of = b.of,
                                  !.route = b.route, !.serial = b.serial]
    /\ UNCHANGED <<serverVars, clientVars, timeoutVars, session, daemonVars>>

\* The route is done: the block writes the response and ends.
WriteResponse ==
    /\ main.at = "done"
    /\ main' = NoRoute
    /\ asked' = asked \ {main.of}
    /\ connectionQueue' = Tail(connectionQueue)
    /\ UNCHANGED <<serverVars, sock, sent, timeoutVars, session, daemonVars>>

\* The block of HTTPConnection's stop.
Disconnect ==
    /\ connectionQueue # <<>> /\ main.at = "none"
    /\ LET b == Head(connectionQueue) IN
       /\ b.do = "stop"
       /\ sock' = [sock EXCEPT ![b.of] = "closed"]
       /\ asked' = asked \ {b.of}
    /\ connectionQueue' = Tail(connectionQueue)
    /\ UNCHANGED <<serverVars, sent, main, timeoutVars, session, daemonVars>>

-----------------------------------------------------------------------------
(* The routes, on the main queue.                                            *)

GoTo(step) == main' = [main EXCEPT !.at = step]

\* Faulty variant: the main queue is still served when the loop has ended.
BeginRouteAnyway ==
    /\ main.at = "queued"
    /\ main.route.op # "shutdown"
    /\ GoTo(CASE main.route.op = "status" -> "done"
              [] main.route.op = "screenshot" -> "call"
              [] main.route.op = "tap" -> "quiesce"
              [] OTHER -> "swap")
    /\ session' = IF Creates(main.route) THEN 0 ELSE session
    /\ UNCHANGED <<serverVars, clientVars, timeoutVars, daemonVars>>

\* The run loop takes the block of a route.  A session that is created ends
\* the one before it.
BeginRoute ==
    /\ phase = "serve" /\ keepAlive /\ main.at = "queued"
    /\ main.route.op # "shutdown"
    /\ GoTo(CASE main.route.op = "status" -> "done"
              [] main.route.op = "screenshot" -> "call"
              [] main.route.op = "tap" -> "quiesce"
              [] OTHER -> "swap")
    /\ session' = IF Creates(main.route) THEN 0 ELSE session
    /\ UNCHANGED <<serverVars, clientVars, timeoutVars, daemonVars>>

\* /wda/shutdown: stopServing.  The sockets are closed by blocks behind those
\* of the requests that wait already.
StopServing ==
    /\ phase = "serve" /\ keepAlive /\ main.at = "queued"
    /\ main.route.op = "shutdown"
    /\ keepAlive' = FALSE /\ listening' = FALSE /\ session' = 0
    /\ GoTo("done")
    /\ LET open == [do : {"stop"}, of : {c \in Clients : sock[c] = "open"}] IN
       \E stops \in [1..Cardinality(open) -> open] :
          /\ \A i, j \in DOMAIN stops : stops[i] = stops[j] => i = j
          /\ connectionQueue' = connectionQueue \o stops
    /\ UNCHANGED <<phase, busy, port, sock, asked, sent, timeoutVars, daemonVars>>

\* handleCreateSession and openDeepLink save the state timeout and set the one
\* of the capability, if there is one.
SwapTimeout ==
    /\ main.at = "swap"
    /\ outer' = stateTimeout
    /\ stateTimeout' = IF main.route.timeout = NIL THEN stateTimeout
                       ELSE main.route.timeout
    /\ GoTo("call")
    /\ UNCHANGED <<serverVars, clientVars, inner, session, daemonVars>>

\* Faulty variant: the timeout is put back behind the call instead.
RestoreTimeoutAfterSuccess ==
    /\ main.at = "unswap"
    /\ stateTimeout' = IF main.route.timeout # NIL /\ main.ok THEN outer
                       ELSE stateTimeout
    /\ outer' = NIL
    /\ session' \in IF main.ok THEN {main.serial, session} ELSE {session}
    /\ GoTo("done")
    /\ UNCHANGED <<serverVars, clientVars, inner, daemonVars>>

\* Their @finally.  There is a session then, unless the application is not
\* running by now.
RestoreTimeout ==
    /\ main.at = "unswap"
    /\ stateTimeout' = IF main.route.timeout = NIL THEN stateTimeout ELSE outer
    /\ outer' = NIL
    /\ session' \in IF main.ok THEN {main.serial, session} ELSE {session}
    /\ GoTo("done")
    /\ UNCHANGED <<serverVars, clientVars, inner, daemonVars>>

Send(b) ==
    /\ pending' = pending \cup {[box |-> b, serial |-> main.serial]}
    /\ boxes' = [boxes EXCEPT ![b] = "none"]
    /\ main' = [main EXCEPT !.at = "await", !.box = b]

\* Faulty variant: one semaphore for all the calls.
CallDaemonWithSharedBox ==
    /\ main.at = "call"
    /\ Send(CHOOSE b \in Boxes : TRUE)
    /\ UNCHANGED <<serverVars, clientVars, timeoutVars, session, confirmed>>

\* Every call has variables and a semaphore of its own: no call in flight
\* writes to them.
CallDaemon ==
    /\ main.at = "call"
    /\ \E b \in Boxes : (\A p \in pending : p.box # b) /\ Send(b)
    /\ UNCHANGED <<serverVars, clientVars, timeoutVars, session, confirmed>>

\* No call is made for a URL or a picture that cannot even be asked for.
RefuseCall ==
    /\ main.at = "call" /\ main.route.op \in {"open", "screenshot"}
    /\ main' = [main EXCEPT !.at = IF main.route.op = "open" THEN "unswap"
                                   ELSE "done",
                            !.error = TRUE]
    /\ UNCHANGED <<serverVars, clientVars, timeoutVars, session, daemonVars>>

\* The daemon replies, maybe long after the wait for it was given up.
Reply(p, outcome) ==
    /\ pending' = pending \ {p}
    /\ boxes' = [boxes EXCEPT ![p.box] = outcome]
    /\ confirmed' = IF outcome = "ok" THEN confirmed \cup {p.serial}
                    ELSE confirmed
    /\ UNCHANGED <<serverVars, clientVars, main, timeoutVars, session>>

\* Where a route goes on that has heard from the daemon: a launch waits for
\* the application to be idle, what it throws otherwise runs its @finally.
Heard(ok) ==
    main' = [main EXCEPT
               !.ok = ok,
               !.at = CASE main.route.op = "screenshot" -> "collect"
                        [] main.route.op = "launch" /\ ok -> "quiesce"
                        [] OTHER -> "unswap"]

Await ==
    /\ main.at = "await" /\ boxes[main.box] # "none"
    /\ Heard(boxes[main.box] = "ok")
    /\ UNCHANGED <<serverVars, clientVars, timeoutVars, session, daemonVars>>

\* Faulty variant: only the screenshot gives up.
TimeOutScreenshot ==
    /\ main.at = "await" /\ boxes[main.box] = "none"
    /\ main.route.op = "screenshot"
    /\ GoTo("check")
    /\ UNCHANGED <<serverVars, clientVars, timeoutVars, session, daemonVars>>

\* The semaphores of launches and screenshots have a timeout, 300 and 20
\* seconds; spinUntilCompletion, with which a URL is opened, has none.
TimeOut ==
    /\ main.at = "await" /\ boxes[main.box] = "none"
    /\ main.route.op # "open"
    /\ IF main.route.op = "screenshot" THEN GoTo("check") ELSE Heard(FALSE)
    /\ UNCHANGED <<serverVars, clientVars, timeoutVars, session, daemonVars>>

\* Faulty variant: the timeout makes no error of its own.
SkipInnerError ==
    /\ main.at = "check"
    /\ main' = [main EXCEPT !.at = "collect"]
    /\ UNCHANGED <<serverVars, clientVars, timeoutVars, session, daemonVars>>

\* After the timeout an error is made unless the daemon's has come by now.
CheckInnerError ==
    /\ main.at = "check"
    /\ main' = [main EXCEPT !.at = "collect",
                            !.error = boxes[main.box] # "error"]
    /\ UNCHANGED <<serverVars, clientVars, timeoutVars, session, daemonVars>>

\* What is in the variables now: the data, if any, and the error.
CollectScreenshot ==
    /\ main.at = "collect"
    /\ main' = [main EXCEPT !.at = "done",
                            !.ok = boxes[main.box] = "ok",
                            !.error = @ \/ boxes[main.box] = "error"]
    /\ UNCHANGED <<serverVars, clientVars, timeoutVars, session, daemonVars>>

AfterIdle == IF main.route.op = "launch" THEN "unswap" ELSE "done"

\* swizzledWaitForQuiescence...: skipped by settings, or with a timeout of
\* its own, saved and restored.
SkipIdle ==
    /\ main.at = "quiesce"
    /\ GoTo(AfterIdle)
    /\ UNCHANGED <<serverVars, clientVars, timeoutVars, session, daemonVars>>

StartIdle ==
    /\ main.at = "quiesce"
    /\ inner' = stateTimeout
    /\ stateTimeout' = IdleTimeout
    /\ GoTo("idle")
    /\ UNCHANGED <<serverVars, clientVars, outer, session, daemonVars>>

\* The application is idle, or the wait throws.
EndIdle ==
    /\ main.at = "idle"
    /\ stateTimeout' = inner /\ inner' = NIL
    /\ \E ok \in {main.ok, FALSE} :
          main' = [main EXCEPT !.at = AfterIdle, !.ok = ok]
    /\ UNCHANGED <<serverVars, clientVars, outer, session, daemonVars>>

-----------------------------------------------------------------------------

Daemon == \E p \in pending : \E outcome \in {"ok", "error"} : Reply(p, outcome)

ClientSteps == \E c \in Clients : Connect(c) \/ SendRequest(c) \/ HangUp(c)

ConnectionSteps ==
    \/ \E c \in Clients : DidAcceptNewSocket(c)
    \/ HandleRequest
    \/ WriteResponse
    \/ Disconnect

MainSteps ==
    \/ AttemptToStartServer
    \/ Abort
    \/ EnterLoop
    \/ LeaveLoop
    \/ BeginRoute
    \/ StopServing
    \/ SwapTimeout
    \/ CallDaemon
    \/ RefuseCall
    \/ Await
    \/ TimeOut
    \/ CheckInnerError
    \/ CollectScreenshot
    \/ SkipIdle
    \/ StartIdle
    \/ EndIdle
    \/ RestoreTimeout

Next == MainSteps \/ ConnectionSteps \/ ClientSteps \/ Daemon

Spec == Init /\ [][Next]_vars

\* A call awaited without a timeout.
AwaitedForever ==
    {p \in pending : main.at = "await" /\ main.route.op = "open"
                     /\ p.box = main.box /\ p.serial = main.serial}

\* Threads run, semaphores time out, waits for idle end; the daemon owes a
\* reply only to the calls that are awaited without a timeout.
FairSpec ==
    /\ Spec
    /\ WF_vars(MainSteps)
    /\ WF_vars(ConnectionSteps)
    /\ WF_vars(\E p \in AwaitedForever, o \in {"ok", "error"} : Reply(p, o))
=============================================================================
