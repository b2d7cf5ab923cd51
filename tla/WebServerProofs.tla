--------------------------- MODULE WebServerProofs ---------------------------
(***************************************************************************)
(* The safety properties of the web server, for any number of clients,      *)
(* calls, ports and requests and any values of the timeouts.                *)
(***************************************************************************)
EXTENDS WebServerProperties, FiniteSetTheorems, TLAPS

\* Where a route may be, by what it was asked for.
MainInv ==
    /\ main.at # "none" => main.of \in Clients /\ main.route \in Routes
    /\ main.at \in {"swap", "unswap"} => Creates(main.route)
    /\ main.at \in {"call", "await"} =>
          main.route.op \in {"screenshot", "launch", "open"}
    /\ main.at \in {"check", "collect"} => main.route.op = "screenshot"
    /\ main.at \in {"quiesce", "idle"} => main.route.op \in {"tap", "launch"}
    /\ main.at \in {"await", "check", "collect"} => main.box \in Boxes

\* Between the swap and the @finally of a launch.
InLaunch ==
    /\ main.at \in {"call", "await", "quiesce", "idle", "unswap"}
    /\ Creates(main.route)

\* The timeout outside of a wait for idle.
Held == IF InLaunch /\ main.route.timeout # NIL THEN main.route.timeout
        ELSE DefaultTimeout

\* The timeouts nest.
TimeoutInv ==
    /\ stateTimeout = IF main.at = "idle" THEN IdleTimeout ELSE Held
    /\ InLaunch => outer = DefaultTimeout
    /\ main.at = "idle" => inner = Held

\* The box of the route takes no reply but its own.
BoxInv ==
    main.at \in {"await", "check", "collect"} =>
        /\ \A p \in pending : p.box = main.box => p.serial = main.serial
        /\ boxes[main.box] = "ok" => main.serial \in confirmed

\* What is granted was confirmed.
GrantInv ==
    /\ main.at \in {"quiesce", "idle", "unswap"} /\ Creates(main.route) /\ main.ok =>
          main.serial \in confirmed
    /\ GrantsAreOwn

\* A screenshot is collected with an error made or a reply in the box.
ScreenInv ==
    /\ main.at = "collect" => main.error \/ boxes[main.box] # "none"
    /\ ScreenshotOrError

\* Nothing runs and nothing is left while the loop does not run.
StopInv ==
    /\ ~keepAlive => session = 0 /\ main.at \in {"none", "queued", "done"}
    /\ ~keepAlive /\ phase \in {"serve", "ended"} => ~listening
    /\ phase = "ended" => ~keepAlive

\* The block that waits for the route is still the first of the queue.
QueueInv == main.at # "none" => connectionQueue # <<>>

\* Nothing is granted before the daemon was heard.
OkInv == main.at \in {"queued", "swap", "call", "await"} => main.ok = FALSE

\* The inductive invariant.
Inv == TypeOK /\ OkInv /\ QueueInv /\ MainInv /\ TimeoutInv /\ BoxInv /\ GrantInv /\ ScreenInv /\ StopInv

-----------------------------------------------------------------------------
(* Lemmas about the pieces the steps are made of.                            *)

\* A step that moves the route on and changes nothing else of it.
LEMMA Move ==
    ASSUME main \in Mains, NEW step \in Steps, GoTo(step)
    PROVE  /\ main' \in Mains
           /\ main'.at = step
           /\ main'.of = main.of
           /\ main'.route = main.route
           /\ main'.serial = main.serial
           /\ main'.box = main.box
           /\ main'.ok = main.ok
           /\ main'.error = main.error
BY DEF GoTo, Mains

\* The types of the timeouts.
LEMMA TimeoutType ==
    ASSUME NEW r \in Routes, r.timeout # NIL
    PROVE  r.timeout \in Timeouts
BY DEF Routes, Timeouts

LEMMA NoRouteType == NoRoute \in Mains
BY DEF NoRoute, Mains, Steps

LEMMA NoRouteFields ==
    NoRoute.at = "none" /\ NoRoute.ok = FALSE /\ NoRoute.error = FALSE
BY DEF NoRoute

LEMMA InitInv == Init => Inv
<1> SUFFICES ASSUME Init PROVE Inv
  OBVIOUS
<1>1. main.at = "none"
  BY NoRouteFields DEF Init
<1>2. TypeOK
  <2>1. main \in Mains
    BY NoRouteType DEF Init
  <2>2. connectionQueue \in Seq(Blocks)
    BY DEF Init
  <2>3. busy \subseteq 0..PortRange /\ port \in 0..PortRange
    BY PortRangeAssumption DEF Init
  <2> QED
    BY <2>1, <2>2, <2>3 DEF Init, TypeOK, Timeouts
<1>3. MainInv
  BY <1>1 DEF MainInv
<1>4. TimeoutInv
  BY <1>1 DEF Init, TimeoutInv, Held, InLaunch
<1>5. QueueInv /\ OkInv /\ BoxInv /\ GrantInv /\ ScreenInv /\ StopInv
  BY <1>1 DEF Init, QueueInv, OkInv, BoxInv, GrantInv, GrantsAreOwn, ScreenInv,
              ScreenshotOrError, StopInv
<1> QED
  BY <1>2, <1>3, <1>4, <1>5 DEF Inv

\* What only the route, the timeouts and the daemon decide about.
LEMMA RouteKept ==
    ASSUME MainInv, OkInv, TimeoutInv, BoxInv, GrantInv, ScreenInv,
           UNCHANGED <<main, timeoutVars, session, daemonVars>>
    PROVE  (MainInv /\ OkInv /\ TimeoutInv /\ BoxInv /\ GrantInv /\ ScreenInv)'
BY DEF MainInv, OkInv, TimeoutInv, Held, InLaunch, BoxInv, GrantInv, GrantsAreOwn,
       ScreenInv, ScreenshotOrError, timeoutVars, daemonVars

\* The steps of startServing and of the clients leave the route alone.
LEMMA ServerInv ==
    ASSUME Inv, AttemptToStartServer \/ Abort \/ EnterLoop \/ LeaveLoop
    PROVE  Inv'
<1>1. (MainInv /\ OkInv /\ TimeoutInv /\ BoxInv /\ GrantInv /\ ScreenInv)'
  BY RouteKept DEF Inv, AttemptToStartServer, Abort, EnterLoop, LeaveLoop
<1>2. port' \in 0..PortRange
  BY PortRangeAssumption
     DEF Inv, TypeOK, AttemptToStartServer, Abort, EnterLoop, LeaveLoop
<1>3. TypeOK'
  BY <1>2 DEF Inv, TypeOK, AttemptToStartServer, Abort, EnterLoop, LeaveLoop,
              clientVars, timeoutVars, daemonVars
<1>4. StopInv' /\ QueueInv'
  BY DEF Inv, StopInv, QueueInv, AttemptToStartServer, Abort, EnterLoop, LeaveLoop,
         clientVars
<1> QED
  BY <1>1, <1>3, <1>4 DEF Inv

LEMMA ClientInv ==
    ASSUME Inv, NEW c \in Clients,
           Connect(c) \/ DidAcceptNewSocket(c) \/ SendRequest(c) \/ HangUp(c)
    PROVE  Inv'
<1>1. (MainInv /\ OkInv /\ TimeoutInv /\ BoxInv /\ GrantInv /\ ScreenInv)'
  BY RouteKept DEF Inv, Connect, DidAcceptNewSocket, SendRequest, HangUp
<1>2. connectionQueue' \in Seq(Blocks) /\ sent' \in Nat /\ QueueInv'
  <2>1. CASE SendRequest(c)
    <3>1. PICK r \in Routes :
             connectionQueue' =
                Append(connectionQueue,
                       [do |-> "read", of |-> c, route |-> r, serial |-> sent + 1])
      BY <2>1 DEF SendRequest
    <3>2. sent + 1 \in Nat
      BY DEF Inv, TypeOK
    <3>3. [do |-> "read", of |-> c, route |-> r, serial |-> sent + 1] \in Blocks
      BY <3>2 DEF Blocks
    <3>4. connectionQueue' \in Seq(Blocks) /\ connectionQueue' # <<>>
      BY <3>1, <3>3 DEF Inv, TypeOK
    <3> QED
      BY <2>1, <3>2, <3>4 DEF SendRequest, QueueInv
  <2>2. CASE ~SendRequest(c)
    BY <2>2 DEF Inv, TypeOK, QueueInv, Connect, DidAcceptNewSocket, HangUp
  <2> QED
    BY <2>1, <2>2
<1>3. TypeOK'
  BY <1>2 DEF Inv, TypeOK, Connect, DidAcceptNewSocket, SendRequest, HangUp,
              serverVars, timeoutVars, daemonVars
<1>4. StopInv'
  BY DEF Inv, StopInv, Connect, DidAcceptNewSocket, SendRequest, HangUp, serverVars
<1> QED
  BY <1>1, <1>2, <1>3, <1>4 DEF Inv

LEMMA HandleRequestInv == Inv /\ HandleRequest => Inv'
<1> SUFFICES ASSUME Inv, HandleRequest PROVE Inv'
  OBVIOUS
<1> DEFINE b == Head(connectionQueue)
<1>1. b \in Blocks /\ b.do = "read"
  BY DEF Inv, TypeOK, HandleRequest
<1>2. b.of \in Clients /\ b.route \in Routes /\ b.serial \in Nat
  BY <1>1 DEF Blocks
<1>3. main' = [at |-> "queued", of |-> b.of, route |-> b.route,
               serial |-> b.serial, box |-> NIL, ok |-> FALSE, error |-> FALSE]
  BY DEF HandleRequest, NoRoute
<1> HIDE DEF b
<1>4. /\ main' \in Mains
      /\ main'.at = "queued" /\ main'.ok = FALSE
      /\ main'.of \in Clients /\ main'.route \in Routes
  BY <1>2, <1>3 DEF Mains, Steps
<1>5. TypeOK'
  BY <1>4 DEF Inv, TypeOK, HandleRequest, serverVars, clientVars, timeoutVars,
              daemonVars
<1>6. MainInv' /\ OkInv' /\ BoxInv' /\ ScreenInv'
  BY <1>4 DEF MainInv, OkInv, BoxInv, ScreenInv, ScreenshotOrError
<1>7. TimeoutInv'
  BY <1>4 DEF Inv, TimeoutInv, Held, InLaunch, HandleRequest, timeoutVars
<1>8. GrantInv'
  BY <1>4 DEF Inv, GrantInv, GrantsAreOwn, HandleRequest, daemonVars
<1>9. StopInv' /\ QueueInv'
  BY <1>4 DEF Inv, StopInv, QueueInv, HandleRequest, serverVars, clientVars
<1> QED
  BY <1>5, <1>6, <1>7, <1>8, <1>9 DEF Inv

LEMMA WriteResponseInv == Inv /\ WriteResponse => Inv'
<1> SUFFICES ASSUME Inv, WriteResponse PROVE Inv'
  OBVIOUS
<1>1. main' \in Mains /\ main'.at = "none"
  BY NoRouteType, NoRouteFields DEF WriteResponse
<1>2. Tail(connectionQueue) \in Seq(Blocks)
  BY DEF Inv, TypeOK, QueueInv, WriteResponse
<1>3. TypeOK'
  BY <1>1, <1>2 DEF Inv, TypeOK, WriteResponse, serverVars, timeoutVars, daemonVars
<1>4. MainInv' /\ OkInv' /\ BoxInv' /\ ScreenInv'
  BY <1>1 DEF MainInv, OkInv, BoxInv, ScreenInv, ScreenshotOrError
<1>5. TimeoutInv'
  BY <1>1 DEF Inv, TimeoutInv, Held, InLaunch, WriteResponse, timeoutVars
<1>6. GrantInv'
  BY <1>1 DEF Inv, GrantInv, GrantsAreOwn, WriteResponse, daemonVars
<1>7. StopInv' /\ QueueInv'
  BY <1>1 DEF Inv, StopInv, QueueInv, WriteResponse, serverVars
<1> QED
  BY <1>3, <1>4, <1>5, <1>6, <1>7 DEF Inv

LEMMA DisconnectInv == Inv /\ Disconnect => Inv'
<1> SUFFICES ASSUME Inv, Disconnect PROVE Inv'
  OBVIOUS
<1>1. (MainInv /\ OkInv /\ TimeoutInv /\ BoxInv /\ GrantInv /\ ScreenInv)'
  BY RouteKept DEF Inv, Disconnect
<1>2. Tail(connectionQueue) \in Seq(Blocks)
  BY DEF Inv, TypeOK, Disconnect
<1>3. sock' \in [Clients -> {"none", "accepted", "open", "closed"}]
  BY DEF Inv, TypeOK, Disconnect
<1>4. TypeOK'
  BY <1>2, <1>3 DEF Inv, TypeOK, Disconnect, serverVars, timeoutVars, daemonVars
<1>5. StopInv' /\ QueueInv'
  BY DEF Inv, StopInv, QueueInv, Disconnect, serverVars
<1> QED
  BY <1>1, <1>4, <1>5 DEF Inv

LEMMA BeginRouteInv == Inv /\ BeginRoute => Inv'
<1> SUFFICES ASSUME Inv, BeginRoute PROVE Inv'
  OBVIOUS
<1> DEFINE step == CASE main.route.op = "status" -> "done"
                     [] main.route.op = "screenshot" -> "call"
                     [] main.route.op = "tap" -> "quiesce"
                     [] OTHER -> "swap"
<1>1. /\ main.at = "queued" /\ keepAlive
      /\ main.of \in Clients /\ main.route \in Routes
      /\ main.route.op # "shutdown"
      /\ main \in Mains
  BY DEF Inv, TypeOK, MainInv, BeginRoute
<1>2. main.route.op \in {"status", "screenshot", "tap", "launch", "open"}
  BY <1>1 DEF Routes
<1>3. step \in {"done", "call", "quiesce", "swap"}
  BY <1>2
<1>4. /\ step = "done" => main.route.op = "status"
      /\ step = "call" => main.route.op = "screenshot"
      /\ step = "quiesce" => main.route.op = "tap"
      /\ step = "swap" => main.route.op \in {"launch", "open"}
  BY <1>2
<1>5. GoTo(step)
  BY DEF BeginRoute
<1> HIDE DEF step
<1>6. /\ main' \in Mains /\ main'.at = step /\ main'.ok = main.ok
      /\ main'.of = main.of /\ main'.route = main.route
  BY <1>1, <1>3, <1>5, Move DEF Steps
<1>7. session' \in {0, session}
  BY DEF BeginRoute
<1>8. TypeOK'
  BY <1>6, <1>7 DEF Inv, TypeOK, BeginRoute, serverVars, clientVars,
                    timeoutVars, daemonVars
<1>9. MainInv' /\ OkInv' /\ BoxInv' /\ ScreenInv'
  BY <1>1, <1>3, <1>4, <1>6
     DEF Inv, MainInv, OkInv, BoxInv, ScreenInv, ScreenshotOrError, Creates
<1>10. TimeoutInv'
  BY <1>1, <1>3, <1>4, <1>6
     DEF Inv, TimeoutInv, Held, InLaunch, BeginRoute, timeoutVars, Creates
<1>11. GrantInv'
  BY <1>3, <1>4, <1>6, <1>7
     DEF Inv, GrantInv, GrantsAreOwn, BeginRoute, daemonVars, Creates
<1>12. StopInv' /\ QueueInv'
  BY <1>1 DEF Inv, StopInv, QueueInv, BeginRoute, serverVars, clientVars
<1> QED
  BY <1>8, <1>9, <1>10, <1>11, <1>12 DEF Inv

LEMMA StopServingInv == Inv /\ StopServing => Inv'
<1> SUFFICES ASSUME Inv, StopServing PROVE Inv'
  OBVIOUS
<1> DEFINE open == [do : {"stop"}, of : {c \in Clients : sock[c] = "open"}]
<1>1. main \in Mains /\ main.of \in Clients /\ main.route \in Routes
      /\ main.route.op = "shutdown" /\ phase = "serve"
  BY DEF Inv, TypeOK, MainInv, StopServing
<1>2. /\ main' \in Mains /\ main'.at = "done"
      /\ main'.of = main.of /\ main'.route = main.route
  BY <1>1, Move DEF StopServing, Steps
<1>3. PICK stops \in [1..Cardinality(open) -> open] :
         connectionQueue' = connectionQueue \o stops
  BY DEF StopServing
<1>4. open \subseteq Blocks
  BY DEF Blocks
<1>5. Cardinality(open) \in Nat
  <2> DEFINE f == [c \in {c \in Clients : sock[c] = "open"} |-> [do |-> "stop", of |-> c]]
             S == {c \in Clients : sock[c] = "open"}
  <2>1. IsFiniteSet(S)
    BY FiniteClients, FS_Subset
  <2>2. f \in Surjection(S, open)
    BY DEF Surjection
  <2>3. IsFiniteSet(open)
    BY <2>1, <2>2, FS_Surjection
  <2> QED
    BY <2>3, FS_CardinalityType
<1> HIDE DEF open
<1>6. stops \in Seq(Blocks)
  <2>1. stops \in [1..Cardinality(open) -> Blocks]
    BY <1>3, <1>4
  <2> QED
    BY <1>5, <2>1
<1>7. connectionQueue' \in Seq(Blocks) /\ connectionQueue' # <<>>
  <2>1. connectionQueue \in Seq(Blocks) /\ connectionQueue # <<>>
    BY DEF Inv, TypeOK, QueueInv, StopServing
  <2> QED
    BY <1>3, <1>6, <2>1
<1>8. TypeOK'
  BY <1>2, <1>7 DEF Inv, TypeOK, StopServing, timeoutVars, daemonVars
<1>9. MainInv' /\ OkInv' /\ BoxInv' /\ ScreenInv' /\ QueueInv'
  BY <1>1, <1>2, <1>7
     DEF MainInv, OkInv, BoxInv, ScreenInv, ScreenshotOrError, QueueInv
<1>10. TimeoutInv'
  BY <1>1, <1>2 DEF Inv, TimeoutInv, Held, InLaunch, StopServing, timeoutVars
<1>11. GrantInv'
  BY <1>1, <1>2 DEF Inv, GrantInv, GrantsAreOwn, StopServing
<1>12. StopInv'
  BY <1>1, <1>2 DEF Inv, StopInv, StopServing
<1> QED
  BY <1>8, <1>9, <1>10, <1>11, <1>12 DEF Inv

\* A route that is running runs in the loop.
LEMMA Running ==
    ASSUME Inv, main.at \notin {"none", "queued", "done"}
    PROVE  keepAlive /\ phase # "ended"
BY DEF Inv, StopInv

\* What the steps of a running route have in common.
LEMMA RouteStep ==
    ASSUME Inv, main.at \notin {"none", "queued", "done"},
           main' \in Mains, main'.of = main.of, main'.route = main.route,
           stateTimeout' \in Timeouts, outer' \in Timeouts \cup {NIL},
           inner' \in Timeouts \cup {NIL}, session' \in Nat,
           UNCHANGED <<serverVars, clientVars>>,
           pending' \subseteq [box : Boxes, serial : Nat],
           boxes' \in [Boxes -> {"none", "ok", "error"}],
           confirmed' \subseteq Nat
    PROVE  TypeOK' /\ QueueInv' /\ StopInv' /\ main'.of \in Clients
           /\ main'.route \in Routes
<1>1. main.of \in Clients /\ main.route \in Routes /\ connectionQueue # <<>>
  BY DEF Inv, MainInv, QueueInv
<1>2. TypeOK'
  BY DEF Inv, TypeOK, serverVars, clientVars
<1>3. QueueInv'
  BY <1>1 DEF QueueInv, clientVars
<1>4. StopInv'
  BY Running DEF StopInv, serverVars
<1> QED
  BY <1>1, <1>2, <1>3, <1>4

\* The types the steps of a route start from.
LEMMA Types ==
    ASSUME Inv
    PROVE  /\ main \in Mains /\ stateTimeout \in Timeouts
           /\ outer \in Timeouts \cup {NIL} /\ inner \in Timeouts \cup {NIL}
           /\ session \in Nat /\ main.serial \in Nat
           /\ pending \subseteq [box : Boxes, serial : Nat]
           /\ boxes \in [Boxes -> {"none", "ok", "error"}]
           /\ confirmed \subseteq Nat
BY DEF Inv, TypeOK, Mains

LEMMA SwapTimeoutInv == Inv /\ SwapTimeout => Inv'
<1> SUFFICES ASSUME Inv, SwapTimeout PROVE Inv'
  OBVIOUS
<1>1. main.at = "swap" /\ Creates(main.route) /\ main.route \in Routes
  BY DEF Inv, MainInv, SwapTimeout
<1>2. /\ main' \in Mains /\ main'.at = "call" /\ main'.ok = main.ok
      /\ main'.of = main.of /\ main'.route = main.route
  BY Types, Move DEF SwapTimeout, Steps
<1>3. stateTimeout = DefaultTimeout
  BY <1>1 DEF Inv, TimeoutInv, Held, InLaunch
<1>4. stateTimeout' \in Timeouts
  BY <1>1, Types, TimeoutType DEF SwapTimeout
<1>5. TypeOK' /\ QueueInv' /\ StopInv' /\ main'.of \in Clients /\ main'.route \in Routes
  BY <1>1, <1>2, <1>4, Types, RouteStep DEF SwapTimeout, daemonVars
<1>6. MainInv' /\ OkInv' /\ BoxInv' /\ ScreenInv'
  BY <1>1, <1>2, <1>5 DEF Inv, MainInv, OkInv, BoxInv, ScreenInv, ScreenshotOrError, Creates
<1>7. TimeoutInv'
  BY <1>1, <1>2, <1>3 DEF TimeoutInv, Held, InLaunch, SwapTimeout
<1>8. GrantInv'
  BY <1>2 DEF Inv, GrantInv, GrantsAreOwn, SwapTimeout, daemonVars
<1> QED
  BY <1>5, <1>6, <1>7, <1>8 DEF Inv

LEMMA RestoreTimeoutInv == Inv /\ RestoreTimeout => Inv'
<1> SUFFICES ASSUME Inv, RestoreTimeout PROVE Inv'
  OBVIOUS
<1>1. main.at = "unswap" /\ Creates(main.route) /\ main.route \in Routes
  BY DEF Inv, MainInv, RestoreTimeout
<1>2. /\ main' \in Mains /\ main'.at = "done"
      /\ main'.of = main.of /\ main'.route = main.route
  BY Types, Move DEF RestoreTimeout, Steps
<1>3. stateTimeout' = DefaultTimeout
  BY <1>1 DEF Inv, TimeoutInv, Held, InLaunch, RestoreTimeout
<1>4. session' \in {main.serial, session} /\ (main.ok \/ session' = session)
  BY DEF RestoreTimeout
<1>5. TypeOK' /\ QueueInv' /\ StopInv' /\ main'.of \in Clients /\ main'.route \in Routes
  BY <1>1, <1>2, <1>3, <1>4, Types, RouteStep DEF RestoreTimeout, daemonVars, Timeouts
<1>6. MainInv' /\ OkInv' /\ BoxInv' /\ ScreenInv'
  BY <1>1, <1>2, <1>5 DEF Inv, MainInv, OkInv, BoxInv, ScreenInv, ScreenshotOrError, Creates
<1>7. TimeoutInv'
  BY <1>2, <1>3 DEF TimeoutInv, Held, InLaunch
<1>8. GrantInv'
  BY <1>1, <1>2, <1>4
     DEF Inv, GrantInv, GrantsAreOwn, RestoreTimeout, daemonVars, Creates
<1> QED
  BY <1>5, <1>6, <1>7, <1>8 DEF Inv

LEMMA CallDaemonInv == Inv /\ CallDaemon => Inv'
<1> SUFFICES ASSUME Inv, CallDaemon PROVE Inv'
  OBVIOUS
<1>1. /\ main.at = "call" /\ main.route \in Routes /\ main.of \in Clients
      /\ main.route.op \in {"screenshot", "launch", "open"}
  BY DEF Inv, MainInv, CallDaemon
<1>2. PICK b \in Boxes : (\A p \in pending : p.box # b) /\ Send(b)
  BY DEF CallDaemon
<1>3. /\ main' \in Mains /\ main'.at = "await" /\ main'.box = b
      /\ main'.of = main.of /\ main'.route = main.route
      /\ main'.serial = main.serial /\ main'.ok = main.ok
  BY <1>2, Types DEF Send, Mains, Steps
<1>4. pending' = pending \cup {[box |-> b, serial |-> main.serial]}
      /\ boxes' = [boxes EXCEPT ![b] = "none"]
  BY <1>2 DEF Send
<1>5. TypeOK' /\ QueueInv' /\ StopInv' /\ main'.of \in Clients /\ main'.route \in Routes
  BY <1>1, <1>3, <1>4, Types, RouteStep DEF CallDaemon, timeoutVars
<1>6. MainInv' /\ OkInv'
  BY <1>1, <1>3, <1>5 DEF Inv, MainInv, OkInv, Creates, CallDaemon
<1>7. BoxInv'
  BY <1>2, <1>3, <1>4, Types DEF BoxInv
<1>8. TimeoutInv'
  BY <1>1, <1>3 DEF Inv, TimeoutInv, Held, InLaunch, CallDaemon, timeoutVars
<1>9. GrantInv' /\ ScreenInv'
  BY <1>3 DEF Inv, GrantInv, GrantsAreOwn, ScreenInv, ScreenshotOrError, CallDaemon
<1> QED
  BY <1>5, <1>6, <1>7, <1>8, <1>9 DEF Inv

LEMMA RefuseCallInv == Inv /\ RefuseCall => Inv'
<1> SUFFICES ASSUME Inv, RefuseCall PROVE Inv'
  OBVIOUS
<1> DEFINE step == IF main.route.op = "open" THEN "unswap" ELSE "done"
<1>1. /\ main.at = "call" /\ main.route \in Routes /\ main.of \in Clients
      /\ main.route.op \in {"open", "screenshot"} /\ main.ok \in BOOLEAN
  BY Types DEF Inv, MainInv, RefuseCall, Mains
<1>2. /\ main' \in Mains /\ main'.at = step /\ main'.error = TRUE
      /\ main'.of = main.of /\ main'.route = main.route
      /\ main'.ok = main.ok /\ main'.serial = main.serial
  BY Types DEF RefuseCall, Mains, Steps
<1>3. main.ok = FALSE
  BY <1>1 DEF Inv, OkInv
<1>4. TypeOK' /\ QueueInv' /\ StopInv' /\ main'.of \in Clients /\ main'.route \in Routes
  BY <1>1, <1>2, Types, RouteStep DEF RefuseCall, timeoutVars, daemonVars
<1>5. MainInv' /\ BoxInv' /\ ScreenInv'
  BY <1>1, <1>2, <1>4 DEF MainInv, BoxInv, ScreenInv, ScreenshotOrError, Creates
<1>6. TimeoutInv'
  BY <1>1, <1>2
     DEF Inv, TimeoutInv, Held, InLaunch, RefuseCall, timeoutVars, Creates
<1>7. GrantInv' /\ OkInv'
  BY <1>1, <1>2, <1>3 DEF Inv, GrantInv, GrantsAreOwn, OkInv, RefuseCall, daemonVars
<1> QED
  BY <1>4, <1>5, <1>6, <1>7 DEF Inv

LEMMA ReplyInv ==
    ASSUME Inv, NEW p \in pending, NEW outcome \in {"ok", "error"}, Reply(p, outcome)
    PROVE  Inv'
<1>1. p.box \in Boxes /\ p.serial \in Nat
  BY Types
<1>2. /\ pending' \subseteq pending
      /\ boxes' = [boxes EXCEPT ![p.box] = outcome]
      /\ confirmed' = IF outcome = "ok" THEN confirmed \cup {p.serial} ELSE confirmed
      /\ UNCHANGED <<serverVars, clientVars, main, timeoutVars, session>>
  BY DEF Reply
<1>3. boxes' \in [Boxes -> {"none", "ok", "error"}] /\ confirmed' \subseteq Nat
  BY <1>1, <1>2, Types
<1>4. TypeOK'
  BY <1>2, <1>3 DEF Inv, TypeOK, serverVars, clientVars, timeoutVars
<1>5. MainInv' /\ QueueInv' /\ StopInv' /\ OkInv'
  BY <1>2 DEF Inv, MainInv, QueueInv, StopInv, OkInv, serverVars, clientVars
<1>6. TimeoutInv'
  BY <1>2 DEF Inv, TimeoutInv, Held, InLaunch, timeoutVars
<1>7. GrantInv'
  BY <1>2 DEF Inv, GrantInv, GrantsAreOwn
<1>8. BoxInv'
  BY <1>1, <1>2, Types DEF Inv, BoxInv, MainInv
<1>9. ScreenInv'
  <2>1. CASE main.at = "collect"
    <3>1. main.box \in Boxes
      BY <2>1 DEF Inv, MainInv
    <3> QED
      BY <1>1, <1>2, <2>1, <3>1, Types DEF Inv, ScreenInv, ScreenshotOrError
  <2>2. CASE main.at # "collect"
    BY <1>2, <2>2 DEF Inv, ScreenInv, ScreenshotOrError
  <2> QED
    BY <2>1, <2>2
<1> QED
  BY <1>4, <1>5, <1>6, <1>7, <1>8, <1>9 DEF Inv

\* Where a route goes on with what it has heard.
LEMMA HeardHolds ==
    ASSUME Inv, NEW ok \in BOOLEAN, Heard(ok), main.at = "await",
           ok => boxes[main.box] = "ok",
           main.route.op = "screenshot" => boxes[main.box] # "none",
           UNCHANGED <<serverVars, clientVars, timeoutVars, session, daemonVars>>
    PROVE  Inv'
<1> DEFINE step == CASE main.route.op = "screenshot" -> "collect"
                     [] main.route.op = "launch" /\ ok -> "quiesce"
                     [] OTHER -> "unswap"
<1>1. /\ main.route \in Routes /\ main.of \in Clients /\ main.box \in Boxes
      /\ main.route.op \in {"screenshot", "launch", "open"}
  BY DEF Inv, MainInv
<1>2. step \in {"collect", "quiesce", "unswap"}
  OBVIOUS
<1>3. /\ step = "collect" => main.route.op = "screenshot"
      /\ step = "quiesce" => main.route.op = "launch"
      /\ step = "unswap" => main.route.op \in {"launch", "open"}
  BY <1>1
<1>4. main' = [main EXCEPT !.ok = ok, !.at = step]
  BY DEF Heard
<1> HIDE DEF step
<1>5. /\ main' \in Mains /\ main'.at = step /\ main'.ok = ok
      /\ main'.of = main.of /\ main'.route = main.route
      /\ main'.serial = main.serial /\ main'.box = main.box
      /\ main'.error = main.error
  BY <1>2, <1>4, Types DEF Mains, Steps
<1>6. TypeOK' /\ QueueInv' /\ StopInv' /\ main'.of \in Clients /\ main'.route \in Routes
  BY <1>1, <1>5, Types, RouteStep DEF timeoutVars, daemonVars
<1>7. MainInv' /\ OkInv'
  BY <1>1, <1>2, <1>3, <1>5, <1>6 DEF MainInv, OkInv, Creates
<1>8. ok => main.serial \in confirmed
  BY DEF Inv, BoxInv
<1>9. BoxInv'
  BY <1>2, <1>5 DEF Inv, BoxInv, daemonVars
<1>10. TimeoutInv'
  BY <1>1, <1>2, <1>3, <1>5
     DEF Inv, TimeoutInv, Held, InLaunch, timeoutVars, Creates
<1>11. GrantInv'
  BY <1>2, <1>5, <1>8, <1>9 DEF Inv, GrantInv, GrantsAreOwn, daemonVars
<1>12. ScreenInv'
  BY <1>2, <1>3, <1>5 DEF ScreenInv, ScreenshotOrError, daemonVars
<1> QED
  BY <1>6, <1>7, <1>9, <1>10, <1>11, <1>12 DEF Inv

LEMMA AwaitInv == Inv /\ Await => Inv'
<1> SUFFICES ASSUME Inv, Await PROVE Inv'
  OBVIOUS
<1> DEFINE ok == boxes[main.box] = "ok"
<1>1. ok \in BOOLEAN /\ Heard(ok) /\ main.at = "await"
  BY DEF Await
<1>2. main.route.op = "screenshot" => boxes[main.box] # "none"
  BY DEF Await
<1>3. UNCHANGED <<serverVars, clientVars, timeoutVars, session, daemonVars>>
  BY DEF Await
<1>4. ok => boxes[main.box] = "ok"
  OBVIOUS
<1> HIDE DEF ok
<1> QED
  BY <1>1, <1>2, <1>3, <1>4, HeardHolds

\* A step of a screenshot that leaves the timeouts and the calls alone.
LEMMA ScreenshotStep ==
    ASSUME Inv, main.at \in {"await", "check", "collect"},
           main.route.op = "screenshot",
           main' \in Mains, main'.at \in {"check", "collect", "done"},
           main'.of = main.of, main'.route = main.route,
           main'.serial = main.serial, main'.box = main.box,
           main'.at = "done" \/ main'.ok = main.ok,
           UNCHANGED <<serverVars, clientVars, timeoutVars, session, daemonVars>>
    PROVE  /\ TypeOK' /\ QueueInv' /\ StopInv' /\ MainInv' /\ BoxInv' /\ TimeoutInv'
           /\ OkInv'
<1>1. main.route \in Routes /\ main.of \in Clients /\ main.box \in Boxes
  BY DEF Inv, MainInv
<1>2. TypeOK' /\ QueueInv' /\ StopInv' /\ main'.of \in Clients /\ main'.route \in Routes
  BY <1>1, Types, RouteStep DEF timeoutVars, daemonVars
<1>3. MainInv' /\ OkInv'
  BY <1>1, <1>2 DEF MainInv, OkInv
<1>4. BoxInv'
  BY DEF Inv, BoxInv, daemonVars
<1>5. TimeoutInv'
  BY DEF Inv, TimeoutInv, Held, InLaunch, Creates, timeoutVars
<1> QED
  BY <1>2, <1>3, <1>4, <1>5

LEMMA TimeOutInv == Inv /\ TimeOut => Inv'
<1> SUFFICES ASSUME Inv, TimeOut PROVE Inv'
  OBVIOUS
<1>1. /\ main.at = "await"
      /\ UNCHANGED <<serverVars, clientVars, timeoutVars, session, daemonVars>>
  BY DEF TimeOut
<1>2. CASE main.route.op = "screenshot"
  <2>1. /\ main' \in Mains /\ main'.at = "check"
        /\ main'.of = main.of /\ main'.route = main.route /\ main'.ok = main.ok
        /\ main'.serial = main.serial /\ main'.box = main.box
    BY <1>2, Types, Move DEF TimeOut, Steps
  <2>2. /\ TypeOK' /\ QueueInv' /\ StopInv' /\ MainInv' /\ BoxInv' /\ TimeoutInv'
        /\ OkInv'
    BY <1>1, <1>2, <2>1, ScreenshotStep
  <2>3. GrantInv' /\ ScreenInv'
    BY <1>1, <2>1 DEF Inv, GrantInv, GrantsAreOwn, ScreenInv, ScreenshotOrError,
                      daemonVars
  <2> QED
    BY <2>2, <2>3 DEF Inv
<1>3. CASE main.route.op # "screenshot"
  BY <1>1, <1>3, HeardHolds DEF TimeOut
<1> QED
  BY <1>2, <1>3

LEMMA CheckInnerErrorInv == Inv /\ CheckInnerError => Inv'
<1> SUFFICES ASSUME Inv, CheckInnerError PROVE Inv'
  OBVIOUS
<1>1. /\ main.at = "check" /\ main.route.op = "screenshot"
      /\ UNCHANGED <<serverVars, clientVars, timeoutVars, session, daemonVars>>
  BY DEF Inv, MainInv, CheckInnerError
<1>2. /\ main' \in Mains /\ main'.at = "collect"
      /\ main'.error = (boxes[main.box] # "error")
      /\ main'.of = main.of /\ main'.route = main.route /\ main'.ok = main.ok
      /\ main'.serial = main.serial /\ main'.box = main.box
  BY Types DEF CheckInnerError, Mains, Steps
<1>3. /\ TypeOK' /\ QueueInv' /\ StopInv' /\ MainInv' /\ BoxInv' /\ TimeoutInv'
      /\ OkInv'
  BY <1>1, <1>2, ScreenshotStep
<1>4. GrantInv' /\ ScreenInv'
  BY <1>1, <1>2 DEF Inv, GrantInv, GrantsAreOwn, ScreenInv, ScreenshotOrError,
                    daemonVars
<1> QED
  BY <1>3, <1>4 DEF Inv

LEMMA CollectScreenshotInv == Inv /\ CollectScreenshot => Inv'
<1> SUFFICES ASSUME Inv, CollectScreenshot PROVE Inv'
  OBVIOUS
<1>1. /\ main.at = "collect" /\ main.route.op = "screenshot" /\ main.box \in Boxes
      /\ UNCHANGED <<serverVars, clientVars, timeoutVars, session, daemonVars>>
  BY DEF Inv, MainInv, CollectScreenshot
<1>2. /\ main' \in Mains /\ main'.at = "done"
      /\ main'.ok = (boxes[main.box] = "ok")
      /\ main'.error = (main.error \/ boxes[main.box] = "error")
      /\ main'.of = main.of /\ main'.route = main.route
      /\ main'.serial = main.serial /\ main'.box = main.box
  BY Types DEF CollectScreenshot, Mains, Steps
<1>3. /\ TypeOK' /\ QueueInv' /\ StopInv' /\ MainInv' /\ BoxInv' /\ TimeoutInv'
      /\ OkInv'
  BY <1>1, <1>2, ScreenshotStep
<1>4. GrantInv'
  BY <1>1, <1>2 DEF Inv, GrantInv, GrantsAreOwn, BoxInv, daemonVars
<1>5. boxes[main.box] \in {"none", "ok", "error"}
  BY <1>1, Types
<1>6. ScreenInv'
  BY <1>1, <1>2, <1>5 DEF Inv, ScreenInv, ScreenshotOrError
<1> QED
  BY <1>3, <1>4, <1>6 DEF Inv

\* A step to or from the wait for idle: only the timeouts change.
LEMMA SkipIdleInv == Inv /\ SkipIdle => Inv'
<1> SUFFICES ASSUME Inv, SkipIdle PROVE Inv'
  OBVIOUS
<1>1. /\ main.at = "quiesce" /\ main.route.op \in {"tap", "launch"}
      /\ main.route \in Routes
      /\ UNCHANGED <<serverVars, clientVars, timeoutVars, session, daemonVars>>
  BY DEF Inv, MainInv, SkipIdle
<1>2. /\ AfterIdle \in {"unswap", "done"}
      /\ AfterIdle = "unswap" <=> main.route.op = "launch"
  BY DEF AfterIdle
<1>3. /\ main' \in Mains /\ main'.at = AfterIdle
      /\ main'.of = main.of /\ main'.route = main.route
      /\ main'.ok = main.ok /\ main'.serial = main.serial
  BY <1>2, Types, Move DEF SkipIdle, Steps
<1>4. TypeOK' /\ QueueInv' /\ StopInv' /\ main'.of \in Clients /\ main'.route \in Routes
  BY <1>1, <1>3, Types, RouteStep DEF timeoutVars, daemonVars
<1>5. MainInv' /\ OkInv' /\ BoxInv' /\ ScreenInv'
  BY <1>1, <1>2, <1>3, <1>4
     DEF MainInv, OkInv, BoxInv, ScreenInv, ScreenshotOrError, Creates
<1>6. TimeoutInv'
  BY <1>1, <1>2, <1>3 DEF Inv, TimeoutInv, Held, InLaunch, Creates, timeoutVars
<1>7. GrantInv'
  BY <1>1, <1>2, <1>3 DEF Inv, GrantInv, GrantsAreOwn, Creates, daemonVars
<1> QED
  BY <1>4, <1>5, <1>6, <1>7 DEF Inv

LEMMA StartIdleInv == Inv /\ StartIdle => Inv'
<1> SUFFICES ASSUME Inv, StartIdle PROVE Inv'
  OBVIOUS
<1>1. /\ main.at = "quiesce" /\ main.route.op \in {"tap", "launch"}
      /\ main.route \in Routes
      /\ UNCHANGED <<serverVars, clientVars, outer, session, daemonVars>>
      /\ inner' = stateTimeout /\ stateTimeout' = IdleTimeout
  BY DEF Inv, MainInv, StartIdle
<1>2. /\ main' \in Mains /\ main'.at = "idle"
      /\ main'.of = main.of /\ main'.route = main.route
      /\ main'.ok = main.ok /\ main'.serial = main.serial
  BY Types, Move DEF StartIdle, Steps
<1>3. TypeOK' /\ QueueInv' /\ StopInv' /\ main'.of \in Clients /\ main'.route \in Routes
  BY <1>1, <1>2, Types, RouteStep DEF Timeouts, daemonVars
<1>4. MainInv' /\ OkInv' /\ BoxInv' /\ ScreenInv'
  BY <1>1, <1>2, <1>3
     DEF MainInv, OkInv, BoxInv, ScreenInv, ScreenshotOrError, Creates
<1>5. TimeoutInv'
  BY <1>1, <1>2 DEF Inv, TimeoutInv, Held, InLaunch, Creates
<1>6. GrantInv'
  BY <1>1, <1>2 DEF Inv, GrantInv, GrantsAreOwn, Creates, daemonVars
<1> QED
  BY <1>3, <1>4, <1>5, <1>6 DEF Inv

LEMMA EndIdleInv == Inv /\ EndIdle => Inv'
<1> SUFFICES ASSUME Inv, EndIdle PROVE Inv'
  OBVIOUS
<1>1. /\ main.at = "idle" /\ main.route.op \in {"tap", "launch"}
      /\ main.route \in Routes
      /\ UNCHANGED <<serverVars, clientVars, outer, session, daemonVars>>
      /\ inner' = NIL /\ stateTimeout' = inner
  BY DEF Inv, MainInv, EndIdle
<1>2. /\ AfterIdle \in {"unswap", "done"}
      /\ AfterIdle = "unswap" <=> main.route.op = "launch"
  BY DEF AfterIdle
<1>3. PICK ok \in {main.ok, FALSE} : main' = [main EXCEPT !.at = AfterIdle, !.ok = ok]
  BY DEF EndIdle
<1>4. /\ main' \in Mains /\ main'.at = AfterIdle
      /\ main'.of = main.of /\ main'.route = main.route
      /\ main'.ok => main.ok /\ main'.serial = main.serial
  BY <1>2, <1>3, Types DEF Mains, Steps
<1>5. inner = Held /\ Held \in Timeouts
  BY <1>1, TimeoutType DEF Inv, TimeoutInv, Held, Timeouts
<1>6. TypeOK' /\ QueueInv' /\ StopInv' /\ main'.of \in Clients /\ main'.route \in Routes
  BY <1>1, <1>4, <1>5, Types, RouteStep DEF daemonVars
<1>7. MainInv' /\ OkInv' /\ BoxInv' /\ ScreenInv'
  BY <1>1, <1>2, <1>4, <1>6
     DEF MainInv, OkInv, BoxInv, ScreenInv, ScreenshotOrError, Creates
<1>8. TimeoutInv'
  BY <1>1, <1>2, <1>4, <1>5 DEF Inv, TimeoutInv, Held, InLaunch, Creates
<1>9. GrantInv'
  BY <1>1, <1>2, <1>4 DEF Inv, GrantInv, GrantsAreOwn, Creates, daemonVars
<1> QED
  BY <1>6, <1>7, <1>8, <1>9 DEF Inv

LEMMA NextInv == Inv /\ [Next]_vars => Inv'
<1> SUFFICES ASSUME Inv, [Next]_vars PROVE Inv'
  OBVIOUS
<1>1. CASE UNCHANGED vars
  <2>1. (MainInv /\ OkInv /\ TimeoutInv /\ BoxInv /\ GrantInv /\ ScreenInv)'
    BY <1>1, RouteKept DEF Inv, vars
  <2>2. TypeOK' /\ QueueInv' /\ StopInv'
    BY <1>1 DEF Inv, TypeOK, QueueInv, StopInv, vars, serverVars, clientVars,
                timeoutVars, daemonVars
  <2> QED
    BY <2>1, <2>2 DEF Inv
<1>2. CASE MainSteps
  BY <1>2, ServerInv, BeginRouteInv, StopServingInv, SwapTimeoutInv, CallDaemonInv,
     RefuseCallInv, AwaitInv, TimeOutInv, CheckInnerErrorInv, CollectScreenshotInv,
     SkipIdleInv, StartIdleInv, EndIdleInv, RestoreTimeoutInv DEF MainSteps
<1>3. CASE ConnectionSteps
  BY <1>3, ClientInv, HandleRequestInv, WriteResponseInv, DisconnectInv
     DEF ConnectionSteps
<1>4. CASE ClientSteps
  BY <1>4, ClientInv DEF ClientSteps
<1>5. CASE Daemon
  BY <1>5, ReplyInv DEF Daemon
<1> QED
  BY <1>1, <1>2, <1>3, <1>4, <1>5 DEF Next

LEMMA SpecInv == Spec => []Inv
BY InitInv, NextInv, PTL DEF Spec

\* The server, its queue, the calls and the timeouts keep their types, for any
\* number of clients and calls (FBWebServer.m, FBScreenshot.m).
THEOREM TypeCorrect == Spec => []TypeOK
<1>1. Inv => TypeOK
  BY DEF Inv
<1> QED
  BY <1>1, SpecInv, PTL

\* Whatever a launch, a deep link or a wait for idle throws, the state timeout
\* is XCTest's own when the route has ended (FBSessionCommands.m:171-183,
\* 559-586, XCUIApplicationProcess+FBQuiescence.m:21-61), for any timeouts.
THEOREM TimeoutsNest == Spec => []TimeoutRestored
<1>1. Inv => TimeoutRestored
  BY DEF Inv, TimeoutInv, Held, InLaunch, TimeoutRestored
<1> QED
  BY <1>1, SpecInv, PTL

\* No late reply grants a session or a picture to another request
\* (FBXCTestDaemonsProxy.m:29-54, FBScreenshot.m:92-134), for any number of
\* calls in flight.
THEOREM NoForeignGrant == Spec => []GrantsAreOwn
<1>1. Inv => GrantsAreOwn
  BY DEF Inv, GrantInv
<1> QED
  BY <1>1, SpecInv, PTL

\* A screenshot never ends with neither data nor error (FBScreenshot.m:116-133),
\* wherever the late reply falls between the looks at the shared variables.
THEOREM ScreenshotSettles == Spec => []ScreenshotOrError
<1>1. Inv => ScreenshotOrError
  BY DEF Inv, ScreenInv
<1> QED
  BY <1>1, SpecInv, PTL

\* Once the loop has ended there is no session and no listener, and no route
\* runs (FBWebServer.m:69-80, 160-168), for any requests queued by then.
THEOREM ShutdownHolds == Spec => []ShutdownIsFinal
<1>1. Inv => ShutdownIsFinal
  BY DEF Inv, StopInv, ShutdownIsFinal
<1> QED
  BY <1>1, SpecInv, PTL
=============================================================================
