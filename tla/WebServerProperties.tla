------------------------- MODULE WebServerProperties -------------------------
(* What clients, and the next request, rely on.                              *)
EXTENDS WebServer

\* When no route is running the state timeout is XCTest's own again, however
\* launches, waits for idle and what they throw have nested.
TimeoutRestored ==
    main.at \in {"none", "queued", "done"} => stateTimeout = DefaultTimeout

\* There is a session, or a picture, only if the daemon has granted the call of
\* that very request: late replies to requests given up long ago grant nothing.
GrantsAreOwn ==
    /\ session # 0 => session \in confirmed
    /\ main.at = "done" /\ main.route.op = "screenshot" /\ main.ok =>
          main.serial \in confirmed

\* A screenshot ends with a picture or an error, also when the reply comes
\* between the timeout and the looks at the variables it writes
\* (FBScreenshot.m:116-133).
ScreenshotOrError ==
    main.at = "done" /\ main.route.op = "screenshot" => main.ok \/ main.error

\* After a shutdown nothing is created any more, although requests queued
\* before it still wait for the main queue.
ShutdownIsFinal ==
    phase = "ended" =>
        session = 0 /\ ~listening /\ main.at \in {"none", "queued", "done"}

\* Every request is answered, unless its client hangs up or the server stops:
\* no client, reply or timeout holds the one queue of all connections for good.
RequestsAnswered ==
    \A c \in Clients : c \in asked ~> c \notin asked \/ phase = "ended"
=============================================================================
