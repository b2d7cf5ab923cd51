----------------------------- MODULE MC_WebServer -----------------------------
EXTENDS WebServerProperties, TLC

CONSTANTS c1, c2, b1, b2, b3, default, idle, t1

MC_Clients == {c1, c2}
MC_Boxes == {b1, b2, b3}
MC_LaunchTimeouts == {t1}
=============================================================================
