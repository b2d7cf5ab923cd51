-------------------------- MODULE MC_KillProcesses --------------------------
(* The host's own process, a server of another device that has the port, both *)
(* matched by the pattern, and a server that must keep the port.              *)
EXTENDS KillProcessesProperties

CONSTANTS xcodebuild, runner, obsolete, pattern

MCMatching == [w \in Patterns |-> {xcodebuild, obsolete}]
=============================================================================
