---------------------------- MODULE MCSupervisor ---------------------------
(* Supervisor with short countdowns: two passes of tick_handler a second,  *)
(* three seconds of patience with the ignition on and two with it off.     *)
EXTENDS Supervisor

\* A release build has no ALLOUTPUT, a debug build has.
Release == {"SILENT", "NOOUTPUT", "ELM327", CarMode}
Debug == Release \cup {"ALLOUTPUT"}

NoRequests == {}
WiringRequests == {"reset", "mode", "power_save", "obd", "bus", "loopback", "relay"}

\* What a host does in a session.
SessionRequests == {"heartbeat", "mode", "disable_heartbeat", "ir_power"}
=============================================================================
