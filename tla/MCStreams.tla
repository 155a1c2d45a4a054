------------------------------ MODULE MCStreams ------------------------------
(* One exchange, with the watchdog's own limits: 90 s and three restarts.  *)
EXTENDS StreamSupervisor, TLC
=============================================================================
