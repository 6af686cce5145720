-------------------------- MODULE MCLinuxProcessProbe --------------------------
(* An instance of LinuxProcessProbe: two processes, of which one may run or   *)
(* exit between two calls, and an energy counter; no sockets.                 *)
EXTENDS LinuxProcessProbe
================================================================================
