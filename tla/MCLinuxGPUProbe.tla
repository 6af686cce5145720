---------------------------- MODULE MCLinuxGPUProbe ----------------------------
(* Instances of LinuxGPUProbe: an AMD GPU, whose ids need no events, or an     *)
(* NVIDIA one that one process uses.                                          *)
EXTENDS LinuxGPUProbe
================================================================================
