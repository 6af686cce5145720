---------------------------- MODULE MCSystemMetrics ----------------------------
(***************************************************************************)
(* An instance of SystemMetricsPanel for TLC.  Disks, GPUs and interfaces  *)
(* share nothing but the clock and the order in which the panel refreshes  *)
(* what samples them, so at most one of them is busy in a behaviour.       *)
(***************************************************************************)
EXTENDS SystemMetricsPanel

CONSTANTS d1, g1, en, wl

DisksBusy == DOMAIN sectors # {} \/ \E d \in Devices : lifetime[d] > 0
GpusBusy == m_GPUInfo # {} \/ currentCounters # {} \/ DOMAIN m_PrevCounters # {}
NetBusy == links # <<>> \/ interfaces # <<>> \/ smoothedNet # {}

OneBusy ==
    /\ DisksBusy => ~GpusBusy /\ ~NetBusy
    /\ GpusBusy => ~NetBusy

\* Only the cadence refreshes the panel.
NotForced == m_ForceRefresh => lastFrame = -1
==============================================================================
