------------------------------ MODULE MCSends ------------------------------
(***************************************************************************)
(* Small instances of Sends, and a punctual engine: one that sweeps and    *)
(* runs what it fired before anything else happens.                        *)
(***************************************************************************)
EXTENDS Sends

Overdue == watermark = 0 \/ fanned # {}
PunctualNext ==
    \/ Overdue /\ (SchedulerTick \/ Fires)
    \/ ~Overdue /\ SendsNext
PunctualSpec == SendsInit /\ [][PunctualNext]_sendsVars
=============================================================================
