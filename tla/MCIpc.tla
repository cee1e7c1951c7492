------------------------------- MODULE MCIpc -------------------------------
(* Model checking the interprocess alerts, and their refinement of         *)
(* AlertQueue.                                                             *)
EXTENDS Ipc, TLC

\* what happens in the runs: helpers that start beside workers; alerts larger than
\* a packet; processes that die, with one alert in the middle of such an alert
Situations ==
  {[startup |-> b = 1, big |-> b \in {2, 4}, crash |-> b \in {3, 4},
    alerts |-> IF b = 4 THEN 1 ELSE MaxAlerts] : b \in 1 .. 4}
=============================================================================
