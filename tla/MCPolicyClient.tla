--------------------------- MODULE MCPolicyClient ---------------------------
EXTENDS PolicyClient

\* stand for two periods, walk for one, then final_stand.
MCStageEnds == <<2, 3, 3, 3>>

\* Long enough for the end of a session with a worker source, and for a
\* serial sample to wait while a target is in work.
MCHorizon == [s \in Sources |->
  CASE s = "yahboom" -> 6 [] s = "bno055" -> 9 [] s = "native-bno055" -> 6]

\* Long enough for every refusal of a drain and for a sample to grow stale.
MCMaxBusy == [s \in Sources |-> IF s = "yahboom" THEN 3 ELSE 2]
=============================================================================
