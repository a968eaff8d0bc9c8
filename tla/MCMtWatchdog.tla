---- MODULE MCMtWatchdog ----
\* The instance of MtWatchdog that TLC checks.
EXTENDS MtWatchdog
====
