------------------------------ MODULE MCWatchdog ------------------------------
\* Two ports, the run of launchd and one run by hand.
EXTENDS Watchdog
=============================================================================
