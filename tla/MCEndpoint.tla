------------------------------ MODULE MCEndpoint ------------------------------
\* Two ports, the runs of launchd, and two things that go wrong.
EXTENDS Endpoint
=============================================================================
