---------------------------- MODULE MCCheckJobs ----------------------------
EXTENDS CheckJobs
=============================================================================
