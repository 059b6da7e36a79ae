------------------------------ MODULE MCService ------------------------------
\* TLC instance of the managed service.
EXTENDS Service
=============================================================================
