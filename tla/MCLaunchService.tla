--------------------------- MODULE MCLaunchService ---------------------------
\* TLC instance of the service commands.
EXTENDS LaunchService
=============================================================================
