------------------------------- MODULE MCSesiones -------------------------------
EXTENDS Sesiones

\* A browser with two tabs and another with one
MCPestanas == {<<"casa", 1>>, <<"casa", 2>>, <<"cancha", 1>>}
=============================================================================
