--------------------------- MODULE MCPy4jGateway ---------------------------
\* Whole commands, memory and constructor commands that the handler does not read as a
\* whole, a name that begins like a command, and a line that is not UTF-8.
EXTENDS Py4jGateway

MCWhole == {<<"c", "text", "c", "e">>, <<"c", "r", "text", "text", "blank", "e">>, <<"r", "text", "m", "e">>}
MCCommand == MCWhole \cup {<<"m", "text", "text", "e">>, <<"text", "c", "e">>, <<"blank", "invalid">>}

=============================================================================
