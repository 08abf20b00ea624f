---------------------------- MODULE MCOeeEngine ----------------------------
EXTENDS OeeEngine

\* A late sample moves the start of the only stop, and a third one adds a stop.
StopsOf(s, n) == CASE n = 0 -> {} [] n = 1 -> {10} [] OTHER -> {12, 20}
=============================================================================
