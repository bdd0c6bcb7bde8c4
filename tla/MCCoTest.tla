-------------------------------- MODULE MCCoTest --------------------------------
(* Five coroutines at five addresses.                                      *)
EXTENDS CoTest

CONSTANTS a1, a2, a3, a4, a5

MCHandles == {a1, a2, a3, a4, a5}
OneWord == {1}
===============================================================================
