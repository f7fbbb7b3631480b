---------------------------- MODULE MCGsmQuectel ----------------------------
(* The commands that main_task runs in a row are all answered by OK and    *)
(* wake no special case of the process task: one stands for each row.      *)
EXTENDS GsmQuectel
MCInitCommands == <<"DISABLE_ECHO">>
MCInfoCommands == <<>>
Line(k) == [k |-> k, v |-> 0]
MCUnsolicited == {<<Line("CMT"), Line("OK")>>, <<Line("CMT"), Line("RESET")>>}
=============================================================================
