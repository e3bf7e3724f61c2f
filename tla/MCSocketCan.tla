----------------------------- MODULE MCSocketCan -----------------------------
(***************************************************************************)
(* A small instance of SocketCan for TLC.                                  *)
(***************************************************************************)
EXTENDS SocketCan

Cfg(isTimed, spawns, dir) ==
    [timed |-> isTimed, filters |-> FALSE, spawn |-> spawns, direction |-> dir]

FewConfigs ==
    {Cfg(TRUE, TRUE, "TwoWay"), Cfg(FALSE, TRUE, "ReceiveOnly"),
     Cfg(TRUE, FALSE, "TwoWay"),
     [Cfg(TRUE, TRUE, "SendOnly") EXCEPT !.filters = TRUE]}
=============================================================================
