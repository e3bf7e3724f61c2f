------------------------------- MODULE MCUdp -------------------------------
(***************************************************************************)
(* Small instances of Udp for TLC.                                         *)
(***************************************************************************)
EXTENDS Udp

Cfg(rebinds, spawns) ==
    [autoRebind |-> rebinds, spawn |-> spawns, direction |-> "TwoWay"]

AllConfigs ==
    {Cfg(FALSE, FALSE), Cfg(FALSE, TRUE), Cfg(TRUE, TRUE)}
        \cup {[Cfg(FALSE, TRUE) EXCEPT !.direction = "SendOnly"],
              [Cfg(TRUE, TRUE) EXCEPT !.direction = "ReceiveOnly"]}

\* The default of autoRebind, with the receive thread the guide describes.
DefaultConfig == {Cfg(TRUE, TRUE)}
=============================================================================
