------------------------------- MODULE MCPcan -------------------------------
(***************************************************************************)
(* Small instances of Pcan for TLC.                                        *)
(***************************************************************************)
EXTENDS Pcan

CONSTANTS usb1, usb2

Cfg(spawns) == [channel |-> usb1, autoReconnect |-> TRUE, spawn |-> spawns,
                modes |-> FALSE, direction |-> "TwoWay"]

OneChannel ==
    {Cfg(TRUE), Cfg(FALSE)}
        \cup {[Cfg(TRUE) EXCEPT !.modes = TRUE],
              [Cfg(TRUE) EXCEPT !.autoReconnect = FALSE],
              [Cfg(TRUE) EXCEPT !.direction = "SendOnly"],
              [Cfg(FALSE) EXCEPT !.direction = "ReceiveOnly"]}

Reading == {Cfg(TRUE)}
=============================================================================
