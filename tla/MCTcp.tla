------------------------------- MODULE MCTcp -------------------------------
(***************************************************************************)
(* Small instances of Tcp for TLC.                                         *)
(***************************************************************************)
EXTENDS Tcp

Cfg(isServer, spawns) == [server |-> isServer, autoReconnect |-> TRUE,
                          spawn |-> spawns, direction |-> "TwoWay"]

ClientConfigs == {Cfg(FALSE, TRUE), Cfg(FALSE, FALSE)}
ServerConfigs == {Cfg(TRUE, TRUE), Cfg(TRUE, FALSE)}
BothRoles == {Cfg(FALSE, TRUE), Cfg(TRUE, TRUE)}
AllConfigs ==
    ClientConfigs \cup ServerConfigs
        \cup {[Cfg(FALSE, TRUE) EXCEPT !.autoReconnect = FALSE],
              [Cfg(FALSE, TRUE) EXCEPT !.direction = "SendOnly"],
              [Cfg(FALSE, FALSE) EXCEPT !.direction = "ReceiveOnly"]}

\* A client that was opened and is from now on only used: nobody closes or
\* reconfigures it.
InitConnected ==
    /\ config \in Configs
    /\ handle = TRUE /\ server = FALSE /\ listen = NoFd
    /\ socket \in Fds
    /\ running = FALSE /\ rxObj = NoRx /\ hasCb = FALSE /\ healthy = TRUE
    /\ fd = [f \in Fds |-> IF f = socket THEN "connected" ELSE "closed"]
    /\ pc = [t \in Threads |-> IF t \in App THEN "idle" ELSE "absent"]
    /\ op = [t \in Threads |-> IF t \in App THEN "none" ELSE "loop"]
    /\ sock = [t \in Threads |-> NoFd] /\ lsn = [t \in Threads |-> NoFd]
    /\ asServer = [t \in Threads |-> FALSE]
    /\ stale = [t \in Threads |-> FALSE]
ConnectedSpec == InitConnected /\ [][Next]_vars
=============================================================================
