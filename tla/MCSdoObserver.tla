--------------------------- MODULE MCSdoObserver ---------------------------
(* SdoObserver on one channel, for every history of MaxFrames frames over  *)
(* two objects and a command of every kind observer.go tells apart.        *)
EXTENDS SdoObserver

CONSTANTS a1, a2, w1

Frame(d, c, a, l) == [dir |-> d, cmd |-> c, addr |-> a, word |-> w1, len |-> l]

MCAddr == {a1, a2}
MCWord == {w1}
MCFrames ==
    {Frame(ClientToServer, c, a1, 8) : c \in {64, 33, 35, 0, 17}} \cup
    {Frame(ClientToServer, 64, a2, 8)} \cup
    {Frame(ServerToClient, c, a1, 8) : c \in {65, 66, 0, 1, 17, 128}} \cup
    {Frame(ServerToClient, c, a2, 8) : c \in {65, 67}} \cup
    {Frame(ServerToClient, 1, a1, 7)}
=============================================================================
