------------------------------- MODULE MCParts -------------------------------
(****************************************************************************)
(* The parts that stand alone, for TLC: the daemon's table of clients and its *)
(* ring of signals, the door controller's array of samples, the controller at *)
(* the door opener and the one that reports to the world.  A behaviour is one *)
(* of a single part.                                                          *)
(****************************************************************************)
EXTENDS IpcTable, SignalRing, SmoothSensor, BuschInterface, ApiEndpoint

VARIABLE which   \* the part that this behaviour is about

AloneInit ==
    /\ which \in {"table", "ring", "array", "busch", "endpoint"}
    /\ TableInit /\ RingInit /\ ArrayInit /\ BuschInit /\ EndpointInit

TableStep ==
    /\ which = "table" /\ TableNext
    /\ UNCHANGED <<which, ringVars, arrayVars, buschVars, endpointVars>>
RingStep ==
    /\ which = "ring" /\ RingNext
    /\ UNCHANGED <<which, tableVars, arrayVars, buschVars, endpointVars>>
ArrayStep ==
    /\ which = "array" /\ ArrayNext
    /\ UNCHANGED <<which, tableVars, ringVars, buschVars, endpointVars>>
BuschStep ==
    /\ which = "busch" /\ BuschNext
    /\ UNCHANGED <<which, tableVars, ringVars, arrayVars, endpointVars>>
EndpointStep ==
    /\ which = "endpoint" /\ EndpointNext
    /\ UNCHANGED <<which, tableVars, ringVars, arrayVars, buschVars>>

AloneSpec ==
    AloneInit /\ [][TableStep \/ RingStep \/ ArrayStep \/ BuschStep \/ EndpointStep]_
                    <<which, tableVars, ringVars, arrayVars, buschVars, endpointVars>>
=============================================================================
