------------------------- MODULE MCWebsocketSender -------------------------
(***************************************************************************)
(* An instance of WebsocketSender for TLC: c1, c2 and c3 are connections   *)
(* of alice, c5 sends a token that is refused, and bob has none.           *)
(***************************************************************************)
EXTENDS WebsocketSender

CONSTANTS alice, bob, c1, c2, c3, c5, m1, m2

MCUserOf ==
    [c \in Conns |-> IF c = c5 THEN NoUser ELSE alice]
MCReceiver == [m \in Messages |-> IF m = m1 THEN alice ELSE bob]

=============================================================================
