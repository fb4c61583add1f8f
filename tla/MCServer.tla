------------------------------- MODULE MCServer -------------------------------
(* Two clients, whose users type up to three lines between them.  The lines   *)
(* left out end like one of these: see the cases of Server.  The second user  *)
(* is there to have a transaction open beside the first one's.                *)
EXTENDS Server

CONSTANTS c1, c2

MCClient == {c1, c2}
MCRequests ==
    [c \in MCClient |->
        IF c = c1 THEN { "BEGIN", "COMMIT", "Refused", "Unplannable", "Panics",
                         "COMMIT row", "one word row", "SHOW TABLE missing" }
                  ELSE { "BEGIN" }]

=============================================================================
