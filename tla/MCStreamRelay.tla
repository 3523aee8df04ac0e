---------------------------- MODULE MCStreamRelay ----------------------------
(* Scenarios of StreamRelay: one writer that leaves, two writers of which one *)
(* leaves or one tube is closed, a network that breaks, and the socket of a    *)
(* program that is reached by TCP and may refuse; and those in which a callback*)
(* fails: a tube closed during the negotiation, a Unix socket that is not     *)
(* there, data for a TCP socket that is still connecting.                     *)
EXTENDS StreamRelay

Base == [writers |-> Sides, leavers |-> {}, closers |-> {}, early |-> FALSE,
         breaks |-> FALSE, socket |-> "unix", refuses |-> FALSE]

MCScenarios ==
         {[Base EXCEPT !.writers = {s}, !.leavers = {s}] : s \in Sides}
    \cup {[Base EXCEPT !.leavers = l] : l \in SUBSET Sides}
    \cup {[Base EXCEPT !.closers = {s}] : s \in Sides}
    \cup {[Base EXCEPT !.breaks = TRUE]}
    \cup {[Base EXCEPT !.writers = {"initiator"}, !.socket = "tcp", !.refuses = r,
                       !.closers = {"recipient"}] : r \in BOOLEAN}
    \cup {[Base EXCEPT !.closers = {s}, !.early = TRUE] : s \in Sides}
    \cup {[Base EXCEPT !.writers = {}, !.refuses = TRUE]}
    \cup {[Base EXCEPT !.writers = {"recipient"}, !.socket = "tcp", !.refuses = r] : r \in BOOLEAN}

=============================================================================
