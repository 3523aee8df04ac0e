----------------------------- MODULE MCActivities -----------------------------
\* Small rooms for MucTubes and Activities.
EXTENDS Activities

CONSTANTS ann, bob, cid

Room == [owner |-> 1 :> ann, streams |-> {}, first |-> {ann, bob}, late |-> {}, fragile |-> {},
         users |-> Nodes \X Tubes, closers |-> {},
         programs |-> {}, talkers |-> {}, fickle |-> {}, dests |-> {All}]

Quiet == [Room EXCEPT !.owner = <<>>]
Guest == [Quiet EXCEPT !.first = {ann}, !.late = {cid}]

MCScenarios ==
    {\* Two programs talk, and one comes and goes.
     [Room EXCEPT !.programs = {ann, bob}, !.talkers = {ann, bob}, !.fickle = {bob}, !.dests = {All, ann, bob}],
     \* A tube is closed, and comes back when another is offered.
     [Room EXCEPT !.owner = 1 :> ann @@ 2 :> ann, !.first = {ann, bob, cid}, !.closers = {<<cid, 1>>},
                  !.users = {<<bob, 1>>, <<cid, 1>>}],
     \* A node joins while a tube is offered and closed, or another vanishes.
     [Room EXCEPT !.late = {cid}, !.closers = {<<ann, 1>>}, !.users = {<<bob, 1>>, <<cid, 1>>}],
     [Room EXCEPT !.late = {cid}, !.fragile = {bob}, !.users = {<<bob, 1>>}],
     \* One speaks on two tubes, the other closes one and accepts it again.
     [Room EXCEPT !.owner = 1 :> ann @@ 2 :> ann, !.users = {<<bob, 1>>}, !.closers = {<<bob, 1>>},
                  !.programs = {ann, bob}, !.talkers = {ann}],
     \* A stream tube is in the way.
     [Room EXCEPT !.owner = 1 :> ann @@ 2 :> bob, !.streams = {2}, !.closers = {<<bob, 1>>},
                  !.programs = {ann, bob}, !.talkers = {ann}],
     \* No tubes: an activity of two or three, with a guest, and with a stranger.
     Quiet, [Quiet EXCEPT !.first = {ann, bob, cid}], Guest, [Quiet EXCEPT !.fragile = {bob}]}

MCPlans(sc) ==
    LET Plan(setters, hosts, leavers, changes) ==
            [adders |-> Nodes, setters |-> setters, hosts |-> hosts, leavers |-> leavers, changes |-> changes]
    IN
    IF sc.owner # <<>> THEN {[Plan({}, {}, {}, 0) EXCEPT !.adders = {}]}
    ELSE IF sc = Guest THEN {Plan({ann}, {ann}, {cid}, 2)}
    ELSE IF sc.first = {ann, bob, cid} THEN {Plan({ann}, {}, {}, 1)}
    ELSE {Plan({ann, bob}, {}, {bob}, 2)}
=============================================================================
