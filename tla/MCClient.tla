------------------------------ MODULE MCClient ------------------------------
(* Bounds of the runs of Client.                                             *)
EXTENDS Client

R(status_, uri_, token_) == [status |-> status_, uri |-> uri_, token |-> token_]
MCRecords == {R("available", "u1", "t1"), R("away", "u2", NoToken), R(NoStatus, "u1", NoToken)}

Quiet == [owner |-> FALSE, peers |-> {}, services |-> {"eth"}, record |-> R("available", "u1", "t1"),
          changes |-> 0, failures |-> 0, forgeries |-> 0, holds |-> 0, avatars |-> 0,
          chats |-> 0, says |-> 0, sends |-> 0, rooms |-> FALSE]

Owner == [Quiet EXCEPT !.owner = TRUE, !.peers = {"ann"}]
Seen == [Quiet EXCEPT !.peers = {"ann"}, !.services = {"eth", "wlan"}, !.changes = 2, !.failures = 1]
Caps == [Quiet EXCEPT !.peers = {"ann", "bob", "eve"}, !.changes = 1, !.forgeries = 2]
Error == [Quiet EXCEPT !.peers = {"ann", "bob"}, !.changes = 1, !.failures = 1]
Avatar == [Quiet EXCEPT !.peers = {"ann"}, !.changes = 2, !.avatars = 2, !.holds = 1]
Chat == [Quiet EXCEPT !.peers = {"ann"}, !.record = R("away", Basic, NoToken), !.changes = 1, !.chats = 1, !.says = 2]
Post == [Quiet EXCEPT !.peers = {"ann"}, !.record = R("away", Basic, NoToken), !.changes = 1, !.failures = 1,
                        !.chats = 2, !.sends = 2]
Room == [Quiet EXCEPT !.rooms = TRUE]

L(type_, text_, event_) == [type |-> type_, text |-> text_, event |-> event_]
MCLines == {L("normal", <<"hi">>, {}), L("action", <<"waves">>, {}), L("notice", <<Me, "hi">>, {}),
            L("normal", <<"dra">>, {Composing, "id"}), L("notice", <<"draft">>, {Composing}),
            L("normal", <<>>, {}), L("invite", <<>>, {})}

MCOneError == {[Error EXCEPT !.changes = 0]}
MCScenarios == {Owner, Seen, Caps, Error, Avatar, Chat, Post, Room}
=============================================================================
