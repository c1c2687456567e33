-------------------------------- MODULE MCRooms --------------------------------
EXTENDS Rooms
CONSTANTS q1, q2, q3, r1, r2
MCDuties ==
    [q \in Requests |->
        CASE q = q1 -> {"startup", "permit", "configure"}
          [] q = q2 -> {"rotate", "moderate", "create", "join"}
          [] q = q3 -> {"join", "selfjoin", "configure", "show"}]
Join(u, name) ==
    [type |-> "m.room.member", stateKey |-> u, sender |-> u,
     content |-> [membership |-> "join", name |-> name]]
Ban(u, entity) ==
    [type |-> "m.policy.rule.user", stateKey |-> entity, sender |-> u,
     content |-> [recommendation |-> "m.ban", entity |-> entity]]
Levels(u, n) ==
    [type |-> "m.room.power_levels", stateKey |-> "", sender |-> u,
     content |-> [users |-> [x \in {u} |-> n], usersDefault |-> 0, stateDefault |-> 50]]
Create(u, more) ==
    [type |-> "m.room.create", stateKey |-> "", sender |-> u, content |-> [additional |-> more]]
MCStateAt ==
    [r \in Rooms |->
        <<{Create("ann", {}), Join("ann", "Ann"), Levels("ann", 50)},
          {Create("ann", {}), Join("ann", Blank), Join("bob", "Bob"), Levels("ann", 100),
           IF r = r1 THEN [Ban("ann", "eve") EXCEPT !.content = Garbled] ELSE Ban("ann", "eve")}>>]
MCStartRooms == <<r1, r2>>
=============================================================================
