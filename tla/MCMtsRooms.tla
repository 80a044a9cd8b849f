----------------------------- MODULE MCMtsRooms -----------------------------
\* A sysop and a guest, who makes rooms.
EXTENDS MtsRooms

TheNames == {"lobby", "den", "the den"}
TheNorm == [n \in TheNames |-> IF n = "the den" THEN "theden" ELSE n]
TheConfigs == {<<>>, <<[name |-> "den", private |-> TRUE]>>}
TheOffers == {[table |-> "bans", temporary |-> TRUE, global |-> FALSE, add |-> TRUE, named |-> TRUE],
              [table |-> "bans", temporary |-> FALSE, global |-> TRUE, add |-> TRUE, named |-> FALSE],
              [table |-> "mutes", temporary |-> FALSE, global |-> TRUE, add |-> TRUE, named |-> FALSE]}
TheMay == [t \in {"sys", "bob"} |->
            IF t = "sys" THEN {"enter", "join", "private", "invite", "uninvite", "transfer", "rename", "topic",
                               "bans", "mutes", "close", "chatlock", "leave"}
            ELSE {"enter", "create", "join", "default", "quit", "kick"}]
=============================================================================
