------------------------------ MODULE MCDoors ------------------------------
EXTENDS Doors, TLC

\* A native door, a DOSBox door, a Buccaneer door that chains, a door that
\* is disabled, and a transfer protocol.
Row == [enabled |-> TRUE, command |-> <<"word", "%D">>, manifest |-> "cleanup",
        timeout |-> 1, lb |-> FALSE, key |-> "gold", order |-> "desc"]
With(runner) == Row @@ [runner |-> runner]

MCDoor ==
  "nat" :> With("native")
  @@ "dos" :> [With("dosbox") EXCEPT !.lb = TRUE, !.key = "gold"]
  @@ "bucc" :> With("bucc")
  @@ "bad" :> [With("native") EXCEPT !.enabled = FALSE]
  @@ "proto" :> [With("protocol") EXCEPT !.command = <<"word">>]
=============================================================================
