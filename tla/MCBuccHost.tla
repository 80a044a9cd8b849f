---------------------------- MODULE MCBuccHost ----------------------------
(* Code the board runs that is not its own: Buccaneer doors, and plugins.  *)
(* They share no state; a behaviour follows one of them: of doors what they *)
(* keep, or module files that are written while doors are launched; of     *)
(* plugins the events, a console's too, or tasks beside a caller's events. *)
EXTENDS BuccHost, Plugins, TLC
VARIABLE part

Proc(name, start, len) == [name |-> name, id |-> 0, offset |-> start, len |-> len]
Import(ns, fn, id) == [ns |-> ns, fn |-> fn, id |-> id]

\* A program with strings it shares with its names, one with no code.
Game == [strings |-> <<"hello", "Main">>, consts |-> <<<<"i64", 7>>, <<"bool", 1>>, <<"date", 3>>>>,
         procs |-> <<Proc("Main", 0, 2), Proc("Play", 2, 1)>>,
         imports |-> <<Import("TERM", "PRINT", 0), Import("TERM", "hello", 1)>>, code |-> <<5, 0, 127>>]
Stub == [strings |-> <<>>, consts |-> <<>>, procs |-> <<Proc("Main", 0, 0)>>, imports |-> <<>>,
         code |-> <<>>]

Manifest(caps) == [form |-> "json", name |-> "game", security |-> 1,
                   caps |-> {<<c, TRUE>> : c \in caps}]

MCDoors == "one" :> [manifest |-> Manifest({"term.output", "kv.write"}), level |-> 1]
        @@ "two" :> [manifest |-> Manifest({"user.read"}), level |-> 1]
\* The stub's other version is longer, so that the size of one may be taken
\* and the beginning of the other be read.
Longer == [Stub EXCEPT !.code = <<127>>]
MCModules == "one" :> {Game} @@ "two" :> {Stub, Longer}

\* A door that asks for leaderboard.write.
MCScoreDoors == "one" :> [manifest |-> Manifest({"term.output", "leaderboard.write"}), level |-> 1]
MCScoreModules == "one" :> {Game}

MCLibraries == <<"chat", "dup", "bad", "hello">>
MCDescribe == [f \in {"chat", "dup", "bad", "hello"} |->
  [good |-> f # "bad", id |-> IF f = "dup" THEN "chat" ELSE f, interactive |-> f # "hello"]]

\* Everything a host function may ask for.
MCGrants == {Known}

BoardInit == part \in {"doors", "files", "plugins", "tasks"} /\ Init /\ PluginsInit
BoardNext ==
  \/ part = "doors" /\ UNCHANGED <<file, part, pluginvars>> /\ Next
  \/ part = "files" /\ UNCHANGED <<store, read, part, pluginvars>> /\ Next
  \/ part = "plugins" /\ UNCHANGED <<part, vars, TaskVars>> /\ PluginsNext
  \/ part = "tasks" /\ UNCHANGED <<part, vars>> /\ PluginsNext /\ at'["console"] = at["console"]
BoardSpec == BoardInit /\ [][BoardNext]_<<part, vars, pluginvars>>

Symmetry == Permutations(Sessions)
=============================================================================
