--------------------------- MODULE MCDiscordConn ----------------------------
(* A text channel and a thread, and three messages. *)
EXTENDS DiscordConn, TLC

CONSTANTS general, thread

MCChannelOf == 1 :> general @@ 2 :> thread @@ 3 :> general
MCKindOf == general :> "text" @@ thread :> "thread"
=============================================================================
