--------------------------- MODULE MCDiscordClient ---------------------------
(***************************************************************************)
(* DiscordClient for TLC: a channel of at most four messages. The third    *)
(* answers one of a2, the second is a webhook's.                           *)
(***************************************************************************)
EXTENDS DiscordClient

CONSTANTS a1, a2, a3

MCAuthorsOf == [m \in Messages |-> CASE m = 1 -> {a3}
                                     [] m = 2 -> {}
                                     [] m = 3 -> {a1, a2}
                                     [] OTHER -> {a1}]

=============================================================================
