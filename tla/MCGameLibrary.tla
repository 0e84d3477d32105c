--------------------------- MODULE MCGameLibrary ---------------------------
(* A small instance of GameLibrary for TLC. *)
EXTENDS GameLibrary

CONSTANTS g1, g2, t1, t2

\* Wolf's config.toml has two apps, with all of their engine config.
TwoApps == <<[game |-> g1, title |-> t1, engine |-> "full"],
             [game |-> g2, title |-> t2, engine |-> "full"]>>

\* A table of the first schema, and one with a restricted game of which Wolf
\* has dropped the caps; each leaves an id for a game that an admin creates.
Tables ==
  {[table |-> g1 :> [title |-> t2, engine |-> "none"] @@ g2 :> None,
    template |-> "nocaps", shares |-> {}],
   [table |-> g1 :> None @@ g2 :> [title |-> t2, engine |-> "nocaps"],
    template |-> "full", shares |-> {g2}]}
=============================================================================
