-------------------------------- MODULE View --------------------------------
(***************************************************************************)
(* What a page that loads its data promises, whatever happens to its       *)
(* requests: it asks for a key, shows that it is loading, and then shows   *)
(* either the data of the key it last asked for or an error.  Data of      *)
(* another key, or of a page that was left, never come up.                 *)
(***************************************************************************)
CONSTANTS
    Keys,       \* what can be asked for
    NoKey       \* nothing has been asked for

VARIABLES
    asked,      \* the key that was asked for last
    phase,      \* "blank", "loading", "failed" or "ready"
    shown       \* the key whose data are on the screen, or NoKey

viewVars == <<asked, phase, shown>>

Blank == asked = NoKey /\ phase = "blank" /\ shown = NoKey

\* A key that makes no sense fails at once.
Ask(k) ==
    /\ asked' = k
    /\ phase' \in {"loading", "failed"}
    /\ shown' = NoKey

Settle ==
    /\ phase = "loading"
    /\ asked' = asked
    /\ \/ phase' = "ready" /\ shown' = asked
       \/ phase' = "failed" /\ shown' = NoKey

Leave == Blank'

ViewNext == (\E k \in Keys : Ask(k)) \/ Settle \/ Leave

ViewSpec == Blank /\ [][ViewNext]_viewVars
=============================================================================
