----------------------------- MODULE Membership -----------------------------
(***************************************************************************)
(* What the router and its workers promise about the registry, whatever    *)
(* threads, wires and crashes lie between: an id stands for one worker at  *)
(* a time, and a worker that has left after unregister or exit never comes *)
(* back.                                                                   *)
(***************************************************************************)
CONSTANTS Life, IdOf

VARIABLES members,   \* the lives in the registry
          departed   \* the lives that have left for good

Init == members = {} /\ departed = {}

Join(l) == /\ l \notin departed
           /\ \A m \in members : IdOf[m] # IdOf[l]
           /\ members' = members \cup {l}
           /\ UNCHANGED departed

(* Some leave, all at once when the router dies, and with that or later    *)
(* some of those who are not members are known never to return.            *)
Leave == /\ members' \subseteq members
         /\ departed \subseteq departed'
         /\ departed' \subseteq Life \ members'

Next == Leave \/ \E l \in Life : Join(l)

Spec == Init /\ [][Next]_<<members, departed>>
=============================================================================
