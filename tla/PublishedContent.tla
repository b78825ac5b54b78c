--------------------------- MODULE PublishedContent ---------------------------
(***************************************************************************)
(* What an upload promises to every reader of the tree, whatever happens   *)
(* behind it: content appears under a key at once and whole, together with *)
(* its node, and is then neither changed nor taken away.                   *)
(***************************************************************************)
EXTENDS Integers

CONSTANTS Keys, Bytes, Nothing

VARIABLE visible  \* what a reader of the tree finds under each key

Init == visible = [k \in Keys |-> Nothing]

Publish(k) ==
    /\ visible[k] = Nothing
    /\ visible'[k] \in Bytes
    /\ visible' = [visible EXCEPT ![k] = visible'[k]]

Next == \E k \in Keys : Publish(k)

Spec == Init /\ [][Next]_visible
=============================================================================
