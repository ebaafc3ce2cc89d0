----------------------------- MODULE MCRsgSeen -----------------------------
(***************************************************************************)
(* RsgGenerator with a history: which rules were ever chosen.              *)
(***************************************************************************)
EXTENDS MCRsg

(* The rules that any PathNode was given so far. *)
VARIABLE chosen
ChosenInit == Init /\ chosen = {}
ChosenNext ==
    /\ Next
    /\ chosen' = chosen \cup ({heap'[n].rule : n \in DOMAIN heap'} \ {NoRule})
ChosenSpec == ChosenInit /\ [][ChosenNext]_<<vars, chosen>>

(* A rule counts as seen only if it was chosen: "If the current root       *)
(* contains unseen rules, 50% chance, prioritize these unseen rule first." *)
SeenWasChosen ==
    \A r \in Rules : Edge({}, r) \in edges => r \in chosen
=============================================================================
