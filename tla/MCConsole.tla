----------------------------- MODULE MCConsole -----------------------------
(***************************************************************************)
(* Two runs with two versions after the first, and a tab that remembers    *)
(* two keys and shows one notice of a snapshot; three reminders, two of    *)
(* which fill an answer; two previews; three authorizations.               *)
(***************************************************************************)
EXTENDS Console, TLC

CONSTANTS w1, w2, n1, n2, n3, m1, m2, a1, a2, a3, c1, c2

MCWorkflows == {w1, w2}
MCStatuses == {"ACTIVE", "AWAITING_APPROVAL"}
MCNotes == {n1, n2, n3}
MCDueAt == n1 :> 0 @@ n2 :> 0 @@ n3 :> 1
MCPreviews == {m1, m2}
MCAuthorizations == {a1, a2, a3}
MCCalls == {c1, c2}

Symmetry ==
    Permutations(MCWorkflows) \cup Permutations(MCPreviews)
      \cup Permutations(MCAuthorizations) \cup Permutations(MCCalls)
=============================================================================
