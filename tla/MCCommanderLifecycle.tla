------------------------ MODULE MCCommanderLifecycle ------------------------
(* Finite instances of CommanderLifecycle for TLC. *)
EXTENDS CommanderLifecycleInv, TLC

CONSTANTS p1, p2, p3, a1, a2

MCCommander == {1, 2}

Symmetry == Permutations(Proc) \cup Permutations(Automation)

\* Liveness is checked without a symmetry set.  The automations are still
\* interchangeable, so one initial state of each pair of mirrored ones will do.
Rank(d) == CASE d = Absent -> 0 [] d = NoParent -> 3 [] OTHER -> d

LiveInit == Init /\ Rank(owner[a1]) <= Rank(owner[a2])

LiveSpec == LiveInit /\ [][Next]_vars /\ \A p \in Proc : WF_vars(Step(p))
=============================================================================
