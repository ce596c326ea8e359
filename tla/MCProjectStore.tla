--------------------------- MODULE MCProjectStore ---------------------------
(* Small instances of ProjectStore and CiExport for TLC.                    *)
EXTENDS CiExport, TLC

CONSTANTS j1, j2, p1

TwoJobs      == {j1, j2}
OnePromotion == {p1}

JobSymmetry == Permutations(Jobs)

Traffic(kinds, together, mappings) ==
    [kinds |-> kinds, together |-> together, mappings |-> mappings]

\* Everything but exports, with promotions and clearing alone; comparisons,
\* promotions and clearing in any interleaving; and exports, which archiving
\* may interrupt.
Project == Traffic(Kinds \ {"export"}, {"compare", "edit"}, {"envelope"})
Mixed   == Traffic(Kinds \ {"export", "crash"}, {"compare", "promote", "clear"},
                   {"envelope", "partial"})
Export  == Traffic(Kinds \ {"clear", "crash"}, {"promote", "edit", "export"},
                   {"envelope"})
AllTraffics == {Project, Mixed, Export}

=============================================================================
