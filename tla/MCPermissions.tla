--------------------------- MODULE MCPermissions ----------------------------
(* Instances of Permissions for TLC: SPORE has an admin command Sa; a node *)
(* n has an admin command na, a standard one ns, which the hub's own       *)
(* callers may always ask for, and a protected one np; the entry x is a    *)
(* suffix of Sa, na and ns.                                                *)
EXTENDS Permissions, TLC

CONSTANTS S, n, Sa, na, ns, np, x

MCOwner == [c \in Cap |-> IF c = Sa THEN S ELSE n]
MCRisk == [c \in Cap |-> IF c \in {Sa, na} THEN "admin"
                         ELSE IF c = np THEN "protected" ELSE "standard"]
MCCovers == [e \in Entry |-> Cap \cap {Sa, na, ns}]
MCExempt == {<<S, c>> : c \in Cap \cap {ns}}
Symmetry == Permutations(Call)
=============================================================================
