------------------------------ MODULE MCRbac ------------------------------
(* Policies: no role section at all; a section for restricted that allows  *)
(* all tools but one and has a level, or denies one and has none; and      *)
(* FloorPolicy: a section for restricted that restricts nothing, beside a  *)
(* section for a custom role.                                              *)
EXTENDS Rbac, TLC

Rc(allowed, deny, level) == [allowed |-> allowed, deny |-> deny, level |-> level]

FloorPolicy == {("restricted" :> Rc({}, {}, -1)) @@ ("devops" :> Rc(Tool, {}, -1))}

Policies ==
    {<<>>} \cup FloorPolicy \cup
    UNION {{"restricted" :> Rc(Tool \ {t}, {}, 1), "restricted" :> Rc(Tool, {t}, -1)} :
              t \in Tool}

AllAssignments == [Tool -> Level]

Symmetry == Permutations(Call) \cup Permutations(Tool) \cup Permutations(Session)
=============================================================================
