--------------------------- MODULE MCAuditSinks ---------------------------
(* One sink that takes everything and one whose filter drops an entry.     *)
EXTENDS AuditSinks, TLC

CONSTANTS s1, s2, e1

OneWanted == (s1 :> Entry)
TwoWanted == (s1 :> Entry) @@ (s2 :> Entry \ {e1})
=============================================================================
