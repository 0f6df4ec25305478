--------------------------- MODULE MCDirectiveAudit ---------------------------
EXTENDS DirectiveAudit
CONSTANTS m1, m2, high
(* Both models offer the one rung of the instance.  Its lower tier stands  *)
(* for FAST and SUPP, which only differ in the touchpoints that ask for    *)
(* them.                                                                   *)
MCOffered == [m \in {m1, m2} |-> {high}]
===============================================================================
