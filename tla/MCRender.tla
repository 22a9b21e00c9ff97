------------------------------ MODULE MCRender -------------------------------
(***************************************************************************)
(* Two renders of one scrape for TLC.  The first: a document that arrives  *)
(* unsized and redirects once too often, and an unsized image the idle     *)
(* probe does not see.  The second: a document of known length that has    *)
(* one request more than the cap leaves it, then a forbidden document.     *)
(***************************************************************************)
EXTENDS RenderGuard

MCRequest == {"doc", "hop", "image", "again", "gone", "late"}
MCRenderOf == [r \in MCRequest |-> IF r \in {"again", "gone", "late"} THEN 2 ELSE 1]
MCSize == [r \in MCRequest |-> CASE r = "image" -> 2
                                 [] r \in {"doc", "again"} -> 1
                                 [] OTHER -> 0]
MCDeclared == [r \in MCRequest |-> IF r = "again" THEN 1 ELSE 0]
MCMaterialized == {"doc", "image"}
MCTopDocument == {"doc", "hop", "again", "gone"}
MCUntracked == {"image"}
MCForbidden == {"gone"}

(* The budget as its own specification, everything else hidden.            *)
Budget == INSTANCE RenderBudget

(* The budget that the event thread, the body threads and several renders  *)
(* share never overspends, never loses a charge and never recovers once    *)
(* exhausted (lib.rs:324-327, "none can reset the configured caps").       *)
ImplementsBudget == Budget!Spec
=============================================================================
