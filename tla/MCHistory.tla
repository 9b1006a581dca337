------------------------------ MODULE MCHistory -----------------------------
(* Two consoles and one history page. *)
EXTENDS History

CONSTANTS c1, c2, h1

\* one script is launched, at most, while the pages are used
FewLaunches == \A p \in Histories : started <= seen[p].upto + 1
=============================================================================
