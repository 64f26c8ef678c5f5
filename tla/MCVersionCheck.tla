--------------------------- MODULE MCVersionCheck ---------------------------
(***************************************************************************)
(* A few processes over a day of two ticks for VersionCheck.          *)
(***************************************************************************)
EXTENDS VersionCheck

CONSTANTS p1, p2

Processes == {p1, p2}

\* One process after the other.
OneProcess == {p1}
=============================================================================
