----------------------------- MODULE MCAdminApp -----------------------------
(* A small instance of the administrators' application. *)
EXTENDS AdminApp, TLC

CONSTANTS p1, p2, l1, f1, d1, d2, x1

\* Nothing is chosen among the settings pages.
PageSymmetry == Permutations(Pages)
\* States are told apart by the part that is open: the others stay as Init leaves them.
OpenPart ==
    CASE route = "console" -> <<route, consoleVars>>
      [] route = "settings" -> <<route, vars>>
      [] route = "accounts" -> <<route, accountVars>>
=============================================================================
