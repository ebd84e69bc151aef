------------------------------ MODULE AdminApp ------------------------------
(* The administrators' application as one instance: a tab shows the settings page, the users  *)
(* page or one of Console's screens, and these share no state of the browser nor any row of   *)
(* the database, so a behaviour is one of Settings, one of Accounts or one of Console.        *)
EXTENDS Console, Settings, Accounts

VARIABLE route    \* the part of the application that was opened

\* The users table has one content only where nothing looks at it.
AdminInit ==
    /\ ConsoleInit /\ Init /\ AccountsInit /\ route \in {"console", "settings", "accounts"}
    /\ route # "accounts" => Self /\ colleagues = 0

AdminNext ==
    \/ route = "console" /\ ConsoleNext /\ UNCHANGED <<vars, accountVars, route>>
    \/ route = "settings" /\ Next /\ UNCHANGED <<consoleVars, accountVars, route>>
    \/ route = "accounts" /\ AccountsNext /\ UNCHANGED <<consoleVars, vars, route>>

AdminSpec == AdminInit /\ [][AdminNext]_<<consoleVars, vars, accountVars, route>>
=============================================================================
