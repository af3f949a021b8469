-------------------------------- MODULE MCAuth --------------------------------
(* Authentication: accounts and sessions (Sessions) and the login flows of  *)
(* OIDC (OidcFlows). They share no variable, a completed flow enters        *)
(* Sessions as the login of an external account: in a behaviour one of them *)
(* moves.                                                                   *)
EXTENDS Sessions, OidcFlows, TLC
CONSTANTS bob, sub, h1, h2, f1, f2, f3, b1, b2, c1, c2
VARIABLE focus

MCInit == Init /\ FlowsInit /\ focus \in {"sessions", "oidc"}
MCNext == /\ UNCHANGED focus
          /\ \/ focus = "sessions" /\ Next /\ UNCHANGED flowVars
             \/ focus = "oidc" /\ FlowsNext /\ UNCHANGED vars
MCSpec == MCInit /\ [][MCNext]_<<vars, flowVars, focus>>

RequestSymmetry == Permutations(Requests)
===============================================================================
