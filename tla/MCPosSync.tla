----------------------------- MODULE MCPosSync -----------------------------
(* Two operations, of which the backend refuses one and an older version may *)
(* have reported the other; two workers, each of its own window.             *)
EXTENDS PosSync, TLC

CONSTANTS o1, o2, x1, x2

MCOps == {o1, o2}
MCInvalid == {o2}
MCWorkers == {1, 2}
MCWindows == {x1, x2}
MCOtherWindow == (1 :> x1) @@ (2 :> x2)
=============================================================================
