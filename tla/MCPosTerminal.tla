--------------------------- MODULE MCPosTerminal ---------------------------
(* One operation, two trusted phones and one of another issuer, two workers. *)
EXTENDS PosTerminal, TLC

CONSTANTS op1, p1, p2, p3, w1, w2

MCOps == {op1}
MCPhones == {p1, p2, p3}
MCTrusted == {p1, p2}
MCWorkers == {w1, w2}
MCStamps == {1, 2}
=============================================================================
