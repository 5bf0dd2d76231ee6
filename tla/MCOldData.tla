----------------------------- MODULE MCOldData -----------------------------
(* What older versions left behind: receipts of protocol v2 (LegacySync), the *)
(* database of an older backend (BackendUpgrade) and that of an older POS     *)
(* (PosUpgrade).  They share no variable, so the first state picks the group  *)
(* that moves and TLC explores the sum of their states instead of the product.*)
(*                                                                            *)
(* Of the old backend: a commitment with cents left, and one that was closed  *)
(* without evidence; two payments that name one index, of which one was       *)
(* downgraded, another that was downgraded, and a receipt nobody can read.    *)
EXTENDS MCLegacySync, BackendUpgrade, PosUpgrade

CONSTANTS c1, c2, p1, p2, p3, p4, p5, u1, u2, up1, up2

VARIABLE group

Payment(c, o, i, readable) == [of |-> c, op |-> o, index |-> i, readable |-> readable]

MCContracts == {c1, c2}
MCWalletOf == (c1 :> "wallet-1") @@ (c2 :> "wallet-2")
MCOldRow == (c1 :> [reserved |-> 5, emitted |-> 3, closed |-> FALSE])
         @@ (c2 :> [reserved |-> 2, emitted |-> 1, closed |-> TRUE])
MCDamaged == {Payment(c1, p1, 1, TRUE), Payment(c1, p3, 2, TRUE)}
MCHistory == MCDamaged \cup {Payment(c1, p2, 1, TRUE), Payment(c2, p4, 1, FALSE)}
MCLateClaims == {[of |-> c1, op |-> p5, index |-> 2]}
MCUsers == {u1, u2}
MCStarters == {up1, up2}

OldDataInit ==
    /\ group \in {"receipts", "backend", "pos"}
    /\ Init
    /\ IF group = "backend"
       THEN UpgradeInit
       ELSE /\ made = {} /\ account = <<>> /\ claims = {} /\ review = {}
            /\ users = {} /\ restored = {} /\ listed = {} /\ stage = "down"
    /\ PosUpgradeInit /\ (group # "pos" => version = Latest)

OldDataNext ==
    \/ group = "receipts" /\ Next /\ UNCHANGED <<upgradeVars, posUpgradeVars, group>>
    \/ group = "backend" /\ UpgradeNext /\ UNCHANGED <<vars, posUpgradeVars, group>>
    \/ group = "pos" /\ PosUpgradeNext /\ UNCHANGED <<vars, upgradeVars, group>>

OldDataSpec ==
    OldDataInit /\ [][OldDataNext]_<<vars, upgradeVars, posUpgradeVars, group>>
=============================================================================
