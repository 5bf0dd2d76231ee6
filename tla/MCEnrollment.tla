---------------------------- MODULE MCEnrollment ----------------------------
(* Two workers, two tills that were left with the same names, two merchants,  *)
(* and the phone of one client.                                              *)
EXTENDS Enrollment, TLC

CONSTANTS w1, w2, p1, p2, m1, m2, c1, t1, kp, kw, pub1, pub2, pubw

MCThreads == {w1, w2}
MCMerchants == {m1, m2}
MCClients == {c1}
MCTerminals == {t1}
MCKeyIds == {kp, kw}
MCPubKeys == {pub1, pub2, pubw}
MCTills == {p1, p2}
MCConfig == [p \in MCTills |-> [terminal |-> t1, key |-> kp]]
MCStaff == (p1 :> {m1}) @@ (p2 :> {m2})
MCPhones == [c \in MCClients |->
    [key |-> kw, purpose |-> "wallet", user |-> c, scope |-> c, pub |-> pubw]]

=============================================================================
