---------------------------- MODULE MCEndpoints ----------------------------
(* Two groups of endpoints of main.py: external topups (ExternalTopup) and    *)
(* logins (LoginThrottle; two threads, two users, locked after two failures). *)
(* They share no variable, so the first state picks the group that moves and  *)
(* TLC explores the sum of their states instead of the product.  Only logins  *)
(* are fair: of topups the run checks safety.                                 *)
EXTENDS MCExternalTopup, LoginThrottle

VARIABLE group

EndpointsInit == Init /\ LoginInit /\ group \in {"topup", "login"}

EndpointsNext ==
    \/ group = "topup" /\ Next /\ UNCHANGED <<loginVars, group>>
    \/ group = "login" /\ LoginNext /\ UNCHANGED <<vars, group>>

EndpointsSpec ==
    EndpointsInit /\ [][EndpointsNext]_<<vars, loginVars, group>> /\ LoginFairness
=============================================================================
