------------------------------ MODULE MCIngress ------------------------------
(***************************************************************************)
(* Three requests, two of them with the same slug, and an API that creates *)
(* tasks of the same ids and sends keys of its own and one request_id.     *)
(***************************************************************************)
EXTENDS Ingress

CONSTANTS r1, r2, r3, k1, t1, t2

MCRequests == {r1, r2, r3}
MCApiKeys  == {k1, r3}
MCTaskIds  == {t1, t2}
MCSlug     == [r \in MCRequests |-> IF r = r3 THEN t2 ELSE t1]
===============================================================================
