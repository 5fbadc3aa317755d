---------------------------- MODULE MCDeliveries ----------------------------
(* TLC's instance of Deliveries: the names of hook calls; an Android and   *)
(* an iOS device that are registered at first, and an Android one that is  *)
(* not; every date, and the flag alone and with a date.                    *)
EXTENDS Deliveries
CONSTANTS a1, a2, i1, n1, u1
MCCallIds == {n1} \X (0 .. MaxSends) \X (1 .. Cardinality(Rows))
MCFirstOwners == {[t \in Tokens |-> IF t = a2 THEN None ELSE u1]}
MCPatches ==
  [optOut : {None}, acceptedAt : Dates] \cup
  [optOut : {TRUE}, acceptedAt : {None, Today}]
=============================================================================
