-------------------------- MODULE MCDeliveryLedger --------------------------
(***************************************************************************)
(* Instances of DeliveryLedger for TLC.                                    *)
(***************************************************************************)
EXTENDS DeliveryLedger
=============================================================================
