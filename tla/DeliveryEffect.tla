--------------------------- MODULE DeliveryEffect ---------------------------
(***************************************************************************)
(* What the delivery ledger promises for every effect key, without queue   *)
(* rows, leases, attempts or workers: a message is delivered at most once, *)
(* never after the key was closed, and the verdict a key is closed with is *)
(* final and agrees with what happened.                                    *)
(*                                                                         *)
(* The promise has one exception.  A delivery whose answer is misread as a *)
(* failure is forgotten: the message may be delivered again, and what      *)
(* becomes known of the forgotten delivery may close the key before that.  *)
(***************************************************************************)
CONSTANTS Keys,  \* effect keys
          Ids    \* identities a submission can have

VARIABLES delivered,  \* the submissions that were delivered and not forgotten, per key
          misread,    \* the delivered submissions that were forgotten, per key
          verdict     \* how the key was closed

avars == <<delivered, misread, verdict>>

EffectInit ==
    /\ delivered = [k \in Keys |-> {}]
    /\ misread = [k \in Keys |-> {}]
    /\ verdict = [k \in Keys |-> "open"]

\* Nothing is known to be delivered, and a closed key owes that to a misread answer.
MayDeliver(k) ==
    /\ delivered[k] = {}
    /\ verdict[k] = "open" \/ misread[k] # {}

\* The message is delivered and stays delivered.
Deliver(k) ==
    /\ MayDeliver(k)
    /\ \E id \in Ids : delivered' = [delivered EXCEPT ![k] = {id}]
    /\ UNCHANGED <<misread, verdict>>

\* The message is delivered and the answer misread.
Misread(k) ==
    /\ MayDeliver(k)
    /\ \E id \in Ids : misread' = [misread EXCEPT ![k] = misread[k] \cup {id}]
    /\ UNCHANGED <<delivered, verdict>>

\* The key is closed: confirmed only what was delivered, withheld only what is not known to be.
Close(k) ==
    /\ verdict[k] = "open"
    /\ \/ delivered[k] \cup misread[k] # {} /\ verdict' = [verdict EXCEPT ![k] = "confirmed"]
       \/ delivered[k] = {} /\ verdict' = [verdict EXCEPT ![k] = "withheld"]
       \/ verdict' = [verdict EXCEPT ![k] = "failed"]
    /\ UNCHANGED <<delivered, misread>>

EffectNext == \E k \in Keys : Deliver(k) \/ Misread(k) \/ Close(k)

EffectSpec == EffectInit /\ [][EffectNext]_avars
=============================================================================
