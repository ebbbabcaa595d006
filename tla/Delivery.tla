------------------------------ MODULE Delivery ------------------------------
(***************************************************************************)
(* What a caller does with the receipt of a run: it may sign it, attach    *)
(* one more observation, before or after it has signed, and submit it to   *)
(* the Control Center, again when it does not know whether it arrived.     *)
(* Who issues the receipt, and when the caller takes these steps, is left  *)
(* open here; Verification says it.                                        *)
(***************************************************************************)
EXTENDS ControlCenter

CONSTANTS
    SigningKey,  \* the encoded signing key
    Configs      \* the configurations of the client

VARIABLES
    receipt,  \* the receipt the caller holds
    amended   \* history: the receipt was changed after it was signed

delivery == <<receipt, amended, control>>

DeliveryInit == receipt = {} /\ amended = FALSE /\ ControlInit

\* The executor returns a receipt: unsigned, and with its own digest.
Issue ==
    /\ receipt = {}
    /\ \E r \in receipt' : receipt' = {r} /\ IsReceipt(r) /\ r.signature = {} /\ verify_digest(r)
    /\ UNCHANGED <<amended, control>>

SignReceipt ==
    /\ \E r \in receipt, service \in from_base64(SigningKey) :
           /\ r.signature = {}
           /\ receipt' = {sign(with_key_id(r, key_id(service)), service)}
    /\ amended' = FALSE
    /\ UNCHANGED control

AmendReceipt(state) ==
    /\ \E r \in receipt :
           /\ receipt' = {with_observation(r, state)}
           /\ amended' = (amended \/ r.signature # {})
    /\ UNCHANGED control

Submit(config) ==
    /\ \E r \in receipt : SubmitReceipt(r, config)
    /\ UNCHANGED <<receipt, amended>>

Network ==
    /\ ServerRecords \/ ServerRefuses \/ RequestLost \/ ReceiveAnswer \/ SendFails \/ SubmitTimesOut
    /\ UNCHANGED <<receipt, amended>>

\* What is attached is whatever the receipt has last afterwards.
DeliveryNext ==
    \/ Issue \/ SignReceipt
    \/ \E r \in receipt' : r.observations # <<>> /\ AmendReceipt(Last(r.observations))
    \/ \E config \in Configs : Submit(config)
    \/ Network

DeliverySpec == DeliveryInit /\ [][DeliveryNext]_delivery

-----------------------------------------------------------------------------
\* However often a receipt is submitted, and whichever requests arrive late,
\* the Control Center records its content once.
RecordedOnce ==
    \A i, j \in DOMAIN recorded :
        i # j => canonical_data(recorded[i].body.receipt) # canonical_data(recorded[j].body.receipt)

\* A receipt carries its own digest at every moment, a signature is valid
\* exactly until the receipt is amended, and what was recorded without
\* redactions of covered fields can be checked by whoever reads it.
ReceiptAuthentic ==
    /\ \A r \in receipt :
           /\ verify_digest(r)
           /\ r.signature # {} => \A service \in from_base64(SigningKey) :
                                      verify(r, service) = "valid" <=> ~amended
    /\ \A i \in DOMAIN recorded :
           recorded[i].body.redacted \cap (DigestFields \cup {"digest"}) = {}
               => /\ verify_digest(recorded[i].body.receipt)
                  /\ recorded[i].key = recorded[i].body.receipt.digest

=============================================================================
