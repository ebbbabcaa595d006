---------------------------- MODULE SignedReceipt ----------------------------
(***************************************************************************)
(* Receipt and SigningService.  A digest is the content it was computed    *)
(* from (SHA-256 without collisions), a signature the key and the content  *)
(* (Ed25519 without forgeries); version and timestamp never change after   *)
(* construction and are left out.  Options are sets.                       *)
(***************************************************************************)
EXTENDS Sequences, Functions

\* What canonical_data and SigningService::canonicalize cover: the signature
\* leaves out the contract version and the idempotency key.
SignedFields == {"id", "action_id", "contract_id", "result", "attempts",
                 "observations", "postcondition_results"}
DigestFields == SignedFields \cup {"contract_version", "idempotency_key"}
OptionalFields == {"key_id", "idempotency_key", "signature"}

\* The fields of a Receipt that are modelled.
ReceiptFields == DigestFields \cup {"digest", "key_id", "signature"}
IsReceipt(receipt) ==
    /\ receipt = [f \in ReceiptFields |-> receipt[f]]
    /\ receipt.observations \in Seq(Range(receipt.observations))

canonical_data(receipt) == Restrict(receipt, DigestFields)
canonicalize(receipt) == Restrict(receipt, SignedFields)

with_digest(receipt) == [receipt EXCEPT !.digest = canonical_data(receipt)]
verify_digest(receipt) == receipt.digest = canonical_data(receipt)

with_contract_version_and_key(action_id, contract_id, contract_version, result, attempts, key) ==
    with_digest([id |-> <<action_id, attempts>>, action_id |-> action_id,
                 contract_id |-> contract_id, contract_version |-> contract_version,
                 result |-> result, attempts |-> attempts, observations |-> <<>>,
                 postcondition_results |-> <<>>, digest |-> <<>>, key_id |-> {},
                 idempotency_key |-> key, signature |-> {}])

\* Mutant: the digest is not computed again.
with_observation_only(receipt, observation) ==
    [receipt EXCEPT !.observations = Append(@, observation)]

with_observation(receipt, observation) ==
    with_digest([receipt EXCEPT !.observations = Append(@, observation)])

\* Mutant: the digest is not computed again.
with_postcondition_results_only(receipt, results) ==
    [receipt EXCEPT !.postcondition_results = @ \o results]

\* with_postcondition_result for every detail, in order.
with_postcondition_results(receipt, results) ==
    with_digest([receipt EXCEPT !.postcondition_results = @ \o results])

\* Ed25519SigningService: the verifying key is the one that belongs to the seed.
from_seed(seed) == [signing_key |-> seed, verifying_key |-> seed]

\* An encoded key that is no base64, or not 32 bytes, is refused.
from_base64(encoded) ==
    IF encoded.base64 /\ encoded.bytes = 32 THEN {from_seed(encoded.seed)} ELSE {}

key_id(service) == service.verifying_key

with_key_id(receipt, key) == [receipt EXCEPT !.key_id = {key}]

\* SigningService::sign and Receipt::sign.
sign(receipt, service) ==
    [receipt EXCEPT !.signature = {[key |-> service.signing_key, content |-> canonicalize(receipt)]}]

verify(receipt, service) ==
    IF receipt.signature = {} THEN "MissingKey"
    ELSE IF receipt.signature = {[key |-> service.verifying_key, content |-> canonicalize(receipt)]}
         THEN "valid" ELSE "invalid"
=============================================================================
