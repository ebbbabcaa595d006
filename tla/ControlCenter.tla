---------------------------- MODULE ControlCenter ----------------------------
(***************************************************************************)
(* ControlCenterClient and, external, the server it submits receipts to.   *)
(* A body is the receipt with the set of its fields that were redacted.    *)
(* Requests and answers may be lost or delayed beyond the timeout; a       *)
(* caller that does not know whether its receipt arrived submits it again. *)
(***************************************************************************)
EXTENDS Integers, FiniteSets, SignedReceipt, SequencesExt

CONSTANTS
    MaxTries,      \* bound on the submissions of one caller
    MaxReceiptSize, \* the default size limit, in observations
    Token          \* the bearer token the server accepts

VARIABLES
    requests,   \* the requests on their way, each with the number of its try
    answers,    \* the answers on their way: [try, status]
    recorded,   \* the bodies the server has recorded, in order, with their keys
    tries,      \* the submissions made
    response    \* what the last submission returned

control == <<requests, answers, recorded, tries, response>>

Responses == {"none", "waiting", "accepted", "rejected", "oversized", "unknown",
              "Unauthorized", "Forbidden", "HttpError", "ParseError"}

ControlInit ==
    /\ requests = {} /\ answers = {} /\ recorded = <<>>
    /\ tries = 0 /\ response = "none"

ControlCenterClientConfig ==
    [bearer_token |-> {}, max_receipt_size |-> MaxReceiptSize, redact_fields |-> {}]

with_bearer_token(config, token) == [config EXCEPT !.bearer_token = {token}]

with_redact_field(config, field) == [config EXCEPT !.redact_fields = @ \cup {field}]

\* Of ControlCenterClientBuilder: the configuration has no setter for the size.
max_receipt_size(config, size) == [config EXCEPT !.max_receipt_size = size]

\* redact_field goes into objects and not into arrays: only the receipt's own
\* fields are reached, and those that are None are not serialised.
redact_receipt(receipt, fields) ==
    [receipt |-> receipt,
     redacted |-> {f \in DOMAIN receipt : /\ f \in fields \/ "*" \in fields
                                          /\ f \in OptionalFields => receipt[f] # {}}]

IdempotencyKey(receipt) == receipt.digest

\* Mutant: every submission has a key of its own.
SubmitWithFreshKey(receipt, config) ==
    /\ response # "waiting" /\ tries < MaxTries
    /\ tries' = tries + 1
    /\ response' = "waiting"
    /\ requests' = requests \cup {[try |-> tries', key |-> <<receipt.digest, tries'>>,
                                   token |-> config.bearer_token,
                                   body |-> redact_receipt(receipt, config.redact_fields)]}
    /\ UNCHANGED <<answers, recorded>>

\* submit_receipt up to the send.
SubmitReceipt(receipt, config) ==
    /\ response # "waiting" /\ tries < MaxTries
    /\ tries' = tries + 1
    /\ IF Len(receipt.observations) > config.max_receipt_size
       THEN response' = "oversized" /\ UNCHANGED requests
       ELSE /\ response' = "waiting"
            /\ requests' = requests \cup {[try |-> tries', key |-> IdempotencyKey(receipt),
                                           token |-> config.bearer_token,
                                           body |-> redact_receipt(receipt, config.redact_fields)]}
    /\ UNCHANGED <<answers, recorded>>

\* The server takes a body with a good token, and records it once for each key.
ServerRecords ==
    \E r \in requests :
        /\ r.token = {Token}
        /\ requests' = requests \ {r}
        /\ recorded' = IF \E i \in DOMAIN recorded : recorded[i].key = r.key THEN recorded
                       ELSE Append(recorded, [key |-> r.key, body |-> r.body])
        /\ answers' = answers \cup {[try |-> r.try, status |-> "accepted"]}
        /\ UNCHANGED <<tries, response>>

\* It refuses the receipt or the credentials, or fails: nothing is recorded.
ServerRefuses ==
    \E r \in requests, status \in {"rejected", "Unauthorized", "Forbidden", "ParseError"} :
        /\ requests' = requests \ {r}
        /\ answers' = answers \cup {[try |-> r.try, status |-> status]}
        /\ UNCHANGED <<recorded, tries, response>>

RequestLost ==
    \E r \in requests : requests' = requests \ {r} /\ UNCHANGED <<answers, recorded, tries, response>>

\* submit_receipt from the status on; the connection carries this try only.
ReceiveAnswer ==
    /\ response = "waiting"
    /\ \E a \in answers : a.try = tries /\ response' = a.status
    /\ UNCHANGED <<requests, answers, recorded, tries>>

\* The send fails, with or without the request having reached the server.
SendFails ==
    /\ response = "waiting"
    /\ response' = "HttpError"
    /\ UNCHANGED <<requests, answers, recorded, tries>>

\* submit_receipt_with_unknown_on_timeout: not accepted, status unknown.
SubmitTimesOut ==
    /\ response = "waiting"
    /\ response' = "unknown"
    /\ UNCHANGED <<requests, answers, recorded, tries>>
=============================================================================
