---------------------------- MODULE Verification ----------------------------
(***************************************************************************)
(* One verification from end to end: a contract is loaded, the executor    *)
(* observes the system of record and evaluates the postconditions on what  *)
(* it got, and the receipt is signed and submitted, or becomes the exit    *)
(* code of the command line.  Claims, dispatch outcomes and concurrency    *)
(* are the business of Executor; here the data is what matters: is the     *)
(* verdict true of the resource the observer was asked about?              *)
(***************************************************************************)
EXTENDS Observers, Delivery

CONSTANTS
    Inputs,      \* the invocations: [front, source, file, url_ok, args, observer,
                 \* submits, config]; submits: the caller goes on with the receipt
    Resources,   \* what the system of record may hold: Options of a document
    MaxRetries,  \* ExecutorConfig::max_retries
    MaxChanges,  \* bound on the changes made by others
    ActionId

VARIABLES
    input,     \* how the program was called
    resource,  \* what the system of record holds
    pc,        \* the next step of the caller
    attempts,  \* the attempts of the executor
    loaded,    \* the contract, or the error of load_file
    evidence,  \* the state of the last observation
    seen,      \* history: the resource at the last observation
    verdict,   \* the VerificationResult, "error" for an Err
    details,   \* the postcondition results of the last evaluation
    exit,      \* the exit code
    changes

run == <<pc, attempts, loaded, evidence, seen, verdict, details, exit>>
vars == <<input, resource, changes, run, delivery>>

NoExit == 255

Init ==
    /\ input \in Inputs /\ resource \in Resources
    /\ pc = "start" /\ attempts = 0 /\ loaded = [none |-> TRUE]
    /\ evidence = {} /\ seen = {} /\ verdict = "none" /\ details = <<>>
    /\ exit = NoExit /\ changes = 0
    /\ DeliveryInit

contract == loaded.contract
Args == CHOOSE a \in input.args : TRUE

\* Action::new and Action::with_idempotency; the command line makes a key from the
\* contract and the arguments.
NewAction(arguments) == [id |-> ActionId, arguments |-> arguments, idempotency_key |-> {}]
with_idempotency(arguments, key) == [NewAction(arguments) EXCEPT !.idempotency_key = {key}]
action == IF input.front = "verify" THEN with_idempotency(Args, <<contract.id, Args>>)
          ELSE NewAction(Args)

\* An observer whose pool cannot be made is not handed to the caller.
HasObserver == input.observer.kind = "postgres" => Pool(input.observer) # {}
Observation(answer) ==
    observe(input.observer, action.id, contract.action_name, resource, answer)

Result(postconditions, state) ==
    [i \in DOMAIN postconditions |-> evaluate(postconditions[i].predicate, state, action.arguments)]

\* verify_postconditions: an error of the engine, or the aggregate of the results.
verify_postconditions(postconditions, state) ==
    LET results == Result(postconditions, state)
        failed == {i \in DOMAIN results : results[i] # "Verified"}
    IN  CASE \E i \in DOMAIN results : results[i] = "RegexError" -> "error"
          [] failed = {} -> "Verified"
          [] \E i \in failed : postconditions[i].mandatory -> "Failed"
          [] OTHER -> "Partial"

validate_preconditions(preconditions, state) ==
    \A i \in DOMAIN preconditions : Result(preconditions, state)[i] = "Verified"

should_retry(n) ==
    IF contract.recovery = {} THEN n < MaxRetries
    ELSE \E r \in contract.recovery : r.strategy # "NoAction" /\ n < r.max_attempts

\* create_receipt, and create_receipt_with_observation for a verified run.
CreateReceipt(result, n, observed, results) ==
    LET bare == with_contract_version_and_key(action.id, contract.id, contract.schema_version,
                                              result, n, action.idempotency_key)
        seeing == IF observed = {} THEN bare
                  ELSE with_observation(bare, CHOOSE s \in observed : TRUE)
    IN  with_postcondition_results(seeing, results)

Returns(result, n, observed, results) ==
    /\ verdict' = result /\ details' = results /\ pc' = "returned"
    /\ receipt' = IF result = "error" THEN {} ELSE {CreateReceipt(result, n, observed, results)}

-----------------------------------------------------------------------------
\* The exit code of `contract validate` for what load_file returned.
ValidateExit(result) ==
    IF IsErr(result) THEN IF result.error.kind = "IoError" THEN 1 ELSE 2
    ELSE IF validate(result.contract) = {} THEN 0 ELSE 2

validate_contract_cmd ==
    /\ pc = "start" /\ input.front = "validate"
    /\ loaded' = load_file(input.file)
    /\ exit' = ValidateExit(loaded')
    /\ pc' = "done"
    /\ UNCHANGED <<input, resource, changes, attempts, evidence, seen, verdict, details, delivery>>

\* verify_contract_cmd up to the executor: URL, file and arguments, in this order.
verify_contract_cmd ==
    /\ pc = "start" /\ input.front = "verify"
    /\ loaded' = IF input.url_ok THEN load_file(input.file) ELSE loaded
    /\ IF ~input.url_ok \/ IsErr(loaded') \/ input.args = {}
       THEN exit' = 1 /\ pc' = "done"
       ELSE exit' = exit /\ pc' = "attempt"
    /\ UNCHANGED <<input, resource, changes, attempts, evidence, seen, verdict, details, delivery>>

\* A library caller loads a file or builds the contract itself, which validates nothing;
\* the browser observes with such a contract and has no executor.
LibraryCall ==
    /\ pc = "start" /\ input.front \in {"library", "browser"}
    /\ loaded' = IF input.source = "file" THEN load_file(input.file)
                 ELSE [contract |-> Decode(input.file.text.document)]
    /\ pc' = IF IsErr(loaded') \/ ~HasObserver THEN "done" ELSE IF input.front = "browser" THEN "observe" ELSE "attempt"
    /\ UNCHANGED <<input, resource, changes, attempts, evidence, seen, verdict, details, exit, delivery>>

\* The head of the loop, for a contract without preconditions.
StartAttempt ==
    /\ pc = "attempt" /\ contract.preconditions = <<>>
    /\ attempts' = attempts + 1 /\ evidence' = {} /\ pc' = "dispatch"
    /\ UNCHANGED <<input, resource, changes, loaded, seen, verdict, details, exit, delivery>>

\* observe_pre_state and validate_preconditions: what cannot be observed or
\* evaluated is rejected, and so is every precondition without an observer.
CheckPreconditions ==
    /\ pc = "attempt" /\ contract.preconditions # <<>>
    /\ attempts' = attempts + 1 /\ evidence' = {}
    /\ \E answer \in Answers :
           LET states == IF input.observer.kind = "none" THEN {} ELSE Observation(answer)
           IN  IF \E s \in states : validate_preconditions(contract.preconditions, s)
               THEN pc' = "dispatch" /\ UNCHANGED <<verdict, details, receipt>>
               ELSE Returns("Failed", attempts', {}, details)
    /\ UNCHANGED <<input, resource, changes, loaded, seen, amended, exit, control>>

\* The action is carried out; SimulatedActionExecutor of the command line does nothing.
Dispatch ==
    /\ pc = "dispatch" /\ pc' = "observe"
    /\ resource' \in IF input.front = "verify" THEN {resource} ELSE Resources
    /\ UNCHANGED <<input, changes, attempts, loaded, evidence, seen, verdict, details, exit, delivery>>

\* Somebody else changes the resource.
Change ==
    /\ pc \in {"dispatch", "observe", "evaluate"} /\ changes < MaxChanges
    /\ changes' = changes + 1
    /\ resource' \in Resources \ {resource}
    /\ UNCHANGED <<input, run, delivery>>

\* Observer::observe, which the executor follows with the evaluation.
Observe ==
    /\ pc = "observe"
    /\ \E answer \in Answers :
           /\ Observation(answer) # {}
           /\ evidence' = Observation(answer)
    /\ seen' = resource
    /\ pc' = IF input.front = "browser" THEN "done" ELSE "evaluate"
    /\ UNCHANGED <<input, resource, changes, attempts, loaded, verdict, details, exit, delivery>>

\* An observer that fails ends the run as Unknown, with the details it has.
ObserveFails ==
    /\ pc = "observe"
    /\ ~Hangs(input.observer)
    /\ \E answer \in Answers : Observation(answer) = {}
    /\ IF input.front = "browser" THEN pc' = "done" /\ UNCHANGED <<verdict, details, receipt>>
       ELSE Returns("Unknown", attempts, {}, details)
    /\ UNCHANGED <<input, resource, changes, attempts, loaded, evidence, seen, amended, exit, control>>

\* The timeout of the executor drops the observation and the run.
ObserveTimesOut ==
    /\ pc = "observe" /\ input.front # "browser" /\ input.observer.kind # "none"
    /\ Returns("error", attempts, {}, details)
    /\ UNCHANGED <<input, resource, changes, attempts, loaded, evidence, seen, amended, exit, control>>

Evaluate ==
    /\ pc = "evaluate"
    /\ LET state == CHOOSE s \in evidence : TRUE
           result == verify_postconditions(contract.postconditions, state)
           results == [i \in DOMAIN contract.postconditions |->
                          Result(contract.postconditions, state)[i] = "Verified"]
       IN  CASE result = "error" -> Returns("error", attempts, {}, details)
             [] result = "Failed" /\ should_retry(attempts) ->
                    pc' = "attempt" /\ details' = results /\ UNCHANGED <<verdict, receipt>>
             [] OTHER -> Returns(result, attempts, IF result = "Verified" THEN evidence ELSE {}, results)
    /\ UNCHANGED <<input, resource, changes, attempts, loaded, evidence, seen, amended, exit, control>>

-----------------------------------------------------------------------------

ExitOf(result) ==
    CASE result \in {"Verified", "Duplicate"} -> 0
      [] result \in {"Failed", "Partial"} -> 2
      [] result = "Unknown" -> 3
      [] OTHER -> 1

Exit ==
    /\ pc = "returned" /\ input.front = "verify"
    /\ exit' = ExitOf(verdict) /\ pc' = "done"
    /\ UNCHANGED <<input, resource, changes, attempts, loaded, evidence, seen, verdict, details,
                   delivery>>

HasReceipt == pc = "returned" /\ input.submits /\ receipt # {}

Sign ==
    /\ HasReceipt /\ SignReceipt
    /\ UNCHANGED <<input, resource, changes, run>>

\* The caller attaches what it observes now.
Amend ==
    /\ HasReceipt /\ \A r \in receipt : Len(r.observations) < 2
    /\ \E state \in Observation("ok") : AmendReceipt(state)
    /\ UNCHANGED <<input, resource, changes, run>>

SubmitHeld ==
    /\ HasReceipt /\ Submit(input.config)
    /\ UNCHANGED <<input, resource, changes, run>>

NetworkStep == Network /\ UNCHANGED <<input, resource, changes, run>>

Next ==
    \/ validate_contract_cmd \/ verify_contract_cmd \/ LibraryCall
    \/ StartAttempt \/ CheckPreconditions \/ Dispatch \/ Change
    \/ Observe \/ ObserveFails \/ ObserveTimesOut \/ Evaluate
    \/ Exit \/ Sign \/ Amend \/ SubmitHeld \/ NetworkStep

Spec == Init /\ [][Next]_vars

-----------------------------------------------------------------------------
Document == CHOOSE v \in seen : TRUE

\* A predicate that reads a redacted place is about the redaction.
Meets(path, pointer) == IsPrefix(path, pointer) \/ IsPrefix(pointer, path)
Untouched(p) ==
    \A q \in Subpredicates(p), i \in DOMAIN input.observer.redact_paths :
        /\ q.type \in Leaves
        /\ input.observer.redact_paths[i].pointer
        => ~Meets(q.path, input.observer.redact_paths[i].path)

\* The observers whose evidence is the resource: a REST document that is within the
\* size limit once it is redacted, which may have made it longer, and a JSON
\* document under a Redis key.
WholeDocument ==
    /\ seen # {}
    /\ \/ /\ input.observer.kind = "rest"
          /\ Size(redact(Document, input.observer.redact_paths)) <= input.observer.max_evidence_size
       \/ /\ input.observer.kind = "redis" /\ IsObject(Document)
          /\ input.observer.key_prefix = RedisPrefix
          /\ Len(contract.action_name) = 1 \/ contract.action_name[1] = "get"
    /\ \A i \in DOMAIN contract.postconditions : Untouched(contract.postconditions[i].predicate)

Judged == evidence # {} /\ pc \in {"returned", "done"} /\ verdict \in {"Verified", "Failed", "Partial"}

\* What the contract says of the resource, whatever an uncompilable pattern means.
TrueVerdict(bad) ==
    LET Holding(i) == Holds(contract.postconditions[i].predicate, Document, Args, bad)
        failing == {i \in DOMAIN contract.postconditions : ~Holding(i)}
    IN  CASE failing = {} -> "Verified"
          [] \E i \in failing : contract.postconditions[i].mandatory -> "Failed"
          [] OTHER -> "Partial"

\* A verdict is what two-valued logic says of the resource as it was when the
\* observer was asked, although the observer redacts and measures it, the
\* engine stops early, and patterns that do not compile may be skipped.
VerdictTrue == Judged /\ WholeDocument => \A bad \in BOOLEAN : verdict = TrueVerdict(bad)

Failing == {i \in DOMAIN contract.postconditions :
               ~Holds(contract.postconditions[i].predicate, Document, Args, FALSE)}
Mandatory(i) == contract.postconditions[i].mandatory


\* load_file lets no group without members through, at any depth (such a group
\* is verified, or fails, whatever the state); it names the place of the one it
\* refuses, and every other error has the file.
LoadTruthful ==
    input.source = "file" /\ pc # "start" /\ input.url_ok =>
        IF IsErr(loaded)
        THEN LET e == loaded.error
             IN  IF e.kind = "InvalidPredicate"
                 THEN IsEmptyGroup(PredicateAt(Decode(input.file.text.document), e.path))
                 ELSE e.location = {input.file.path}
        ELSE /\ contract.postconditions # <<>> /\ contract.action_name # EmptyName
             /\ \A g \in 1 .. 2 : \A i \in DOMAIN Conditions(contract)[g] :
                    ~\E p \in Subpredicates(Conditions(contract)[g][i].predicate) : IsEmptyGroup(p)

\* A Postgres observer connects to what its URI names, whatever its user, password
\* and database name contain, with or without a port, a password and parameters,
\* and is refused where that is no database; and the URI of a configuration leads
\* where the configuration leads, or is refused with it.
ConnectsAsWritten ==
    input.observer.kind = "postgres" =>
        LET o == input.observer
        IN  IF o.made = "uri"
            THEN o.uri = Written(o.parts) /\ ReadAsWritten(o.parts)
            ELSE from_uri(build_uri(o.settings))
                    = {[pool EXCEPT !.connect_timeout = {}] : pool \in Pool(o)}

Hides(state, pointer) == get_path(state, pointer) \subseteq {Redacted}

\* No value behind a JSON pointer of the observer's redaction list leaves the
\* observer: not in the state that is evaluated, not in a receipt, and not in
\* what the Control Center records.
SecretsHidden ==
    input.observer.kind = "rest" =>
        \A i \in DOMAIN input.observer.redact_paths :
            LET p == input.observer.redact_paths[i]
            IN  p.pointer =>
                    /\ \A s \in evidence : Hides(s, p.path)
                    /\ \A j \in DOMAIN recorded :
                           \A o \in Range(recorded[j].body.receipt.observations) : Hides(o, p.path)

\* Every step of the run is, for the receipt, the client and the Control Center, a step of
\* Delivery: create_receipt and create_receipt_with_observation return a receipt that has
\* its own digest, whatever the details and the observation, and nothing else touches one.
ImplementsDelivery == DeliverySpec

=============================================================================
