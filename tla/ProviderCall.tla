---------------------------- MODULE ProviderCall ----------------------------
(* One governed call of the provider: ZhipuHTTPTransport.execute,           *)
(* ZhipuChatAdapter.normalize_response and the output validator, up to the  *)
(* outcome that is accounted for.  A response is abstracted to what the     *)
(* normalisation tells apart; what a caller does before and after the call  *)
(* is in the modules that extend this one.                                  *)
EXTENDS Integers

CONSTANTS
    Calls,
    Bodies          \* the provider's answers an instance considers

Body == [http : {"ok", "unauthorized", "limited", "down", "other"},
         code : {"none", "auth", "rate", "other"},      \* body.error.code
         usage : BOOLEAN,                               \* both token counts given
         model : BOOLEAN,                               \* the model asked for
         finish : {"stop", "length"},
         content : {"absent", "too_large", "unparsable", "not_object", "object"}]

ASSUME BodyAssumption == Bodies \subseteq Body

VARIABLE call

Categories == {"none", "ok", "live_execution_blocked", "invalid_request",
               "authentication_failed", "rate_limited", "provider_unavailable",
               "response_too_large", "schema_invalid", "outcome_unknown"}

CallRecord ==
    [stage : {"idle", "gate", "posting", "received", "validating", "ended"},
     sent : BOOLEAN,            \* the request may have reached the provider
     reported : BOOLEAN,        \* the answer that was read carried usage
     category : Categories,
     certainty : {"none", "not_dispatched", "dispatched", "unknown"},
     measured : BOOLEAN]        \* usage in the outcome

NoCallYet == [stage |-> "idle", sent |-> FALSE, reported |-> FALSE,
              category |-> "none", certainty |-> "none", measured |-> FALSE]

(* ProviderContractError, or the NormalizedProviderResult that passed.      *)
Ends(r, category, certainty, measured) ==
    call' = [call EXCEPT ![r].stage = "ended", ![r].category = category,
                         ![r].certainty = certainty, ![r].measured = measured]

-----------------------------------------------------------------------------
(* The gate is off, or the endpoint, model or secret is not acceptable.     *)
RefuseLocally(r, category) ==
    /\ call[r].stage = "gate"
    /\ category \in {"live_execution_blocked", "invalid_request"}
    /\ Ends(r, category, "not_dispatched", FALSE)

Post(r) ==
    /\ call[r].stage = "gate"
    /\ call' = [call EXCEPT ![r].stage = "posting"]

Delivered(r) ==
    /\ call[r].stage = "posting" /\ ~call[r].sent
    /\ call' = [call EXCEPT ![r].sent = TRUE]

(* httpx.TimeoutException or HTTPError, before or after the request left.   *)
LosePost(r) ==
    /\ call[r].stage = "posting"
    /\ Ends(r, "outcome_unknown", "unknown", FALSE)

(* The raw body is too long, no JSON or no object: nothing in it is read.   *)
Unreadable(r, category) ==
    /\ call[r].stage = "posting" /\ call[r].sent
    /\ category \in {"response_too_large", "schema_invalid"}
    /\ Ends(r, category, "dispatched", FALSE)

Receive(r) ==
    /\ call[r].stage = "posting" /\ call[r].sent
    /\ call' = [call EXCEPT ![r].stage = "received"]

MappedError(b) ==
    CASE b.http = "unauthorized" \/ b.code = "auth" -> "authentication_failed"
      [] b.http = "limited" /\ b.code # "auth" -> "rate_limited"
      [] b.code = "rate" /\ b.http # "unauthorized" -> "rate_limited"
      [] b.http = "down" /\ b.code \notin {"auth", "rate"} -> "provider_unavailable"
      [] OTHER -> "invalid_request"

IsError(b) == b.http # "ok" \/ b.code # "none"
IsComplete(b) == b.model /\ b.finish = "stop" /\ b.content # "absent"

(* normalize_response: every error it raises carries the usage it has read. *)
Normalize(r, b) ==
    /\ call[r].stage = "received"
    /\ LET errs(category) ==
               call' = [call EXCEPT ![r].stage = "ended", ![r].category = category,
                                    ![r].certainty = "dispatched",
                                    ![r].reported = b.usage, ![r].measured = b.usage]
       IN  \/ IsError(b) /\ errs(MappedError(b))
           \/ ~IsError(b) /\ ~IsComplete(b) /\ errs("schema_invalid")
           \/ ~IsError(b) /\ IsComplete(b) /\ b.content = "too_large"
                 /\ errs("response_too_large")
           \/ ~IsError(b) /\ IsComplete(b) /\ b.content \in {"unparsable", "not_object"}
                 /\ errs("schema_invalid")
           \/ ~IsError(b) /\ IsComplete(b) /\ b.content = "object"
                 /\ call' = [call EXCEPT ![r].stage = "validating",
                                         ![r].reported = b.usage]

(* The validator rejects the output, for its schema or its citations.       *)
(* Faulty variant: the error of the validator is raised without the usage.  *)
RejectWithoutUsage(r) ==
    /\ call[r].stage = "validating"
    /\ Ends(r, "schema_invalid", "dispatched", FALSE)

RejectOutput(r) ==
    /\ call[r].stage = "validating"
    /\ Ends(r, "schema_invalid", "dispatched", call[r].reported)

AcceptOutput(r) ==
    /\ call[r].stage = "validating"
    /\ Ends(r, "ok", "dispatched", call[r].reported)

(* Everything of a call but what the validator decides.                     *)
CallStep(r) ==
    \/ \E c \in Categories : RefuseLocally(r, c) \/ Unreadable(r, c)
    \/ Post(r) \/ Delivered(r) \/ LosePost(r) \/ Receive(r)
    \/ \E b \in Bodies : Normalize(r, b)

-----------------------------------------------------------------------------
(* What the accounting relies on: an outcome that gives the money back means *)
(* that nothing was sent, an unknown outcome or an unread answer claims no   *)
(* measurement, and usage that was read is not lost by what failed after it. *)
OutcomeIsHonest ==
    \A r \in Calls : call[r].stage = "ended" =>
        /\ call[r].certainty = "not_dispatched" => ~call[r].sent
        /\ call[r].category = "outcome_unknown" => call[r].certainty = "unknown"
        /\ call[r].measured <=> call[r].reported
        /\ call[r].certainty # "dispatched" => ~call[r].measured

-----------------------------------------------------------------------------
(* Costs in fen of a number of tokens; "vision" has two tiers by its input. *)
CeilDiv(a, b) == (a + b - 1) \div b
Million == 1000000
HighTier == 32000

Rate(model, input) ==
    CASE model = "text" -> [input |-> 800, output |-> 2800]
      [] model = "vision" /\ input < HighTier -> [input |-> 500, output |-> 2200]
      [] OTHER -> [input |-> 700, output |-> 2600]

Price(rate, input, output) == CeilDiv(input * rate.input + output * rate.output, Million)

MeasuredCost(model, input, output) == Price(Rate(model, input), input, output)

(* estimate_cost: the prompt's bytes bound its tokens, an image counts a    *)
(* third of its bytes, and vision is always priced in the high tier.        *)
EstimateCost(model, promptBytes, imageBytes, maxOutput) ==
    LET units == promptBytes + CeilDiv(imageBytes, 3)
        cost == Price(Rate(model, IF model = "vision" THEN HighTier ELSE 0), units, maxOutput)
    IN  IF cost < 1 THEN 1 ELSE cost
=============================================================================
