------------------------------ MODULE ToolCall ------------------------------
(***************************************************************************)
(* What the tool adapters of packages/adapters-tools have in common: one   *)
(* adapter is created from its options, then executes one request, awaiting*)
(* the world between its steps.  The adapters keep nothing between calls.  *)
(*                                                                         *)
(*   call    the call's locals: tool, options, request, step, receipt,     *)
(*           observation and what the tool's module adds.  step is where   *)
(*           the call waits: "create", "not_created", "idle", the names of *)
(*           its awaits, and at last "answered" or "thrown".               *)
(*   world   what the call acts on: a process, a disk, a server            *)
(*                                                                         *)
(* A receipt keeps [status, payload]; its hash, ids and pending evidence   *)
(* are determined by these and the effect request.                         *)
(***************************************************************************)
EXTENDS Checks, FiniteSets

CONSTANTS
    UnsafeHeaderNames, UnsafeHeaderValues   \* what the patterns for credentials match

\* Everything a check may find wrong.  Null is none of it, and no number.
ErrorCodes ==
    {"invalid_url", "non_http_scheme", "url_credentials_forbidden", "unsafe_query",
     "unsafe_header", "forbidden_request_field", "invalid_profile", "profile_not_found",
     "forbidden_profile_env", "forbidden_request_override", "invalid_path",
     "dotfile_not_allowed", "read_error", "outside_root", "not_found",
     "directory_not_allowed", "file_too_large", "url_not_allowed", "unsafe_destination",
     "raw_body_not_allowed", "invalid_input", "invalid_method", "invalid_response_metadata",
     "response_too_large", "unsafe_redirect", "redirect_limit_exceeded",
     "non_success_status", "base_url_not_allowed", "invalid_body", "owner_not_allowed",
     "repo_not_allowed", "endpoint_not_allowed", "branch_scope_required",
     "branch_not_allowed", "capability_scope_mismatch", "missing_idempotency_key",
     "missing_token"}

ASSUME NullIsNoValue == Null \notin ErrorCodes /\ Null # 0

VARIABLES call, world

toolVars == <<call, world>>

NewCall(tool, options, request) ==
    [tool |-> tool, options |-> options, request |-> request,
     step |-> "create", receipt |-> Null, observation |-> Null]

Created(tool, valid) ==
    /\ call.tool = tool /\ call.step = "create"
    /\ call' = [call EXCEPT !.step = IF valid THEN "idle" ELSE "not_created"]
    /\ UNCHANGED world

\* An object literal that spreads g and then f: f's value for what both have.
Over(f, g) ==
    [key \in DOMAIN f \cup DOMAIN g |-> IF key \in DOMAIN f THEN f[key] ELSE g[key]]

\* c after its execute returned this receipt and observation.
Answer(c, receipt, observation) ==
    [c EXCEPT !.step = "answered", !.receipt = receipt, !.observation = observation]

\* parseSafeHttpUrl, parseHttpUrl: url.faults is what is wrong with the text.
UrlError(url) ==
    FirstError(<<
        <<"unparsable" \notin url.faults, "invalid_url">>,
        <<"scheme" \notin url.faults, "non_http_scheme">>,
        <<"credentials" \notin url.faults, "url_credentials_forbidden">>,
        <<"query" \notin url.faults, "unsafe_query">> >>)

\* normalizeSafeRequestHeaders: headers is a function of lower-case names.
HeadersError(headers) ==
    IF \E name \in DOMAIN headers :
            name \in UnsafeHeaderNames \/ headers[name] \in UnsafeHeaderValues
    THEN "unsafe_header" ELSE Null

At(tool, step) == call.tool = tool /\ call.step = step
Ended == call.step \in {"not_created", "answered", "thrown"}
Succeeded == call.receipt # Null /\ call.receipt.status = "succeeded"
Failed == call.receipt # Null /\ call.receipt.status = "failed"
=============================================================================
