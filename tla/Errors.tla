------------------------------- MODULE Errors -------------------------------
(***************************************************************************)
(* The error type (src/error), what an error is on the wire, and the       *)
(* statuses with which the request extractors (src/extractor) and the      *)
(* readiness route (src/health) answer.                                    *)
(***************************************************************************)
EXTENDS Integers, FiniteSets

CONSTANT None

(* Error::new. *)
Error(status, message) ==
  [status |-> status, message |-> message, source |-> FALSE, error_code |-> None,
   locale_key |-> None, details |-> None, lagged |-> FALSE]

with_source(status, message) == [Error(status, message) EXCEPT !.source = TRUE]

localized(status, key) == [Error(status, key) EXCEPT !.locale_key = key]

lagged == [Error(500, "lagged") EXCEPT !.lagged = TRUE]

with_details(e, details) == [e EXCEPT !.details = details]

chain(e) == [e EXCEPT !.source = TRUE]

with_code(e, code) == [e EXCEPT !.error_code = code]

with_locale_key(e, key) == [e EXCEPT !.locale_key = key]

(* Clone: all but the source. *)
clone(e) == [e EXCEPT !.source = FALSE]

bad_request == Error(400, "bad_request")

unprocessable_entity == Error(422, "unprocessable_entity")

internal == Error(500, "internal")

(* HttpError::status_code. *)
status_code ==
  [BadRequest |-> 400, Unauthorized |-> 401, Forbidden |-> 403, NotFound |-> 404,
   MethodNotAllowed |-> 405, Conflict |-> 409, Gone |-> 410, PayloadTooLarge |-> 413,
   UnprocessableEntity |-> 422, TooManyRequests |-> 429, InternalServerError |-> 500,
   BadGateway |-> 502, ServiceUnavailable |-> 503, GatewayTimeout |-> 504]

(* From<HttpError>; its message is the reason phrase. *)
FromHttpError(h) == Error(status_code[h], h)

(* From<io::Error>, From<serde_json::Error>, From<serde_yaml_ng::Error>. *)
FromError(kind) == with_source(IF kind = "json" THEN 400 ELSE 500, kind)

render_error_body(status, message, details) ==
  [status |-> status, message |-> message, details |-> details]

-----------------------------------------------------------------------------
(* The extractors: what they make of a body.  JsonRequest answers 400 to   *)
(* every rejection of axum's, FormRequest keeps the status of a body that  *)
(* could not be read.                                                      *)
Bodies == {"valid", "wrong_type", "too_large", "unparsable"}

JsonRequest(body) == IF body = "valid" THEN 200 ELSE 400

FormRequest(body) ==
  CASE body = "valid" -> 200
    [] body = "too_large" -> 413
    [] OTHER -> 400

Query(body) == IF body = "unparsable" THEN 400 ELSE 200

(* Field after field; text fields are decoded together in the end. *)
MultipartRequest(body) == IF body = "valid" THEN 200 ELSE 400

(* A pattern is the pair of a type and a subtype, "*" standing for any. *)
mime_matches(content_type, pattern) ==
  \/ pattern = <<"*", "*">>
  \/ pattern[2] = "*" /\ content_type[1] = pattern[1]
  \/ content_type = pattern

(* UploadValidator: what is wrong with a file. *)
UploadErrors(file, max_size, pattern) ==
  (IF file.size > max_size THEN {"size"} ELSE {})
    \cup (IF mime_matches(file.content_type, pattern) THEN {} ELSE {"type"})

(* UploadValidator::check, for an upload with these errors. *)
check(errors) == with_details(unprocessable_entity, errors)

(* ready: all checks run, and one error or panic among their results will do. *)
ready(results) == IF results \subseteq {"ok"} THEN 200 ELSE 503
=============================================================================
