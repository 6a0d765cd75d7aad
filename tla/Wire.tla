-------------------------------- MODULE Wire --------------------------------
(***************************************************************************)
(* How a request and its response are wrapped and unwrapped: what          *)
(* RestSender does to a body before it sends it                            *)
(* (internal/agent/sending/rest.go), what the middlewares do to the        *)
(* request before a handler sees it, and what the response writers do to   *)
(* the answer (internal/handler/middleware, internal/compress,             *)
(* internal/encrypt, internal/handler/errorhandling).                      *)
(*                                                                         *)
(* A body is a content in layers, the outermost first: "gzip", or a key    *)
(* pair for the envelope that RSA and AES make (a JSON object with the     *)
(* encrypted AES key, the cipher and the nonce).  Its form is what the     *)
(* content is in: a JSON object, a JSON array, another text, or nothing.   *)
(* The ciphers and gzip are invertible, and a key opens only its own       *)
(* envelopes.                                                              *)
(***************************************************************************)
EXTENDS Sequences

NoKey == ""          \* no secret key, no key file

Body(form, content) == [layers |-> << >>, form |-> form, content |-> content]
NoBody              == Body("nothing", << >>)

(* The forms of what a client may send; the name of a key is not that of   *)
(* anything else in a message.  Bodies and requests with these contents.   *)
Form == {"object", "array", "null", "array_of_null", "text", "nothing"}

KeyName == STRING \ (Form \cup {"gzip", "undecodable"})

Layer == KeyName \cup {"gzip"}

Route ==
  {"none", "update_by_path", "update", "updates", "value", "plain_value", "page", "ping"}

Bodies(contents) == [layers : Seq(Layer), form : Form, content : contents]

Requests(contents) ==
  [route : Route, path : contents, encoding : {"identity", "gzip"},
   signature : SUBSET [key : KeyName \cup {"undecodable"}, of : Bodies(contents)],
   body : Bodies(contents)]

Wrap(layer, body) == [body EXCEPT !.layers = <<layer>> \o @]
Unwrap(body)      == [body EXCEPT !.layers = Tail(@)]
Outermost(body)   == IF body.layers = << >> THEN body.form ELSE Head(body.layers)

-----------------------------------------------------------------------------
(* The sender.                                                             *)

Encrypt(publicKey, body) == IF publicKey = NoKey THEN body ELSE Wrap(publicKey, body)

WriteFlushed(body) == Wrap("gzip", body)

(* calculateHash appends the digest of the payload to the key: two         *)
(* signatures are equal when both are.  No key, no header.                 *)
AddSignature(secretKey, body) ==
  IF secretKey = NoKey THEN {} ELSE {[key |-> secretKey, of |-> body]}

(* SendMetricValue: everything is in the path.                             *)
SendMetricValue(keys, metric) ==
  [route |-> "update_by_path", path |-> <<metric>>, encoding |-> "identity",
   signature |-> AddSignature(keys.secret, NoBody), body |-> NoBody]

(* Faulty variant: the signature is made before the body is compressed.    *)
SendMetric_SignsFirst(keys, metric) ==
  LET body == Encrypt(keys.public, Body("object", <<metric>>))
  IN  [route |-> "update", path |-> << >>, encoding |-> "gzip",
       signature |-> AddSignature(keys.secret, body), body |-> WriteFlushed(body)]

SendMetric(keys, metric) ==
  LET body == WriteFlushed(Encrypt(keys.public, Body("object", <<metric>>)))
  IN  [route |-> "update", path |-> << >>, encoding |-> "gzip",
       signature |-> AddSignature(keys.secret, body), body |-> body]

(* SendMetricArray does not sign.                                          *)
SendMetricArray(keys, metrics) ==
  [route |-> "updates", path |-> << >>, encoding |-> "gzip", signature |-> {},
   body |-> WriteFlushed(Encrypt(keys.public, Body("array", metrics)))]

-----------------------------------------------------------------------------
(* The middlewares.  Each one gives the request to the next one, perhaps   *)
(* with another body, or answers it with a status code.                    *)

Passes(request)           == [by |-> "handler", code |-> 0, request |-> request]
Answers(by, code, request) == [by |-> by, code |-> code, request |-> request]

(* A signature that is not base64.                                         *)
Undecodable(sign) == sign.key = "undecodable"

(* Faulty variant: the digest is left out of the comparison.               *)
CheckSignature_KeyOnly(secretKey, body, sign) == sign.key = secretKey

CheckSignature(secretKey, body, sign) == sign = [key |-> secretKey, of |-> body]

(* secretKey == nil never holds: []byte("") is not nil.  A server without  *)
(* a key checks the signatures it receives with the empty key.             *)
Authorization(secretKey, request) ==
  LET body == request.body
  IN  CASE request.signature = {} -> Passes(request)
        [] \E sign \in request.signature : Undecodable(sign) ->
             Answers("authorization", 400, request)
        [] \E sign \in request.signature :
             ~ Undecodable(sign) /\ ~ CheckSignature(secretKey, body, sign) ->
             Answers("authorization", 401, request)
        [] OTHER -> Passes(request)

(* ReadRequestBody.                                                        *)
Compressing(request) ==
  CASE request.encoding # "gzip" -> Passes(request)
    [] request.encoding = "gzip" /\ Outermost(request.body) = "gzip" ->
         Passes([request EXCEPT !.body = Unwrap(@)])
    [] OTHER -> Answers("compressing", 400, request)

(* A body that is no envelope of this key fails in json.Unmarshal or in    *)
(* rsa.DecryptOAEP: a plain object has an empty "key".  The body is never  *)
(* nil after Compressing, so an empty one fails as well.                   *)
Decryption(privateKey, request) ==
  CASE privateKey = NoKey -> Passes(request)
    [] privateKey # NoKey /\ Outermost(request.body) = privateKey ->
         Passes([request EXCEPT !.body = Unwrap(@)])
    [] OTHER -> Answers("decryption", 400, request)

Secured == {"update_by_path", "update", "updates"}

(* GetRouter: secureR and plainR.  A middleware that answers ends the      *)
(* chain.                                                                  *)
Chain(keys, request) ==
  LET secured      == request.route \in Secured
      verified     == IF secured THEN Authorization(keys.secret, request)
                                 ELSE Passes(request)
      decompressed == IF verified.code = 0 THEN Compressing(verified.request)
                                           ELSE verified
  IN  IF secured /\ decompressed.code = 0
        THEN Decryption(keys.private, decompressed.request)
        ELSE decompressed

-----------------------------------------------------------------------------
(* The response writers: enrichedResponseWriter around the one of          *)
(* net/http, and around it gzipResponseWriter if the client accepts gzip.  *)

NoType == ""         \* no Content-Type yet

NewResponseWriter(compresses) ==
  [compresses |-> compresses, type |-> NoType, encoding |-> "identity", signature |-> {},
   code |-> 0, logged |-> 0, body |-> NoBody, written |-> FALSE]

checkContentTypeForCompression(w) == w.type \in {"application/json", "text/html"}

(* Faulty variant: Content-Encoding is left to the handlers.               *)
WriteHeader_NoEncoding(w, statusCode) ==
  [w EXCEPT !.code = statusCode, !.logged = statusCode]

WriteHeader(w, statusCode) ==
  [w EXCEPT !.code = statusCode, !.logged = statusCode,
            !.encoding = IF w.compresses /\ checkContentTypeForCompression(w)
                           THEN "gzip" ELSE @]

(* net/http sends 200 with the first byte if no status was written.  What  *)
(* goes through the gzip writer is complete when it is closed.             *)
Write(w, body) ==
  LET sent == [w EXCEPT !.code = IF @ = 0 THEN 200 ELSE @]
  IN  IF w.compresses /\ checkContentTypeForCompression(w)
        THEN [sent EXCEPT !.body = Wrap("open_gzip", body), !.written = TRUE]
        ELSE [sent EXCEPT !.body = body]

(* The deferred Close of the middleware.                                   *)
Close(w) == IF w.written THEN [w EXCEPT !.body = Wrap("gzip", Unwrap(@))] ELSE w

(* A handler that has no body to send writes the status alone; net/http    *)
(* sends 200 if it does not.                                               *)
RespondEmpty(w, statusCode) == Close(WriteHeader(w, statusCode))

(* Error.Render, http.Error.                                               *)
RespondError(w, statusCode) ==
  Close(Write(WriteHeader([w EXCEPT !.type = "text/plain"], statusCode),
              Body("text", << >>)))

(* renderMetricValue, renderMetricJSON, showMetricsPage: the signature is  *)
(* the one of the payload before compression.                              *)
RespondPayload(w, keys, contentType, payload) ==
  Close(Write(WriteHeader([w EXCEPT !.signature = AddSignature(keys.secret, payload),
                                    !.type = contentType], 200),
              payload))

(* What a client makes of a response, "unreadable" if it cannot.           *)
Decoded(response) ==
  CASE response.encoding = "identity" -> response.body
    [] response.encoding = "gzip" /\ Outermost(response.body) = "gzip" ->
         Unwrap(response.body)
    [] OTHER -> Body("unreadable", << >>)
=============================================================================
