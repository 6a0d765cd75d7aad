--------------------------- MODULE GatewayProofs ---------------------------
(***************************************************************************)
(* Proofs about Gateway, for every set of clients, metrics, requests of    *)
(* other programs and configurations of keys, and any number of requests.  *)
(*                                                                         *)
(* Everything a request passes through depends on the exchange of its      *)
(* client, the keys and the memory.  ClientOK says what holds of one       *)
(* exchange in every part of its life; a step changes one exchange and     *)
(* perhaps the memory, which never forgets the type of a metric.           *)
(*                                                                         *)
(* ReaderOK adds what holds of a read: since has the memory as it is while *)
(* the read goes on, every row it has rendered is in since, and the rows   *)
(* and the listing left to render together cover, in order, every metric   *)
(* that existed all the time.                                              *)
(***************************************************************************)
EXTENDS Gateway, FiniteSetTheorems, SequenceTheorems, TLAPS

Content == Seq(Metrics(ID)) \cup Seq(Metrics(Nat))

BodyType    == Bodies(Content)
RequestType == Requests(Content)

SignKey == KeyName \cup {"undecodable"}

ServerKeys == [secret : KeyName, private : KeyName]
AgentKeys  == [secret : KeyName, public : KeyName]
KeyPairs   == [agent : AgentKeys, server : ServerKeys]

-----------------------------------------------------------------------------
(* Layers.                                                                 *)

(* What Tail leaves of a sequence of layers.                               *)
LEMMA TailLayers ==
  ASSUME NEW s \in Seq(Layer), s # << >>
  PROVE  /\ Head(s) \in ToSet(s) /\ Head(s) \in Layer
         /\ Tail(s) \in Seq(Layer) /\ Len(Tail(s)) = Len(s) - 1
         /\ Len(s) \in Nat /\ ToSet(Tail(s)) \subseteq ToSet(s)
<1>1. /\ Head(s) \in Layer /\ Tail(s) \in Seq(Layer)
      /\ Len(s) \in Nat /\ Len(Tail(s)) = Len(s) - 1
      /\ \A i \in 1 .. Len(Tail(s)) : Tail(s)[i] = s[i + 1]
  BY HeadTailProperties, LenProperties
<1>2. Len(s) # 0 /\ DOMAIN s = 1 .. Len(s) /\ DOMAIN Tail(s) = 1 .. Len(Tail(s))
  BY <1>1, EmptySeq, LenProperties
<1>3. Head(s) = s[1] /\ 1 \in DOMAIN s
  BY <1>1, <1>2
<1>4. \A i \in DOMAIN Tail(s) : i + 1 \in DOMAIN s /\ Tail(s)[i] = s[i + 1]
  BY <1>1, <1>2
<1> QED
  BY <1>1, <1>3, <1>4 DEF ToSet

(* A body whose outermost is a layer loses that layer and nothing else.    *)
LEMMA UnwrapKeeps ==
  ASSUME NEW b \in BodyType, Outermost(b) \notin Form
  PROVE  /\ Unwrap(b) \in BodyType
         /\ Unwrap(b).form = b.form /\ Unwrap(b).content = b.content
         /\ Unwrap(b).layers = Tail(b.layers)
         /\ b.layers # << >> /\ b.layers \in Seq(Layer)
         /\ Outermost(b) = Head(b.layers)
<1>1. b.layers \in Seq(Layer) /\ b.form \in Form /\ b.layers # << >>
  BY DEF BodyType, Bodies, Outermost
<1>2. Tail(b.layers) \in Seq(Layer)
  BY <1>1, TailLayers
<1> QED
  BY <1>1, <1>2 DEF BodyType, Bodies, Unwrap, Outermost

(* Layers are told apart from forms.                                       *)
LEMMA GzipIsNoForm == "gzip" \notin Form /\ "undecodable" \notin KeyName
BY DEF Form, KeyName

(* A key is told apart from everything else in a message.                  *)
LEMMA KeyIsNoForm == \A key \in KeyName : key \notin Form /\ key # "gzip" /\ key # "undecodable"
BY DEF KeyName

-----------------------------------------------------------------------------
(* The middlewares.                                                        *)

(* The types of a request's fields.                                        *)
LEMMA RequestFields ==
  ASSUME NEW r \in RequestType
  PROVE  /\ r.body \in BodyType /\ r.path \in Content /\ r.route \in Route
         /\ r.encoding \in {"identity", "gzip"}
         /\ \A sign \in r.signature : sign.of \in BodyType /\ sign.key \in SignKey
BY DEF RequestType, Requests, BodyType, SignKey

(* Another body leaves the rest of the request alone.                      *)
LEMMA BodyReplaced ==
  ASSUME NEW r \in RequestType, NEW b \in BodyType
  PROVE  /\ [r EXCEPT !.body = b] \in RequestType
         /\ [r EXCEPT !.body = b].body = b
         /\ [r EXCEPT !.body = b].route = r.route /\ [r EXCEPT !.body = b].path = r.path
         /\ [r EXCEPT !.body = b].signature = r.signature
BY DEF RequestType, Requests, BodyType, SignKey

(* What arrives is what was sent, without layers that were taken off.      *)
Inside(b, c) ==
  /\ b.form = c.form /\ b.content = c.content
  /\ ToSet(b.layers) \subseteq ToSet(c.layers)

Same(q, r) == q \in RequestType /\ q.route = r.route /\ q.path = r.path /\ Inside(q.body, r.body)

Verified(secretKey, r) ==
  \A sign \in r.signature : ~ Undecodable(sign) /\ sign = [key |-> secretKey, of |-> r.body]

(* Authorization lets a request pass exactly when its signature holds.     *)
LEMMA AuthorizationResult ==
  ASSUME NEW key \in KeyName, NEW r \in RequestType
  PROVE  IF Verified(key, r)
           THEN Authorization(key, r) = Passes(r)
           ELSE Authorization(key, r).code \in {400, 401}
<1>1. CASE r.signature = {}
  BY <1>1 DEF Authorization, Verified
<1>2. CASE r.signature # {} /\ Verified(key, r)
  BY <1>2 DEF Authorization, Verified, CheckSignature
<1>3. CASE ~ Verified(key, r)
  <2>1. \E sign \in r.signature :
          Undecodable(sign) \/ ~ CheckSignature(key, r.body, sign)
    BY <1>3 DEF Verified, CheckSignature
  <2>2. r.signature # {}
    BY <2>1
  <2>3. \/ Authorization(key, r) = Answers("authorization", 400, r)
        \/ Authorization(key, r) = Answers("authorization", 401, r)
    BY <2>1, <2>2 DEF Authorization
  <2> QED
    BY <1>3, <2>3 DEF Answers
<1> QED
  BY <1>1, <1>2, <1>3 DEF Verified

(* A request without the outermost layer of its body.                      *)
Opened(r) == [r EXCEPT !.body = Unwrap(@)]

(* Compressing takes off the layer that the header names.                  *)
LEMMA CompressingResult ==
  ASSUME NEW r \in RequestType
  PROVE  \/ r.encoding = "identity" /\ Compressing(r) = Passes(r)
         \/ /\ r.encoding = "gzip" /\ Outermost(r.body) = "gzip"
            /\ Compressing(r) = Passes(Opened(r))
         \/ /\ r.encoding = "gzip" /\ Outermost(r.body) # "gzip"
            /\ Compressing(r).code = 400
BY RequestFields DEF Compressing, Answers, Opened

(* Decryption takes off the envelope of the server's key, if it has one.   *)
LEMMA DecryptionResult ==
  ASSUME NEW key \in KeyName, NEW r \in RequestType
  PROVE  \/ key = NoKey /\ Decryption(key, r) = Passes(r)
         \/ /\ key # NoKey /\ Outermost(r.body) = key
            /\ Decryption(key, r) = Passes(Opened(r))
         \/ /\ key # NoKey /\ Outermost(r.body) # key
            /\ Decryption(key, r).code = 400
BY DEF Decryption, Answers, Opened

(* The fields of a request that passes.                                    *)
LEMMA PassesFields ==
  ASSUME NEW r
  PROVE  Passes(r).code = 0 /\ Passes(r).request = r
BY DEF Passes

(* The order of the middlewares, by route and signature.                   *)
LEMMA ChainForms ==
  ASSUME NEW k \in ServerKeys, NEW r \in RequestType
  PROVE  /\ r.route \notin Secured => Chain(k, r) = Compressing(r)
         /\ r.route \in Secured /\ ~ Verified(k.secret, r) => Chain(k, r).code \in {400, 401}
         /\ r.route \in Secured /\ Verified(k.secret, r) =>
              Chain(k, r) = IF Compressing(r).code = 0
                              THEN Decryption(k.private, Compressing(r).request)
                              ELSE Compressing(r)
<1>1. k.secret \in KeyName
  BY DEF ServerKeys
<1>2. CASE r.route \notin Secured
  BY <1>2, PassesFields DEF Chain
<1>3. CASE r.route \in Secured /\ ~ Verified(k.secret, r)
  <2>1. Authorization(k.secret, r).code \in {400, 401}
    BY <1>1, <1>3, AuthorizationResult
  <2>2. Chain(k, r) = Authorization(k.secret, r)
    BY <1>3, <2>1 DEF Chain
  <2> QED
    BY <1>3, <2>1, <2>2
<1>4. CASE r.route \in Secured /\ Verified(k.secret, r)
  <2>1. Authorization(k.secret, r) = Passes(r)
    BY <1>1, <1>4, AuthorizationResult
  <2>2. Authorization(k.secret, r).code = 0 /\ Authorization(k.secret, r).request = r
    BY <2>1, PassesFields
  <2> QED
    BY <1>4, <2>2 DEF Chain
<1> QED
  BY <1>2, <1>3, <1>4

(* A request is what it is.                                                *)
LEMMA SameItself ==
  ASSUME NEW r \in RequestType
  PROVE  Same(r, r)
BY DEF Same, Inside

(* A layer that is taken off leaves the rest of the request alone.         *)
LEMMA UnwrapSame ==
  ASSUME NEW r \in RequestType, Outermost(r.body) \notin Form
  PROVE  /\ Same(Opened(r), r)
         /\ Outermost(r.body) \in ToSet(r.body.layers)
         /\ Opened(r).body = Unwrap(r.body)
<1>1. r.body \in BodyType
  BY RequestFields
<1>2. /\ Unwrap(r.body) \in BodyType
      /\ Unwrap(r.body).form = r.body.form /\ Unwrap(r.body).content = r.body.content
      /\ Unwrap(r.body).layers = Tail(r.body.layers)
      /\ r.body.layers # << >> /\ r.body.layers \in Seq(Layer)
      /\ Outermost(r.body) = Head(r.body.layers)
  BY <1>1, UnwrapKeeps
<1>3. /\ Head(r.body.layers) \in ToSet(r.body.layers)
      /\ ToSet(Tail(r.body.layers)) \subseteq ToSet(r.body.layers)
  BY <1>2, TailLayers
<1>4. Inside(Unwrap(r.body), r.body)
  BY <1>2, <1>3 DEF Inside
<1>5. Opened(r) = [r EXCEPT !.body = Unwrap(r.body)]
  BY DEF Opened
<1> QED
  BY <1>2, <1>3, <1>4, <1>5, BodyReplaced DEF Same

(* Taking off layers twice is taking off layers.                           *)
LEMMA SameTransitive ==
  ASSUME NEW p, NEW q, NEW r, Same(p, q), Same(q, r)
  PROVE  Same(p, r)
BY DEF Same, Inside

(* Compressing lets pass what was sent, or answers 400.                    *)
LEMMA CompressingSame ==
  ASSUME NEW r \in RequestType
  PROVE  /\ Compressing(r).code \in {0, 400}
         /\ Compressing(r).code = 0 => Same(Compressing(r).request, r)
<1>1. Outermost(r.body) = "gzip" => Same(Opened(r), r)
  BY UnwrapSame, GzipIsNoForm
<1> QED
  BY <1>1, CompressingResult, SameItself, PassesFields

(* A request that passes is the one that was sent: its signature holds,    *)
(* and it was encrypted for the server's key pair.                         *)
LEMMA ChainPasses ==
  ASSUME NEW k \in ServerKeys, NEW r \in RequestType
  PROVE  /\ Chain(k, r).code \in {0, 400, 401}
         /\ Chain(k, r).code = 0 =>
              /\ Same(Chain(k, r).request, r)
              /\ r.route \in Secured =>
                   /\ Verified(k.secret, r)
                   /\ k.private # NoKey => k.private \in ToSet(r.body.layers)
<1>1. CASE r.route \notin Secured
  BY <1>1, ChainForms, CompressingSame
<1>2. CASE r.route \in Secured /\ ~ Verified(k.secret, r)
  BY <1>2, ChainForms
<1>3. CASE r.route \in Secured /\ Verified(k.secret, r) /\ Compressing(r).code # 0
  BY <1>3, ChainForms, CompressingSame
<1>4. CASE r.route \in Secured /\ Verified(k.secret, r) /\ Compressing(r).code = 0
  <2> DEFINE q == Compressing(r).request
  <2>1. Chain(k, r) = Decryption(k.private, q)
    BY <1>4, ChainForms
  <2>2. Same(q, r) /\ q \in RequestType /\ ToSet(q.body.layers) \subseteq ToSet(r.body.layers)
    BY <1>4, CompressingSame DEF Same, Inside
  <2> HIDE DEF q
  <2>3. k.private \in KeyName
    BY DEF ServerKeys
  <2>4. CASE k.private = NoKey /\ Decryption(k.private, q) = Passes(q)
    BY <1>4, <2>1, <2>2, <2>4, PassesFields
  <2>5. CASE /\ k.private # NoKey /\ Outermost(q.body) = k.private
             /\ Decryption(k.private, q) = Passes(Opened(q))
    <3>1. /\ Same(Opened(q), q)
          /\ k.private \in ToSet(q.body.layers)
      BY <2>2, <2>3, <2>5, UnwrapSame, KeyIsNoForm
    <3>2. Same(Opened(q), r)
      BY <2>2, <3>1, SameTransitive
    <3> QED
      BY <1>4, <2>1, <2>2, <2>5, <3>1, <3>2, PassesFields
  <2>6. CASE Decryption(k.private, q).code = 400
    BY <2>1, <2>6
  <2> QED
    BY <2>2, <2>3, <2>4, <2>5, <2>6, DecryptionResult
<1> QED
  BY <1>1, <1>2, <1>3, <1>4, CompressingSame

-----------------------------------------------------------------------------
(* The response writers.                                                   *)

(* What a response must be for its client to read it.                      *)
ReadableResponse(secretKey, accepts, r) ==
  /\ r.encoding = "gzip" => accepts
  /\ Decoded(r).layers = << >> /\ Decoded(r).form # "unreadable"
  /\ r.signature # {} => r.signature = AddSignature(secretKey, Decoded(r))
  /\ r.code = r.logged

(* A writer as the middlewares hand it to a handler.                       *)
WriterFor(accepts, w) ==
  \E b \in BOOLEAN : (b => accepts) /\ w = NewResponseWriter(b)

(* No content type is none that is compressed.                             *)
LEMMA NoTypeIsPlain == NoType \notin {"application/json", "text/html"}
BY Zenon DEF NoType

(* A response that is not compressed is read as it is.                     *)
LEMMA PlainIsReadable ==
  ASSUME NEW key, NEW accepts, NEW r, r.encoding = "identity", r.signature = {},
         r.code = r.logged, r.body.layers = << >>, r.body.form # "unreadable"
  PROVE  ReadableResponse(key, accepts, r)
<1>1. Decoded(r) = r.body
  BY DEF Decoded
<1> QED
  BY <1>1 DEF ReadableResponse

(* A status without a body.                                                *)
LEMMA EmptyIsReadable ==
  ASSUME NEW key, NEW accepts, NEW w, WriterFor(accepts, w), NEW code
  PROVE  /\ ReadableResponse(key, accepts, RespondEmpty(w, code))
         /\ RespondEmpty(w, code).code = code
<1> DEFINE r == WriteHeader(w, code)
<1>1. PICK b \in BOOLEAN : w = NewResponseWriter(b)
  BY DEF WriterFor
<1>2. w.type = NoType /\ w.encoding = "identity" /\ w.written = FALSE
  BY <1>1 DEF NewResponseWriter
<1>3. ~ checkContentTypeForCompression(w)
  BY <1>2, NoTypeIsPlain DEF checkContentTypeForCompression
<1>4. r = [w EXCEPT !.code = code, !.logged = code, !.encoding = @]
  BY <1>3 DEF WriteHeader
<1>5. /\ r.encoding = "identity" /\ r.signature = {} /\ r.code = code /\ r.logged = code
      /\ r.body = NoBody /\ r.written = FALSE
  BY <1>1, <1>4 DEF NewResponseWriter
<1>6. RespondEmpty(w, code) = r
  BY <1>5 DEF RespondEmpty, Close
<1>7. NoBody.layers = << >> /\ NoBody.form # "unreadable"
  BY DEF NoBody, Body
<1> QED
  BY <1>5, <1>6, <1>7, PlainIsReadable

(* A writer that has not been written to.                                  *)
IsWriter(w) ==
  w = [compresses |-> w.compresses, type |-> w.type, encoding |-> w.encoding,
       signature |-> w.signature, code |-> w.code, logged |-> w.logged,
       body |-> w.body, written |-> w.written]

Fresh(w, b, type, signature) ==
  /\ IsWriter(w)
  /\ w.compresses = b /\ w.type = type /\ w.encoding = "identity"
  /\ w.signature = signature /\ w.written = FALSE

(* The headers that the handlers set on a fresh writer.                    *)
LEMMA FreshTyped ==
  ASSUME NEW b \in BOOLEAN, NEW type, NEW signature
  PROVE  /\ Fresh(NewResponseWriter(b), b, NoType, {})
         /\ Fresh([NewResponseWriter(b) EXCEPT !.type = type], b, type, {})
         /\ Fresh([NewResponseWriter(b) EXCEPT !.signature = signature, !.type = type],
                  b, type, signature)
<1> DEFINE w == NewResponseWriter(b)
<1>1. Fresh(w, b, NoType, {})
  BY DEF NewResponseWriter, Fresh, IsWriter
<1> HIDE DEF w
<1>2. Fresh([w EXCEPT !.type = type], b, type, {})
  BY <1>1 DEF Fresh, IsWriter
<1>3. Fresh([w EXCEPT !.signature = signature], b, NoType, signature)
  BY <1>1 DEF Fresh, IsWriter
<1>4. Fresh([[w EXCEPT !.signature = signature] EXCEPT !.type = type], b, type, signature)
  <2> DEFINE v == [w EXCEPT !.signature = signature]
  <2>1. Fresh(v, b, NoType, signature)
    BY <1>3
  <2> HIDE DEF v
  <2>2. Fresh([v EXCEPT !.type = type], b, type, signature)
    BY <2>1 DEF Fresh, IsWriter
  <2> QED
    BY <2>2 DEF v
<1>5. [w EXCEPT !.signature = signature, !.type = type]
        = [[w EXCEPT !.signature = signature] EXCEPT !.type = type]
  OBVIOUS
<1> QED
  BY <1>1, <1>2, <1>4, <1>5 DEF w

(* Status and body of a response, by the content type.                     *)
LEMMA Written ==
  ASSUME NEW w, NEW b \in BOOLEAN, NEW type, NEW signature, Fresh(w, b, type, signature),
         NEW code \in Nat \ {0}, NEW body, body.layers = << >>
  PROVE  LET r == Close(Write(WriteHeader(w, code), body))
         IN  /\ r.code = code /\ r.logged = code /\ r.signature = signature
             /\ IF b /\ type \in {"application/json", "text/html"}
                  THEN r.encoding = "gzip" /\ r.body = Wrap("gzip", Unwrap(Wrap("open_gzip", body)))
                  ELSE r.encoding = "identity" /\ r.body = body
<1> DEFINE w1 == WriteHeader(w, code)
           w2 == Write(w1, body)
           w3 == Close(w2)
           gzip == b /\ type \in {"application/json", "text/html"}
<1>1. w.compresses = b /\ w.type = type /\ w.encoding = "identity" /\ w.signature = signature
  BY DEF Fresh
<1>2. checkContentTypeForCompression(w) <=> type \in {"application/json", "text/html"}
  BY <1>1 DEF checkContentTypeForCompression
<1>3. w1 = [w EXCEPT !.code = code, !.logged = code,
                     !.encoding = IF gzip THEN "gzip" ELSE "identity"]
  BY <1>1, <1>2 DEF WriteHeader, Fresh
<1>4. /\ IsWriter(w1)
      /\ w1.compresses = b /\ w1.type = type /\ w1.signature = signature
      /\ w1.encoding = (IF gzip THEN "gzip" ELSE "identity")
      /\ w1.code = code /\ w1.logged = code /\ w1.written = FALSE
  BY <1>3 DEF Fresh, IsWriter
<1> HIDE DEF w1
<1>5. checkContentTypeForCompression(w1) <=> type \in {"application/json", "text/html"}
  BY <1>4 DEF checkContentTypeForCompression
<1>6. CASE gzip
  <2>1. w1.compresses /\ checkContentTypeForCompression(w1)
    BY <1>4, <1>5, <1>6
  <2>2. w2 = [[w1 EXCEPT !.code = IF @ = 0 THEN 200 ELSE @]
                EXCEPT !.body = Wrap("open_gzip", body), !.written = TRUE]
    BY <2>1 DEF Write
  <2>3. /\ w2.code = code /\ w2.logged = code /\ w2.signature = signature
        /\ w2.encoding = "gzip" /\ w2.body = Wrap("open_gzip", body) /\ w2.written = TRUE
    BY <1>4, <1>6, <2>2 DEF IsWriter
  <2>4. w2 = [compresses |-> w2.compresses, type |-> w2.type, encoding |-> w2.encoding,
              signature |-> w2.signature, code |-> w2.code, logged |-> w2.logged,
              body |-> w2.body, written |-> w2.written]
    BY <1>4, <2>2 DEF IsWriter
  <2> HIDE DEF w2
  <2>5. w3 = [w2 EXCEPT !.body = Wrap("gzip", Unwrap(w2.body))]
    BY <2>3 DEF Close
  <2>6. /\ w3.code = code /\ w3.logged = code /\ w3.signature = signature
        /\ w3.encoding = "gzip" /\ w3.body = Wrap("gzip", Unwrap(Wrap("open_gzip", body)))
    BY <2>3, <2>4, <2>5
  <2> QED
    BY <1>6, <2>6 DEF w1, w2
<1>7. CASE ~ gzip
  <2>1. ~ (w1.compresses /\ checkContentTypeForCompression(w1))
    BY <1>4, <1>5, <1>7
  <2>2. w2 = [[w1 EXCEPT !.code = IF @ = 0 THEN 200 ELSE @] EXCEPT !.body = body]
    BY <2>1 DEF Write
  <2>3. /\ w2.code = code /\ w2.logged = code /\ w2.signature = signature
        /\ w2.encoding = "identity" /\ w2.body = body /\ w2.written = FALSE
    BY <1>4, <1>7, <2>2 DEF IsWriter
  <2> HIDE DEF w2
  <2>4. w3 = w2
    BY <2>3 DEF Close
  <2> QED
    BY <1>7, <2>3, <2>4 DEF w1, w2
<1> QED
  BY <1>6, <1>7

(* The client's gzip undoes that of the closed writer.                     *)
LEMMA GzipIsUndone ==
  ASSUME NEW body, body = [layers |-> << >>, form |-> body.form, content |-> body.content]
  PROVE  LET zipped == Wrap("gzip", Unwrap(Wrap("open_gzip", body)))
         IN  Outermost(zipped) = "gzip" /\ Unwrap(zipped) = body
<1>1. <<"open_gzip">> \o << >> = <<"open_gzip">> /\ <<"gzip">> \o << >> = <<"gzip">>
  OBVIOUS
<1>2. Wrap("open_gzip", body) =
        [layers |-> <<"open_gzip">>, form |-> body.form, content |-> body.content]
  BY <1>1 DEF Wrap
<1>t. Tail(<<"open_gzip">>) = << >> /\ Tail(<<"gzip">>) = << >> /\ Head(<<"gzip">>) = "gzip"
      /\ <<"gzip">> # << >>
  OBVIOUS
<1>3. Unwrap(Wrap("open_gzip", body)) = body
  <2> DEFINE inner == Wrap("open_gzip", body)
  <2>a. inner.layers = <<"open_gzip">>
    BY <1>2
  <2>0. Tail(inner.layers) = << >>
    BY <2>a, <1>t, Zenon
  <2>1. Unwrap(inner) = [inner EXCEPT !.layers = << >>]
    BY <2>0, Zenon DEF Unwrap
  <2>2. [[layers |-> <<"open_gzip">>, form |-> body.form, content |-> body.content]
           EXCEPT !.layers = << >>] =
          [layers |-> << >>, form |-> body.form, content |-> body.content]
    OBVIOUS
  <2> QED
    BY <1>2, <2>1, <2>2
<1>4. Wrap("gzip", body) =
        [layers |-> <<"gzip">>, form |-> body.form, content |-> body.content]
  BY <1>1 DEF Wrap
<1>5. Outermost(Wrap("gzip", body)) = "gzip"
  BY <1>4, <1>t DEF Outermost
<1>6. Unwrap(Wrap("gzip", body)) = [Wrap("gzip", body) EXCEPT !.layers = << >>]
  BY <1>4, <1>t DEF Unwrap
<1>7. Unwrap(Wrap("gzip", body)) = body
  BY <1>4, <1>6
<1> QED
  BY <1>3, <1>5, <1>7

(* http.Error on a fresh writer.                                           *)
LEMMA ErrorIsReadable ==
  ASSUME NEW key, NEW accepts, NEW w, WriterFor(accepts, w), NEW code \in Nat \ {0}
  PROVE  /\ ReadableResponse(key, accepts, RespondError(w, code))
         /\ RespondError(w, code).code = code
<1> DEFINE r == RespondError(w, code)
           body == Body("text", << >>)
<1>1. PICK b \in BOOLEAN : w = NewResponseWriter(b)
  BY DEF WriterFor
<1>2. Fresh([w EXCEPT !.type = "text/plain"], b, "text/plain", {})
  BY <1>1, FreshTyped
<1>3. body.layers = << >> /\ body.form # "unreadable"
  BY DEF Body
<1>4. /\ r.code = code /\ r.logged = code /\ r.signature = {}
      /\ r.encoding = "identity" /\ r.body = body
  BY <1>2, <1>3, Written DEF RespondError
<1> QED
  BY <1>3, <1>4, PlainIsReadable

(* A signed payload, compressed or not by its type.                        *)
LEMMA PayloadIsReadable ==
  ASSUME NEW k, NEW accepts, NEW w, WriterFor(accepts, w), NEW type, NEW form, NEW rows,
         form # "unreadable"
  PROVE  /\ ReadableResponse(k.secret, accepts, RespondPayload(w, k, type, Body(form, rows)))
         /\ RespondPayload(w, k, type, Body(form, rows)).code = 200
<1> DEFINE r == RespondPayload(w, k, type, Body(form, rows))
           body == Body(form, rows)
           signature == AddSignature(k.secret, body)
<1>1. PICK b \in BOOLEAN : (b => accepts) /\ w = NewResponseWriter(b)
  BY DEF WriterFor
<1>2. Fresh([w EXCEPT !.signature = signature, !.type = type], b, type, signature)
  BY <1>1, FreshTyped
<1>3. /\ body.layers = << >> /\ body.form = form
      /\ body = [layers |-> << >>, form |-> body.form, content |-> body.content]
  BY DEF Body
<1> HIDE DEF body, signature
<1>4. /\ r.code = 200 /\ r.logged = 200 /\ r.signature = signature
      /\ IF b /\ type \in {"application/json", "text/html"}
           THEN r.encoding = "gzip" /\ r.body = Wrap("gzip", Unwrap(Wrap("open_gzip", body)))
           ELSE r.encoding = "identity" /\ r.body = body
  BY <1>2, <1>3, Written DEF RespondPayload, body, signature
<1> HIDE DEF r
<1>5. Decoded(r) = body
  BY <1>3, <1>4, GzipIsUndone DEF Decoded
<1>6. signature = AddSignature(k.secret, body)
  BY DEF signature
<1>7. ReadableResponse(k.secret, accepts, r)
  BY <1>1, <1>3, <1>4, <1>5, <1>6 DEF ReadableResponse
<1> QED
  BY <1>4, <1>7 DEF r, body

-----------------------------------------------------------------------------
(* The memory.                                                             *)

Cell   == Stored \cup {Absent}
Memory == [ID -> Cell]

(* What a cell of the memory may be.                                       *)
LEMMA StoredFields ==
  /\ \A c \in Cell : c # Absent => (c.MType = Counter => c.Val \in Int)
  /\ \A v \in Int : [MType |-> Counter, Val |-> v] \in Stored
  /\ \A v \in Int \cup {NaN} : [MType |-> Gauge, Val |-> v] \in Stored
BY DEF Cell, Stored, Counter, Gauge

(* No metric is forgotten or changes its type from d to e.                 *)
TypesStay(d, e) ==
  \A id \in ID : d[id] # Absent => e[id] # Absent /\ e[id].MType = d[id].MType

(* An update keeps the types, and one that is refused keeps everything.    *)
LEMMA AccumulateKeepsTypes ==
  ASSUME NEW d \in Memory, NEW m \in Metrics(ID)
  PROVE  /\ Accumulate(d, m) \in Memory /\ TypesStay(d, Accumulate(d, m))
         /\ Refuses(d, m.ID, m.MType) => Accumulate(d, m) = d
<1>1. /\ m.ID \in ID /\ (m.MType = Counter => m.Val \in Int \cup {Nil})
      /\ m.MType = Gauge => m.Val \in Int \cup {Nil, NaN}
  BY DEF Metrics, Counter, Gauge, Other
<1>2. PICK c \in Cell : c = d[m.ID]
  BY <1>1 DEF Memory
<1>3. ASSUME NEW v \in Cell, c # Absent => v # Absent /\ v.MType = c.MType,
             Accumulate(d, m) = [d EXCEPT ![m.ID] = v]
      PROVE  Accumulate(d, m) \in Memory /\ TypesStay(d, Accumulate(d, m))
  BY <1>2, <1>3 DEF Memory, TypesStay
<1>4. CASE Accumulate(d, m) = d
  BY <1>4 DEF TypesStay
<1>5. CASE m.MType = Counter /\ m.Val # Nil /\ ~ Refuses(d, m.ID, Counter)
  <2>1. c # Absent => c.MType = Counter /\ c.Val \in Int
    BY <1>2, <1>5, StoredFields DEF Refuses
  <2>2. PICK n \in Int : n = (IF c = Absent THEN 0 ELSE c.Val) + m.Val
    BY <1>1, <1>5, <2>1
  <2>3. Accumulate(d, m) = [d EXCEPT ![m.ID] = [MType |-> Counter, Val |-> n]]
    BY <1>1, <1>2, <1>5, <2>2 DEF Accumulate, addCounterInMutex, Counter, Gauge, Memory
  <2>4. [MType |-> Counter, Val |-> n] \in Cell /\ [MType |-> Counter, Val |-> n] # Absent
    BY StoredFields, MemAssumption DEF Cell
  <2> QED
    BY <1>3, <1>5, <2>1, <2>3, <2>4
<1>6. CASE m.MType = Gauge /\ m.Val # Nil /\ ~ Refuses(d, m.ID, Gauge)
  <2>1. Accumulate(d, m) = [d EXCEPT ![m.ID] = [MType |-> Gauge, Val |-> m.Val]]
    BY <1>6 DEF Accumulate, setGaugeInMutex, Counter, Gauge
  <2>2. c # Absent => c.MType = Gauge
    BY <1>2, <1>6 DEF Refuses
  <2>3. [MType |-> Gauge, Val |-> m.Val] \in Cell /\ [MType |-> Gauge, Val |-> m.Val] # Absent
    BY <1>1, <1>6, StoredFields, MemAssumption DEF Cell
  <2> QED
    BY <1>3, <1>6, <2>1, <2>2, <2>3
<1>7. \/ Accumulate(d, m) = d
      \/ m.MType = Counter /\ m.Val # Nil /\ ~ Refuses(d, m.ID, Counter)
      \/ m.MType = Gauge /\ m.Val # Nil /\ ~ Refuses(d, m.ID, Gauge)
  BY DEF Accumulate, addCounterInMutex, setGaugeInMutex, Counter, Gauge
<1> QED
  BY <1>4, <1>5, <1>6, <1>7

(* A metric that refuses an update goes on refusing it.                    *)
LEMMA StillRefuses ==
  ASSUME NEW d, NEW e, TypesStay(d, e), NEW id \in ID, NEW type, Refuses(d, id, type)
  PROVE  Refuses(e, id, type)
BY DEF TypesStay, Refuses

-----------------------------------------------------------------------------
(* What an agent sends, and what arrives of it.                            *)

(* A layer is put on, and taken off again.                                 *)
LEMMA WrapKeeps ==
  ASSUME NEW layer \in Layer, NEW b \in BodyType
  PROVE  /\ Wrap(layer, b) \in BodyType
         /\ Outermost(Wrap(layer, b)) = layer
         /\ Unwrap(Wrap(layer, b)) = b
         /\ Wrap(layer, b).content = b.content /\ Wrap(layer, b).form = b.form
<1> DEFINE s == <<layer>> \o b.layers
<1>1. b.layers \in Seq(Layer) /\ <<layer>> \in Seq(Layer)
  BY DEF BodyType, Bodies
<1>2. /\ s \in Seq(Layer) /\ Len(s) = Len(b.layers) + 1 /\ Len(b.layers) \in Nat
      /\ s[1] = layer /\ \A i \in 1 .. Len(b.layers) : s[i + 1] = b.layers[i]
  BY <1>1, ConcatProperties, LenProperties
<1> HIDE DEF s
<1>3. s # << >>
  BY <1>2, EmptySeq
<1>4. Head(s) = layer /\ Tail(s) \in Seq(Layer) /\ Len(Tail(s)) = Len(b.layers)
      /\ \A i \in 1 .. Len(b.layers) : Tail(s)[i] = b.layers[i]
  BY <1>2, <1>3, HeadTailProperties
<1>5. Tail(s) = b.layers
  BY <1>1, <1>4, SeqEqual
<1>6. /\ Wrap(layer, b) \in BodyType /\ Wrap(layer, b).layers = s
      /\ Wrap(layer, b).content = b.content /\ Wrap(layer, b).form = b.form
  BY <1>2 DEF s, Wrap, BodyType, Bodies
<1>7. Outermost(Wrap(layer, b)) = layer
  BY <1>3, <1>4, <1>6 DEF Outermost
<1>8. Unwrap(Wrap(layer, b)) = b
  <2> DEFINE w == Wrap(layer, b)
  <2>1. Unwrap(w) = [w EXCEPT !.layers = b.layers]
    BY <1>5, <1>6 DEF Unwrap
  <2> HIDE DEF w
  <2>2. [w EXCEPT !.layers = b.layers] = b
    BY <1>6 DEF w, BodyType, Bodies
  <2> QED
    BY <2>1, <2>2 DEF w
<1> QED
  BY <1>6, <1>7, <1>8

(* A body without layers.                                                  *)
LEMMA PlainBody ==
  ASSUME NEW form \in Form, NEW content \in Content
  PROVE  /\ Body(form, content) \in BodyType
         /\ Outermost(Body(form, content)) = form
         /\ Body(form, content).content = content
<1>1. << >> \in Seq(Layer)
  OBVIOUS
<1> QED
  BY <1>1 DEF Body, BodyType, Bodies, Outermost

(* The envelope is opened by its own key.                                  *)
LEMMA EncryptKeeps ==
  ASSUME NEW key \in KeyName, NEW b \in BodyType
  PROVE  /\ Encrypt(key, b) \in BodyType /\ Encrypt(key, b).content = b.content
         /\ key = NoKey => Encrypt(key, b) = b
         /\ key # NoKey => Outermost(Encrypt(key, b)) = key /\ Unwrap(Encrypt(key, b)) = b
<1>1. key \in Layer
  BY DEF Layer
<1> QED
  BY <1>1, WrapKeeps DEF Encrypt

AgentRequest(k, r) ==
  \/ \E m \in Singles : r = SendMetricValue(k.agent, m) \/ r = SendMetric(k.agent, m)
  \/ \E metrics \in Batches : r = SendMetricArray(k.agent, metrics)

(* A signed body is verified when the keys are the same, or there is none. *)
LEMMA SignatureHolds ==
  ASSUME NEW a \in KeyName, NEW key \in KeyName, NEW r, r.signature = AddSignature(a, r.body)
  PROVE  Verified(key, r) <=> a \in {NoKey, key}
<1>1. CASE a = NoKey
  BY <1>1 DEF AddSignature, Verified
<1>2. CASE a # NoKey
  <2>1. r.signature = {[key |-> a, of |-> r.body]}
    BY <1>2 DEF AddSignature
  <2>2. ~ Undecodable([key |-> a, of |-> r.body])
    BY KeyIsNoForm DEF Undecodable
  <2>3. Verified(key, r) <=> [key |-> a, of |-> r.body] = [key |-> key, of |-> r.body]
    BY <2>1, <2>2 DEF Verified
  <2> QED
    BY <1>2, <2>3
<1> QED
  BY <1>1, <1>2

Fit(k, route) ==
  /\ route # "updates" => k.agent.secret \in {NoKey, k.server.secret}
  /\ IF route = "update_by_path" THEN k.server.private = NoKey
                                 ELSE k.agent.public = k.server.private

(* The metrics of an agent's request, and the form of its body before it   *)
(* was wrapped.                                                            *)
FormOf(route) == IF route = "update" THEN "object" ELSE "array"

(* What is in the body of an agent's request.                              *)
Packed(k, r) ==
  /\ r.encoding = "gzip" /\ r.path = << >> /\ r.route \in {"update", "updates"}
  /\ r.signature = IF r.route = "update" THEN AddSignature(k.agent.secret, r.body) ELSE {}
  /\ \E content \in Seq(Metrics(ID)) :
       r.body = Wrap("gzip", Encrypt(k.agent.public, Body(FormOf(r.route), content)))

(* The types of the keys.                                                  *)
LEMMA AgentKeysAre ==
  ASSUME NEW k \in KeyPairs
  PROVE  /\ k.agent.secret \in KeyName /\ k.agent.public \in KeyName
         /\ k.server \in ServerKeys
         /\ k.server.secret \in KeyName /\ k.server.private \in KeyName
BY DEF KeyPairs, AgentKeys, ServerKeys

(* What makes a request.                                                   *)
LEMMA RequestRecord ==
  ASSUME NEW route \in Route, NEW path \in Content, NEW encoding \in {"identity", "gzip"},
         NEW signature \in SUBSET [key : SignKey, of : BodyType], NEW body \in BodyType
  PROVE  [route |-> route, path |-> path, encoding |-> encoding, signature |-> signature,
          body |-> body] \in RequestType
BY DEF RequestType, Requests, BodyType, SignKey

(* What makes a signature.                                                 *)
LEMMA SignatureType ==
  ASSUME NEW key \in KeyName, NEW body \in BodyType
  PROVE  AddSignature(key, body) \in SUBSET [key : SignKey, of : BodyType]
BY DEF AddSignature, SignKey

(* No metrics are a content.                                               *)
LEMMA EmptyContent == << >> \in Content /\ << >> \in Seq(Metrics(ID))
BY DEF Content

(* The three requests of an agent.                                         *)
LEMMA AgentRequestForms ==
  ASSUME NEW k \in KeyPairs, NEW r, AgentRequest(k, r)
  PROVE  /\ r \in RequestType
         /\ Carried(r) \in Seq(Metrics(ID))
         /\ Carried(r) # << >> => WellFormed(Carried(r)[1])
         /\ \/ /\ r.route = "update_by_path" /\ r.encoding = "identity" /\ r.body = NoBody
               /\ r.signature = AddSignature(k.agent.secret, r.body)
               /\ Carried(r) # << >>
            \/ Packed(k, r) /\ (r.route = "update" => Carried(r) # << >>)
<1>0. "nothing" \in Form /\ "object" \in Form /\ "array" \in Form
  BY DEF Form
<1>s. "gzip" \in Layer /\ "update_by_path" \in Route /\ "update" \in Route /\ "updates" \in Route
  BY DEF Layer, Route
<1>1. CASE \E m \in Singles : r = SendMetricValue(k.agent, m)
  <2>1. PICK m \in Singles : r = SendMetricValue(k.agent, m)
    BY <1>1
  <2>2. m \in Metrics(ID) /\ WellFormed(m)
    BY GatewayAssumption
  <2>3. <<m>> \in Seq(Metrics(ID)) /\ <<m>> \in Content /\ <<m>> # << >> /\ <<m>>[1] = m
    BY <2>2 DEF Content
  <2>4. NoBody \in BodyType
    BY <1>0, EmptyContent, PlainBody DEF NoBody
  <2>5. AddSignature(k.agent.secret, NoBody) \in SUBSET [key : SignKey, of : BodyType]
    BY <2>4, AgentKeysAre, SignatureType
  <2>6. r \in RequestType
    BY <1>s, <2>1, <2>3, <2>4, <2>5, RequestRecord DEF SendMetricValue
  <2>7. /\ r.route = "update_by_path" /\ r.encoding = "identity" /\ r.body = NoBody
        /\ r.signature = AddSignature(k.agent.secret, NoBody) /\ r.path = <<m>>
    BY <2>1 DEF SendMetricValue
  <2>8. Carried(r) = <<m>>
    BY <2>7 DEF Carried
  <2> QED
    BY <2>2, <2>3, <2>6, <2>7, <2>8
<1>2. CASE \E m \in Singles : r = SendMetric(k.agent, m)
  <2>1. PICK m \in Singles : r = SendMetric(k.agent, m)
    BY <1>2
  <2>2. m \in Metrics(ID) /\ WellFormed(m)
    BY GatewayAssumption
  <2>3. <<m>> \in Seq(Metrics(ID)) /\ <<m>> \in Content /\ <<m>> # << >> /\ <<m>>[1] = m
    BY <2>2 DEF Content
  <2> DEFINE plain == Body("object", <<m>>)
             sealed == Encrypt(k.agent.public, plain)
             body == Wrap("gzip", sealed)
  <2>4. plain \in BodyType /\ plain.content = <<m>>
    BY <1>0, <2>3, PlainBody
  <2>5. sealed \in BodyType /\ sealed.content = <<m>>
    BY <2>4, AgentKeysAre, EncryptKeeps
  <2>6. body \in BodyType /\ body.content = <<m>>
    BY <1>s, <2>5, WrapKeeps
  <2>7. r = [route |-> "update", path |-> << >>, encoding |-> "gzip",
             signature |-> AddSignature(k.agent.secret, body), body |-> body]
    BY <2>1 DEF SendMetric, WriteFlushed
  <2>8. body = Wrap("gzip", Encrypt(k.agent.public, Body(FormOf("update"), <<m>>)))
    BY DEF FormOf
  <2> HIDE DEF body
  <2>9. AddSignature(k.agent.secret, body) \in SUBSET [key : SignKey, of : BodyType]
    BY <2>6, AgentKeysAre, SignatureType
  <2>10. r \in RequestType
    BY <1>s, <2>6, <2>7, <2>9, EmptyContent, RequestRecord
  <2>11. /\ r.route = "update" /\ r.encoding = "gzip" /\ r.body = body /\ r.path = << >>
         /\ r.signature = AddSignature(k.agent.secret, body)
    BY <2>7
  <2>12. Carried(r) = <<m>>
    BY <2>6, <2>11 DEF Carried
  <2>13. Packed(k, r)
    BY <2>3, <2>8, <2>11 DEF Packed
  <2> QED
    BY <2>2, <2>3, <2>10, <2>12, <2>13
<1>3. CASE \E metrics \in Batches : r = SendMetricArray(k.agent, metrics)
  <2>1. PICK metrics \in Batches : r = SendMetricArray(k.agent, metrics)
    BY <1>3
  <2>2. metrics \in Seq(Metrics(ID)) /\ metrics \in Content
        /\ \A m \in ToSet(metrics) : WellFormed(m)
    BY GatewayAssumption DEF Content
  <2>3. metrics # << >> => WellFormed(metrics[1])
    <3>1. metrics # << >> => 1 \in DOMAIN metrics
      BY <2>2, EmptySeq, LenProperties
    <3> QED
      BY <2>2, <3>1 DEF ToSet
  <2> DEFINE plain == Body("array", metrics)
             sealed == Encrypt(k.agent.public, plain)
             body == Wrap("gzip", sealed)
  <2>4. plain \in BodyType /\ plain.content = metrics
    BY <1>0, <2>2, PlainBody
  <2>5. sealed \in BodyType /\ sealed.content = metrics
    BY <2>4, AgentKeysAre, EncryptKeeps
  <2>6. body \in BodyType /\ body.content = metrics
    BY <1>s, <2>5, WrapKeeps
  <2>7. r = [route |-> "updates", path |-> << >>, encoding |-> "gzip",
             signature |-> {}, body |-> body]
    BY <2>1 DEF SendMetricArray, WriteFlushed
  <2>8. body = Wrap("gzip", Encrypt(k.agent.public, Body(FormOf("updates"), metrics)))
    BY DEF FormOf
  <2> HIDE DEF body
  <2>10. r \in RequestType
    BY <1>s, <2>6, <2>7, EmptyContent, RequestRecord
  <2>11. /\ r.route = "updates" /\ r.encoding = "gzip" /\ r.body = body /\ r.path = << >>
         /\ r.signature = {}
    BY <2>7
  <2>12. Carried(r) = metrics
    BY <2>6, <2>11 DEF Carried
  <2>13. Packed(k, r)
    BY <2>2, <2>8, <2>11 DEF Packed
  <2> QED
    BY <2>2, <2>3, <2>10, <2>11, <2>12, <2>13
<1> QED
  BY <1>1, <1>2, <1>3 DEF AgentRequest

(* The handler sees what a fitting agent sent; of another one it sees an   *)
(* envelope, if anything.                                                  *)
LEMMA AgentArrives ==
  ASSUME NEW k \in KeyPairs, NEW r, AgentRequest(k, r)
  PROVE  LET arrival == Chain(k.server, r)
         IN  /\ Fit(k, r.route) => arrival.code = 0
             /\ Fit(k, r.route) /\ r.route # "update_by_path" =>
                  Outermost(arrival.request.body) = FormOf(r.route)
             /\ ~ Fit(k, r.route) /\ arrival.code = 0 =>
                  /\ r.route # "update_by_path"
                  /\ Outermost(arrival.request.body) \notin Form
<1> DEFINE key == k.server.private
           pub == k.agent.public
<1>1. /\ k.agent.secret \in KeyName /\ pub \in KeyName /\ k.server \in ServerKeys
      /\ k.server.secret \in KeyName /\ key \in KeyName
  BY AgentKeysAre
<1>2. r \in RequestType
  BY AgentRequestForms
<1>3. CASE /\ r.route = "update_by_path" /\ r.encoding = "identity" /\ r.body = NoBody
           /\ r.signature = AddSignature(k.agent.secret, r.body)
  <2>1. Verified(k.server.secret, r) <=> k.agent.secret \in {NoKey, k.server.secret}
    BY <1>1, <1>3, SignatureHolds
  <2>2. Compressing(r).code = 0 /\ Compressing(r).request = r
    BY <1>2, <1>3, CompressingResult, PassesFields
  <2>3. Outermost(r.body) = "nothing" /\ "nothing" \in Form
    <3>1. "nothing" \in Form
      BY DEF Form
    <3> QED
      BY <1>3, <3>1, EmptyContent, PlainBody DEF NoBody
  <2>4. key # NoKey => Outermost(r.body) # key
    BY <1>1, <2>3, KeyIsNoForm
  <2>5. IF key = NoKey THEN Decryption(key, r).code = 0 ELSE Decryption(key, r).code = 400
    BY <1>1, <1>2, <2>4, DecryptionResult, PassesFields
  <2>6. r.route \in Secured
    BY <1>3 DEF Secured
  <2>7. Chain(k.server, r).code = 0 <=> Fit(k, r.route)
    <3>1. CASE ~ Verified(k.server.secret, r)
      BY <1>1, <1>2, <1>3, <2>1, <2>6, <3>1, ChainForms DEF Fit
    <3>2. CASE Verified(k.server.secret, r)
      <4>1. Chain(k.server, r) = Decryption(key, r)
        BY <1>1, <1>2, <2>2, <2>6, <3>2, ChainForms
      <4> QED
        BY <1>3, <2>1, <2>5, <3>2, <4>1 DEF Fit
    <3> QED
      BY <3>1, <3>2
  <2> QED
    BY <1>3, <2>7
<1>4. CASE Packed(k, r)
  <2>1. PICK content \in Seq(Metrics(ID)) :
          r.body = Wrap("gzip", Encrypt(pub, Body(FormOf(r.route), content)))
    BY <1>4 DEF Packed
  <2> DEFINE plain == Body(FormOf(r.route), content)
             sealed == Encrypt(pub, plain)
  <2>2. FormOf(r.route) \in Form /\ content \in Content /\ "gzip" \in Layer
    BY DEF FormOf, Form, Content, Layer
  <2>3. plain \in BodyType /\ Outermost(plain) = FormOf(r.route)
    BY <2>2, PlainBody
  <2>4. /\ sealed \in BodyType
        /\ pub = NoKey => sealed = plain
        /\ pub # NoKey => Outermost(sealed) = pub /\ Unwrap(sealed) = plain
    BY <1>1, <2>3, EncryptKeeps
  <2> HIDE DEF plain, sealed
  <2>5. Outermost(r.body) = "gzip" /\ Unwrap(r.body) = sealed
    BY <2>1, <2>2, <2>4, WrapKeeps DEF sealed, plain
  <2> DEFINE q == [r EXCEPT !.body = sealed]
  <2>6. q \in RequestType /\ q.body = sealed
    BY <1>2, <2>4, BodyReplaced
  <2>7. Compressing(r).code = 0 /\ Compressing(r).request = q
    <3>1. Compressing(r) = Passes(Opened(r))
      BY <1>2, <1>4, <2>5, CompressingResult DEF Packed
    <3>2. Opened(r) = q
      BY <2>5 DEF Opened
    <3> QED
      BY <3>1, <3>2, PassesFields
  <2> HIDE DEF q
  <2>8. r.route \in Secured
    BY <1>4 DEF Packed, Secured
  <2>9. Verified(k.server.secret, r) <=>
          (r.route # "updates" => k.agent.secret \in {NoKey, k.server.secret})
    <3>1. CASE r.route = "update"
      <4>1. r.signature = AddSignature(k.agent.secret, r.body)
        BY <1>4, <3>1 DEF Packed
      <4> QED
        BY <1>1, <3>1, <4>1, SignatureHolds
    <3>2. CASE r.route = "updates"
      <4>1. r.signature = {}
        BY <1>4, <3>2 DEF Packed
      <4> QED
        BY <3>2, <4>1 DEF Verified
    <3> QED
      BY <1>4, <3>1, <3>2 DEF Packed
  <2>10. Fit(k, r.route) <=> Verified(k.server.secret, r) /\ pub = key
    BY <1>4, <2>9 DEF Fit, Packed
  <2>11. r.route # "update_by_path"
    BY <1>4 DEF Packed
  <2>12. CASE ~ Verified(k.server.secret, r)
    <3>1. Chain(k.server, r).code # 0
      BY <1>1, <1>2, <2>8, <2>12, ChainForms
    <3> QED
      BY <2>10, <2>12, <3>1
  <2>13. CASE Verified(k.server.secret, r)
    <3>1. Chain(k.server, r) = Decryption(key, q)
      BY <1>1, <1>2, <2>7, <2>8, <2>13, ChainForms
    <3>2. CASE key = NoKey
      <4>1. Chain(k.server, r).code = 0 /\ Chain(k.server, r).request = q
        BY <1>1, <2>6, <3>1, <3>2, DecryptionResult, PassesFields
      <4>2. pub # key => Outermost(q.body) \notin Form
        BY <1>1, <2>4, <2>6, <3>2, KeyIsNoForm
      <4>3. pub = key => Outermost(q.body) = FormOf(r.route)
        BY <2>3, <2>4, <2>6, <3>2
      <4> QED
        BY <2>10, <2>11, <2>13, <4>1, <4>2, <4>3
    <3>3. CASE key # NoKey /\ pub = key
      <4>1. Outermost(q.body) = key /\ Unwrap(q.body) = plain
        BY <2>4, <2>6, <3>3
      <4>2. Decryption(key, q) = Passes(Opened(q))
        BY <1>1, <2>6, <3>3, <4>1, DecryptionResult
      <4>3. Opened(q).body = plain
        BY <2>3, <2>6, <4>1, BodyReplaced DEF Opened
      <4>4. Chain(k.server, r).code = 0 /\ Chain(k.server, r).request.body = plain
        BY <3>1, <4>2, <4>3, PassesFields
      <4> QED
        BY <2>3, <2>10, <2>13, <3>3, <4>4
    <3>4. CASE key # NoKey /\ pub # key
      <4>1. Outermost(q.body) # key
        BY <1>1, <2>2, <2>3, <2>4, <2>6, <3>4, KeyIsNoForm
      <4>2. Chain(k.server, r).code = 400
        BY <1>1, <2>6, <3>1, <3>4, <4>1, DecryptionResult
      <4> QED
        BY <2>10, <3>4, <4>2
    <3> QED
      BY <3>2, <3>3, <3>4
  <2> QED
    BY <2>12, <2>13
<1> QED
  BY <1>3, <1>4, AgentRequestForms

-----------------------------------------------------------------------------
(* One exchange.                                                           *)

IsExchange(x) ==
  {"pc", "sent", "request", "accepts", "unpacked", "todo", "listing", "rows", "response"}
    \subseteq DOMAIN x

(* No signature is of the inside of the body it comes with.                *)
SignOK(r) ==
  \A sign \in r.signature :
    Undecodable(sign) \/ Len(sign.of.layers) >= Len(r.body.layers)

(* No other program signs the inside of the body it sends: a proxy that    *)
(* unpacks the body would make such a signature hold.  Agents sign what    *)
(* they send.                                                              *)
SignedAsSent == \A r \in Posts : SignOK(r)

(* A path names a metric, and an object is one.                            *)
NamesMetric(r) ==
  r.route = "update_by_path" \/ (r.route = "update" /\ r.body.form = "object") =>
    Carried(r) # << >>

SentOK(r) ==
  /\ r \in RequestType /\ NamesMetric(r)
  /\ r.route \in Secured => Carried(r) \in Seq(Metrics(ID))
  /\ SignedAsSent => SignOK(r)

ShapeOK(x) ==
  /\ IsExchange(x) /\ x.accepts \in BOOLEAN /\ x.unpacked \in BOOLEAN
  /\ SentOK(x.sent) /\ Same(x.request, x.sent)

(* What is on its way is what was sent, or less.                           *)
ArrivingOK(x) ==
  x.pc = "sent" =>
    /\ x.request.signature = x.sent.signature
    /\ IF x.unpacked THEN Len(x.request.body.layers) < Len(x.sent.body.layers)
                     ELSE x.request = x.sent

IsGenuine(k, x) ==
  /\ k.server.private # NoKey => k.server.private \in ToSet(x.sent.body.layers)
  /\ \A sign \in x.sent.signature :
       sign.key = k.server.secret /\ sign.of = x.sent.body /\ ~ x.unpacked

(* What passed the middlewares.                                            *)
PassedOK(k, x) ==
  /\ SignedAsSent /\ x.pc \in {"handle", "apply"} /\ x.sent.route \in Secured => IsGenuine(k, x)
  /\ x.pc = "apply" => x.sent.route = "updates" /\ x.todo \in Seq(Metrics(ID))

ResponseOK(k, x) ==
  /\ x.pc \in {"handle", "apply", "render"} => WriterFor(x.accepts, x.response)
  /\ x.pc = "answered" => ReadableResponse(k.server.secret, x.accepts, x.response)

Delivered(k, d, request, code) ==
  IF Fit(k, request.route)
    THEN \/ code \in {200, 500}
         \/ /\ code = 400
            /\ \E m \in ToSet(Carried(request)) : Refuses(d, m.ID, m.MType)
    ELSE code \in {400, 401}

(* An agent's request fits, or it is an envelope that no handler reads.    *)
AgentOK(k, d, x) ==
  /\ x.pc # "idle" => AgentRequest(k, x.sent)
  /\ x.pc # "render"
  /\ ~ x.unpacked =>
       /\ x.pc = "handle" /\ Fit(k, x.sent.route) /\ x.sent.route # "update_by_path" =>
            Outermost(x.request.body) = FormOf(x.sent.route)
       /\ x.pc = "handle" /\ ~ Fit(k, x.sent.route) =>
            x.sent.route # "update_by_path" /\ Outermost(x.request.body) \notin Form
       /\ x.pc = "apply" => Fit(k, x.sent.route)
       /\ x.pc = "answered" => Delivered(k, d, x.sent, x.response.code)

ClientOK(k, d, c, x) ==
  /\ ShapeOK(x) /\ ArrivingOK(x) /\ PassedOK(k, x) /\ ResponseOK(k, x)
  /\ c \in Agent => AgentOK(k, d, x)

GatewayInv ==
  /\ keys \in KeyPairs /\ data \in Memory /\ DOMAIN exchange = Client
  /\ \A c \in Client : ClientOK(keys, data, c, exchange[c])

RowType == [ID : ID, MType : {Counter}, Val : Int]
             \cup [ID : ID, MType : {Gauge}, Val : Int \cup {NaN}]

(* A row shows what its metric has been, according to the history s.       *)
RowOK(s, row) == [MType |-> row.MType, Val |-> row.Val] \in s[row.ID]

InOrder(rows, listing) ==
  /\ \A i, j \in DOMAIN rows : i < j => rows[i].ID < rows[j].ID
  /\ \A i, j \in DOMAIN listing : i < j => listing[i] < listing[j]
  /\ \A i \in DOMAIN rows, j \in DOMAIN listing : rows[i].ID < listing[j]

Covers(s, rows, listing) ==
  \A id \in ID : Absent \notin s[id] =>
    (\E i \in DOMAIN rows : rows[i].ID = id) \/ (\E j \in DOMAIN listing : listing[j] = id)

(* What a read of this route has rendered and has still to render.         *)
Rendering(d, s, route, rows, listing) ==
  /\ rows \in Seq(RowType) /\ listing \in Seq(ID)
  /\ \A j \in DOMAIN listing : d[listing[j]] # Absent
  /\ \A i \in DOMAIN rows : RowOK(s, rows[i])
  /\ InOrder(rows, listing)
  /\ route = "page" => Covers(s, rows, listing)

(* The history s has the memory d.                                         *)
Has(s, d) == \A id \in ID : d[id] \in s[id]

Over == {"idle", "answered", "aborted"}

(* The exchange of a reader, and its history.                              *)
ReaderOK(d, s, x) ==
  /\ x.pc \notin Over => Has(s, d)
  /\ x.pc \in {"sent", "handle"} => x.rows = << >>
  /\ x.pc = "render" => Rendering(d, s, x.sent.route, x.rows, x.listing)
  /\ x.pc = "answered" /\ x.response.code = 200 /\ x.sent.route # "ping" =>
       Rendering(d, s, x.sent.route, Decoded(x.response).content, << >>)

ReaderInv ==
  /\ IsFiniteSet(Existing)
  /\ \A c \in Reader : ReaderOK(data, since[c], exchange[c])

(* The metrics of an agent's request are known.                            *)
LEMMA AgentMetrics ==
  ASSUME NEW k \in KeyPairs, NEW r, AgentRequest(k, r)
  PROVE  \A m \in ToSet(Carried(r)) : m \in Metrics(ID) /\ m.ID \in ID
<1>1. Carried(r) \in Seq(Metrics(ID))
  BY AgentRequestForms
<1>2. \A m \in ToSet(Carried(r)) : m \in Metrics(ID)
  BY <1>1 DEF ToSet
<1> QED
  BY <1>2 DEF Metrics

(* What others do to the memory takes nothing back.                        *)
LEMMA OthersKeep ==
  ASSUME NEW k \in KeyPairs, NEW d, NEW e, TypesStay(d, e), NEW c, NEW x, ClientOK(k, d, c, x)
  PROVE  ClientOK(k, e, c, x)
<1>1. ASSUME c \in Agent, x.pc = "answered", ~ x.unpacked
      PROVE  Delivered(k, e, x.sent, x.response.code)
  <2>1. AgentRequest(k, x.sent) /\ Delivered(k, d, x.sent, x.response.code)
    BY <1>1 DEF ClientOK, AgentOK
  <2>2. \A m \in ToSet(Carried(x.sent)) : Refuses(d, m.ID, m.MType) => Refuses(e, m.ID, m.MType)
    BY <2>1, AgentMetrics, StillRefuses
  <2> QED
    BY <2>1, <2>2 DEF Delivered
<1> QED
  BY <1>1 DEF ClientOK, AgentOK

(* A step of one client, which keeps what holds of its own exchange.       *)
LEMMA StepKeeps ==
  ASSUME GatewayInv, NEW c \in Client, NEW y, exchange' = [exchange EXCEPT ![c] = y],
         keys' = keys, data' \in Memory, TypesStay(data, data'),
         ClientOK(keys, data', c, y)
  PROVE  GatewayInv'
<1>1. ASSUME NEW b \in Client
      PROVE  ClientOK(keys, data', b, exchange'[b])
  <2>1. CASE b = c
    BY <2>1 DEF GatewayInv
  <2>2. CASE b # c
    <3>1. exchange'[b] = exchange[b] /\ ClientOK(keys, data, b, exchange[b]) /\ keys \in KeyPairs
      BY <2>2 DEF GatewayInv
    <3> QED
      BY <3>1, OthersKeep
  <2> QED
    BY <2>1, <2>2
<1> QED
  BY <1>1 DEF GatewayInv

-----------------------------------------------------------------------------
(* The clients.                                                            *)

(* An exchange that begins.                                                *)
LEMMA NewExchange ==
  ASSUME NEW k, NEW d, NEW c, NEW pc \in {"idle", "sent"}, NEW r, NEW accepts \in BOOLEAN,
         SentOK(r), c \in Agent /\ pc = "sent" => AgentRequest(k, r)
  PROVE  ClientOK(k, d, c, Exchange(pc, r, accepts))
<1> DEFINE x == Exchange(pc, r, accepts)
<1>1. /\ IsExchange(x) /\ x.pc = pc /\ x.sent = r /\ x.request = r /\ x.accepts = accepts
      /\ x.unpacked = FALSE
  BY DEF Exchange, IsExchange
<1> HIDE DEF x
<1>2. ShapeOK(x)
  BY <1>1, SameItself DEF ShapeOK, SentOK
<1>3. ArrivingOK(x) /\ PassedOK(k, x) /\ ResponseOK(k, x)
  BY <1>1 DEF ArrivingOK, PassedOK, ResponseOK
<1>4. c \in Agent => AgentOK(k, d, x)
  BY <1>1 DEF AgentOK
<1> QED
  BY <1>2, <1>3, <1>4 DEF x, ClientOK

(* The requests of agents are well-formed.                                 *)
LEMMA AgentSends ==
  ASSUME NEW k \in KeyPairs, NEW r, AgentRequest(k, r)
  PROVE  SentOK(r)
<1>1. r \in RequestType /\ Carried(r) \in Seq(Metrics(ID))
  BY AgentRequestForms
<1>2. \A sign \in r.signature : sign.of = r.body
  <2>1. r.signature = {} \/ r.signature = AddSignature(k.agent.secret, r.body)
    BY AgentRequestForms DEF Packed
  <2> QED
    BY <2>1 DEF AddSignature
<1>3. Len(r.body.layers) \in Nat
  BY <1>1, RequestFields, LenProperties DEF BodyType, Bodies
<1>4. SignOK(r)
  BY <1>2, <1>3 DEF SignOK
<1>5. NamesMetric(r)
  BY AgentRequestForms DEF NamesMetric, Packed
<1> QED
  BY <1>1, <1>4, <1>5 DEF SentOK

(* So are those of other programs.                                         *)
LEMMA ProgramSends ==
  ASSUME NEW r \in Posts
  PROVE  SentOK(r)
<1>1. r \in Requests(Seq(Metrics(ID)))
  BY GatewayAssumption
<1>2. r.body \in Bodies(Seq(Metrics(ID))) /\ r.path \in Seq(Metrics(ID))
  BY <1>1 DEF Requests
<1>3. Carried(r) \in Seq(Metrics(ID))
  BY <1>2 DEF Bodies, Carried
<1>4. r \in RequestType
  <2>1. \A b \in Bodies(Seq(Metrics(ID))) : b \in BodyType
    BY DEF Bodies, BodyType, Content
  <2>2. Seq(Metrics(ID)) \subseteq Content
    BY DEF Content
  <2> DEFINE S == Seq(Metrics(ID))
             B == Bodies(S)
  <2>3. r \in [route : Route, path : S, encoding : {"identity", "gzip"},
               signature : SUBSET [key : SignKey, of : B], body : B]
    BY <1>1 DEF Requests, SignKey
  <2>4. S \subseteq Content /\ B \subseteq BodyType
    BY <2>1, <2>2
  <2> HIDE DEF S, B
  <2>5. r.signature \in SUBSET [key : SignKey, of : BodyType]
    BY <2>3, <2>4
  <2> QED
    BY <2>3, <2>4, <2>5 DEF RequestType, Requests, BodyType, SignKey
<1>5. NamesMetric(r)
  BY GatewayAssumption DEF NamesMetric, Carried
<1> QED
  BY <1>3, <1>4, <1>5 DEF SentOK, SignedAsSent, SignOK

(* So is the request that is none.                                         *)
LEMMA NoRequestOK == NoRequest \in RequestType /\ NoRequest.signature = {}
                     /\ NoRequest.route = "none" /\ NoRequest.body = NoBody
<1>1. NoBody \in BodyType
  <2>1. "nothing" \in Form
    BY DEF Form
  <2> QED
    BY <2>1, EmptyContent, PlainBody DEF NoBody
<1>2. "none" \in Route
  BY DEF Route
<1> QED
  BY <1>1, <1>2, EmptyContent, RequestRecord DEF NoRequest

(* So are those of readers.                                                *)
LEMMA ReaderSends ==
  ASSUME NEW q \in Questions
  PROVE  LET metric == <<[ID |-> q.id, MType |-> q.mtype, Val |-> Nil]>>
         IN  /\ q.route = "value" =>
                  SentOK([NoRequest EXCEPT !.route = q.route, !.body = Body("object", metric)])
             /\ q.route # "value" =>
                  SentOK([NoRequest EXCEPT !.route = q.route, !.path = metric])
             /\ q.accepts \in BOOLEAN
<1>1. /\ q.id \in Nat /\ q.mtype \in {Counter, Gauge, Other} /\ q.accepts \in BOOLEAN
      /\ q.route \in Route /\ q.route \notin Secured
  BY GatewayAssumption DEF Route, Secured
<1> DEFINE m == [ID |-> q.id, MType |-> q.mtype, Val |-> Nil]
           metric == <<m>>
<1>2. m \in Metrics(Nat)
  BY <1>1 DEF Metrics
<1> HIDE DEF m
<1>3. metric \in Content
  BY <1>2 DEF Content
<1>4. Body("object", metric) \in BodyType
  BY <1>3, PlainBody DEF Form
<1> HIDE DEF metric
<1>5. ASSUME NEW r, r \in RequestType, r.route = q.route, r.signature = {}
      PROVE  SentOK(r)
  BY <1>1, <1>5 DEF SentOK, SignOK, NamesMetric, Secured
<1>6. SentOK([NoRequest EXCEPT !.route = q.route, !.body = Body("object", metric)])
  <2> DEFINE r == [NoRequest EXCEPT !.route = q.route, !.body = Body("object", metric)]
  <2>1. r \in RequestType /\ r.route = q.route /\ r.signature = {}
    BY <1>1, <1>4, NoRequestOK DEF RequestType, Requests, BodyType
  <2> HIDE DEF r
  <2>2. SentOK(r)
    BY <1>5, <2>1
  <2> QED
    BY <2>2 DEF r
<1>7. SentOK([NoRequest EXCEPT !.route = q.route, !.path = metric])
  <2> DEFINE r == [NoRequest EXCEPT !.route = q.route, !.path = metric]
  <2>1. r \in RequestType /\ r.route = q.route /\ r.signature = {}
    BY <1>1, <1>3, NoRequestOK DEF RequestType, Requests, BodyType
  <2> HIDE DEF r
  <2>2. SentOK(r)
    BY <1>5, <2>1
  <2> QED
    BY <2>2 DEF r
<1> QED
  BY <1>1, <1>6, <1>7 DEF metric, m

(* What was unpacked is less than what was sent.                           *)
LEMMA UnpackKeeps ==
  ASSUME NEW k, NEW d, NEW c, NEW x, ClientOK(k, d, c, x),
         x.pc = "sent", Outermost(x.request.body) = "gzip"
  PROVE  ClientOK(k, d, c, [x EXCEPT !.request.body = Unwrap(@),
                                     !.request.encoding = "identity", !.unpacked = TRUE])
<1> DEFINE y == [x EXCEPT !.request.body = Unwrap(@), !.request.encoding = "identity",
                          !.unpacked = TRUE]
           r == x.request
           b == Unwrap(r.body)
           q == y.request
<1>1. /\ IsExchange(x) /\ x.accepts \in BOOLEAN /\ SentOK(x.sent) /\ Same(r, x.sent)
      /\ r \in RequestType /\ r.signature = x.sent.signature
      /\ c \in Agent => AgentRequest(k, x.sent)
  BY DEF ClientOK, ShapeOK, ArrivingOK, Same, AgentOK
<1>2. /\ IsExchange(y) /\ y.pc = "sent" /\ y.sent = x.sent /\ y.accepts = x.accepts
      /\ y.unpacked = TRUE /\ q = [[r EXCEPT !.body = b] EXCEPT !.encoding = "identity"]
  BY <1>1 DEF IsExchange
<1>3. r.body \in BodyType /\ Same(Opened(r), r) /\ Opened(r).body = b
  BY <1>1, RequestFields, UnwrapSame, GzipIsNoForm
<1>4. b \in BodyType /\ b.layers = Tail(r.body.layers) /\ r.body.layers # << >>
      /\ r.body.layers \in Seq(Layer)
  BY <1>3, UnwrapKeeps, GzipIsNoForm
<1>5. Len(b.layers) < Len(r.body.layers) /\ Len(r.body.layers) \in Nat /\ Len(b.layers) \in Nat
  <2>1. /\ Len(Tail(r.body.layers)) = Len(r.body.layers) - 1
        /\ Len(r.body.layers) \in Nat /\ Tail(r.body.layers) \in Seq(Layer)
    BY <1>4, TailLayers
  <2>2. Len(Tail(r.body.layers)) \in Nat
    BY <2>1, LenProperties
  <2> QED
    BY <1>4, <2>1, <2>2
<1>6. Len(r.body.layers) <= Len(x.sent.body.layers) /\ Len(x.sent.body.layers) \in Nat
  <2>1. Len(x.sent.body.layers) \in Nat
    BY <1>1, RequestFields, LenProperties DEF SentOK, BodyType, Bodies
  <2>2. x.unpacked \in BOOLEAN
    BY DEF ClientOK, ShapeOK
  <2>3. IF x.unpacked THEN Len(r.body.layers) < Len(x.sent.body.layers) ELSE r = x.sent
    BY DEF ClientOK, ArrivingOK
  <2> QED
    BY <1>5, <2>1, <2>2, <2>3
<1>7. /\ q \in RequestType /\ q.body = b /\ q.route = r.route /\ q.path = r.path
      /\ q.signature = r.signature
  <2>1. /\ [r EXCEPT !.body = b] \in RequestType /\ [r EXCEPT !.body = b].body = b
        /\ [r EXCEPT !.body = b].route = r.route /\ [r EXCEPT !.body = b].path = r.path
        /\ [r EXCEPT !.body = b].signature = r.signature
    BY <1>1, <1>4, BodyReplaced
  <2> DEFINE p == [r EXCEPT !.body = b]
  <2> HIDE DEF p
  <2>2. /\ [p EXCEPT !.encoding = "identity"] \in RequestType
        /\ [p EXCEPT !.encoding = "identity"].body = p.body
        /\ [p EXCEPT !.encoding = "identity"].route = p.route
        /\ [p EXCEPT !.encoding = "identity"].path = p.path
        /\ [p EXCEPT !.encoding = "identity"].signature = p.signature
    BY <2>1 DEF p, RequestType, Requests
  <2> QED
    BY <1>2, <2>1, <2>2 DEF p
<1>8. Same(q, r)
  BY <1>3, <1>7 DEF Same
<1> HIDE DEF y, q, b, r
<1>9. ShapeOK(y)
  BY <1>1, <1>2, <1>8, SameTransitive DEF ShapeOK, q
<1>10. ArrivingOK(y)
  BY <1>1, <1>2, <1>5, <1>6, <1>7 DEF ArrivingOK, q
<1>11. PassedOK(k, y) /\ ResponseOK(k, y) /\ (c \in Agent => AgentOK(k, d, y))
  BY <1>1, <1>2 DEF PassedOK, ResponseOK, AgentOK
<1> QED
  BY <1>9, <1>10, <1>11 DEF y, ClientOK

-----------------------------------------------------------------------------
(* The server.                                                             *)

(* The request that a handler gets went through the middlewares: it is     *)
(* genuine, and an agent's is readable exactly if the keys fit.            *)
LEMMA ArrivalKeeps ==
  ASSUME NEW k \in KeyPairs, NEW d, NEW c, NEW x, ClientOK(k, d, c, x), x.pc = "sent",
         NEW w, WriterFor(x.accepts, w), Chain(k.server, x.request).code = 0
  PROVE  ClientOK(k, d, c, [x EXCEPT !.pc = "handle",
                                     !.request = Chain(k.server, x.request).request,
                                     !.response = w])
<1> DEFINE q == Chain(k.server, x.request).request
           y == [x EXCEPT !.pc = "handle", !.request = q, !.response = w]
<1>1. /\ IsExchange(x) /\ x.accepts \in BOOLEAN /\ x.unpacked \in BOOLEAN /\ SentOK(x.sent)
      /\ Same(x.request, x.sent) /\ ArrivingOK(x) /\ (c \in Agent => AgentOK(k, d, x))
      /\ x.request \in RequestType /\ x.request.route = x.sent.route
      /\ ToSet(x.request.body.layers) \subseteq ToSet(x.sent.body.layers)
  BY DEF ClientOK, ShapeOK, Same, Inside
<1>2. /\ IsExchange(y) /\ y.pc = "handle" /\ y.sent = x.sent /\ y.request = q
      /\ y.response = w /\ y.accepts = x.accepts /\ y.unpacked = x.unpacked
  BY <1>1 DEF IsExchange
<1>3. k.server \in ServerKeys
  BY AgentKeysAre
<1>4. /\ Same(q, x.request)
      /\ x.request.route \in Secured =>
           /\ Verified(k.server.secret, x.request)
           /\ k.server.private # NoKey => k.server.private \in ToSet(x.request.body.layers)
  BY <1>1, <1>3, ChainPasses
<1> HIDE DEF y
<1>5. ShapeOK(y) /\ ArrivingOK(y) /\ ResponseOK(k, y)
  BY <1>1, <1>2, <1>4, SameTransitive DEF ShapeOK, ArrivingOK, ResponseOK
<1>6. ASSUME SignedAsSent, x.sent.route \in Secured
      PROVE  IsGenuine(k, y)
  <2>1. ASSUME NEW sign \in x.sent.signature
        PROVE  sign.key = k.server.secret /\ sign.of = x.sent.body /\ ~ x.unpacked
    <3>1. /\ ~ Undecodable(sign) /\ sign = [key |-> k.server.secret, of |-> x.request.body]
      BY <1>1, <1>4, <1>6, <2>1 DEF ArrivingOK, Verified
    <3>2. Len(sign.of.layers) >= Len(x.sent.body.layers)
      BY <1>1, <1>6, <2>1, <3>1 DEF SentOK, SignOK
    <3>3. Len(x.sent.body.layers) \in Nat /\ Len(x.request.body.layers) \in Nat
      BY <1>1, RequestFields, LenProperties DEF SentOK, BodyType, Bodies
    <3>4. ~ x.unpacked
      <4>1. x.unpacked => Len(x.request.body.layers) < Len(x.sent.body.layers)
        BY <1>1 DEF ArrivingOK
      <4>2. sign.of = x.request.body
        BY <3>1
      <4>3. ~ (Len(x.request.body.layers) < Len(x.sent.body.layers))
        BY <3>2, <3>3, <4>2
      <4> QED
        BY <4>1, <4>3, Zenon
    <3> QED
      BY <1>1, <3>1, <3>4 DEF ArrivingOK
  <2> QED
    BY <1>1, <1>2, <1>4, <1>6, <2>1 DEF IsGenuine
<1>7. PassedOK(k, y)
  BY <1>2, <1>6 DEF PassedOK
<1>8. ASSUME c \in Agent
      PROVE  AgentOK(k, d, y)
  <2>1. AgentRequest(k, x.sent) /\ (~ x.unpacked => x.request = x.sent)
    BY <1>1, <1>8 DEF AgentOK, ArrivingOK
  <2>2. LET arrival == Chain(k.server, x.sent)
        IN  /\ Fit(k, x.sent.route) /\ x.sent.route # "update_by_path" =>
                 Outermost(arrival.request.body) = FormOf(x.sent.route)
            /\ ~ Fit(k, x.sent.route) /\ arrival.code = 0 =>
                 x.sent.route # "update_by_path" /\ Outermost(arrival.request.body) \notin Form
    BY <2>1, AgentArrives
  <2> QED
    BY <1>2, <2>1, <2>2 DEF AgentOK
<1> QED
  BY <1>5, <1>7, <1>8 DEF y, ClientOK

Answered(x, r) == [x EXCEPT !.pc = "answered", !.response = r]

(* An exchange that is answered.                                           *)
LEMMA AnswerKeeps ==
  ASSUME NEW k, NEW d, NEW c, NEW x, ClientOK(k, d, c, x), x.pc # "idle", NEW r,
         ReadableResponse(k.server.secret, x.accepts, r),
         c \in Agent /\ ~ x.unpacked => Delivered(k, d, x.sent, r.code)
  PROVE  ClientOK(k, d, c, Answered(x, r))
<1> DEFINE y == Answered(x, r)
<1>1. /\ IsExchange(x) /\ ShapeOK(x) /\ (c \in Agent => AgentOK(k, d, x))
  BY DEF ClientOK, ShapeOK
<1>2. /\ IsExchange(y) /\ y.pc = "answered" /\ y.sent = x.sent /\ y.request = x.request
      /\ y.response = r /\ y.accepts = x.accepts /\ y.unpacked = x.unpacked
  BY <1>1 DEF IsExchange, Answered
<1> HIDE DEF y
<1>3. ShapeOK(y) /\ ArrivingOK(y) /\ PassedOK(k, y) /\ ResponseOK(k, y)
  BY <1>1, <1>2 DEF ShapeOK, ArrivingOK, PassedOK, ResponseOK
<1>4. c \in Agent => AgentOK(k, d, y)
  BY <1>1, <1>2 DEF AgentOK
<1> QED
  BY <1>3, <1>4 DEF y, ClientOK

(* The answer of a middleware.                                             *)
LEMMA RefusalKeeps ==
  ASSUME NEW k \in KeyPairs, NEW d, NEW c, NEW x, ClientOK(k, d, c, x), x.pc = "sent",
         NEW r, ReadableResponse(k.server.secret, x.accepts, r),
         Chain(k.server, x.request).code # 0, r.code \in {400, 401}
  PROVE  ClientOK(k, d, c, Answered(x, r))
<1>1. ASSUME c \in Agent, ~ x.unpacked
      PROVE  Delivered(k, d, x.sent, r.code)
  <2>1. AgentRequest(k, x.sent) /\ x.request = x.sent
    BY <1>1 DEF ClientOK, AgentOK, ArrivingOK
  <2>2. ~ Fit(k, x.sent.route)
    BY <2>1, AgentArrives
  <2> QED
    BY <2>2 DEF Delivered
<1>2. x.pc # "idle"
  OBVIOUS
<1>3. c \in Agent /\ ~ x.unpacked => Delivered(k, d, x.sent, r.code)
  BY <1>1
<1> QED
  BY <1>2, <1>3, AnswerKeeps

(* What Valid says of a request.                                           *)
Readable(request) ==
  CASE request.route \in {"update", "value"} -> Outermost(request.body) = "object"
    [] request.route = "updates"             -> Outermost(request.body) = "array"
    [] OTHER                                 -> TRUE

ValidRequest(request) ==
  /\ Readable(request)
  /\ request.route \in {"update_by_path", "update"} => WellFormed(Carried(request)[1])
  /\ request.route \in {"value", "plain_value"} => Answerable(Carried(request)[1])

(* Valid depends on the request alone.                                     *)
LEMMA ValidIs == \A c : Valid(c) <=> ValidRequest(exchange[c].request)
BY DEF Valid, Understood, ValidRequest, Readable

(* The metrics of a request are those that were sent.                      *)
LEMMA CarriedIsSent ==
  ASSUME NEW q, NEW r, Same(q, r)
  PROVE  Carried(q) = Carried(r)
BY DEF Same, Inside, Carried

(* A handler finds an agent's request valid exactly if the keys fit.       *)
LEMMA AgentHandles ==
  ASSUME NEW k \in KeyPairs, NEW d, NEW c \in Agent, NEW x, ClientOK(k, d, c, x),
         x.pc = "handle"
  PROVE  /\ x.request.route = x.sent.route /\ x.sent.route \in Secured
         /\ Carried(x.request) = Carried(x.sent)
         /\ Carried(x.sent) \in Seq(Metrics(ID))
         /\ x.sent.route # "updates" => Carried(x.sent) # << >>
         /\ ~ x.unpacked => (Fit(k, x.sent.route) <=> ValidRequest(x.request))
<1>1. AgentRequest(k, x.sent) /\ AgentOK(k, d, x) /\ Same(x.request, x.sent)
  BY DEF ClientOK, AgentOK, ShapeOK
<1>2. x.request.route = x.sent.route
  BY <1>1 DEF Same
<1>3. Carried(x.request) = Carried(x.sent)
  BY <1>1, CarriedIsSent
<1>4. /\ Carried(x.sent) \in Seq(Metrics(ID))
      /\ Carried(x.sent) # << >> => WellFormed(Carried(x.sent)[1])
      /\ x.sent.route \in {"update_by_path", "update", "updates"}
      /\ x.sent.route # "updates" => Carried(x.sent) # << >>
  BY <1>1, AgentRequestForms DEF Packed
<1>5. ASSUME ~ x.unpacked, Fit(k, x.sent.route)
      PROVE  ValidRequest(x.request)
  <2>1. x.sent.route # "update_by_path" => Outermost(x.request.body) = FormOf(x.sent.route)
    BY <1>1, <1>5 DEF AgentOK
  <2>2. Readable(x.request)
    BY <1>2, <1>4, <2>1 DEF Readable, FormOf
  <2> QED
    BY <1>2, <1>3, <1>4, <2>2 DEF ValidRequest
<1>6. ASSUME ~ x.unpacked, ~ Fit(k, x.sent.route)
      PROVE  ~ ValidRequest(x.request)
  <2>1. x.sent.route # "update_by_path" /\ Outermost(x.request.body) \notin Form
    BY <1>1, <1>6 DEF AgentOK
  <2>2. ~ Readable(x.request)
    BY <1>2, <1>4, <2>1 DEF Readable, Form
  <2> QED
    BY <2>2 DEF ValidRequest
<1> QED
  BY <1>2, <1>3, <1>4, <1>5, <1>6 DEF Secured

(* An update that is valid names a metric of the storage.                  *)
LEMMA ValidCarries ==
  ASSUME NEW k, NEW d, NEW c, NEW x, ClientOK(k, d, c, x), x.pc = "handle",
         x.request.route \in {"update_by_path", "update"}, ValidRequest(x.request)
  PROVE  /\ Head(Carried(x.request)) \in Metrics(ID)
         /\ Head(Carried(x.request)) \in ToSet(Carried(x.sent))
<1>1. SentOK(x.sent) /\ Same(x.request, x.sent) /\ x.request \in RequestType
      /\ x.request.route = x.sent.route /\ x.request.body.form = x.sent.body.form
  BY DEF ClientOK, ShapeOK, Same, Inside
<1>2. Carried(x.request) = Carried(x.sent)
  BY <1>1, CarriedIsSent
<1>3. Carried(x.sent) \in Seq(Metrics(ID))
  BY <1>1 DEF SentOK, Secured
<1>4. x.request.route = "update" => x.sent.body.form = "object"
  <2>1. x.request.body \in BodyType
    BY <1>1, RequestFields
  <2>2. x.request.route = "update" => Outermost(x.request.body) = "object"
    BY DEF ValidRequest, Readable
  <2>3. "object" \notin Layer
    BY KeyIsNoForm DEF Layer, Form
  <2>4. x.request.body.layers # << >> => Head(x.request.body.layers) \in Layer
    BY <2>1, TailLayers DEF BodyType, Bodies
  <2> QED
    BY <1>1, <2>2, <2>3, <2>4 DEF Outermost
<1>5. Carried(x.sent) # << >>
  BY <1>1, <1>4 DEF SentOK, NamesMetric
<1>6. ASSUME NEW s \in Seq(Metrics(ID)), s # << >>
      PROVE  Head(s) \in Metrics(ID) /\ Head(s) \in ToSet(s)
  <2>1. Head(s) = s[1] /\ 1 \in DOMAIN s /\ s[1] \in Metrics(ID)
    BY <1>6, EmptySeq, LenProperties
  <2> QED
    BY <2>1 DEF ToSet
<1> QED
  BY <1>2, <1>3, <1>5, <1>6

(* A memory that does not change keeps its types.                          *)
LEMMA SameMemory ==
  ASSUME NEW d
  PROVE  TypesStay(d, d)
BY DEF TypesStay

(* A reader's exchange while its listing is rendered.                      *)
LEMMA RenderKeeps ==
  ASSUME NEW k, NEW d, NEW c, c \notin Agent, NEW x, ClientOK(k, d, c, x),
         x.pc \in {"handle", "render"}, NEW y, IsExchange(y), y.pc = "render",
         y.sent = x.sent, y.request = x.request, y.accepts = x.accepts,
         y.unpacked = x.unpacked, y.response = x.response
  PROVE  ClientOK(k, d, c, y)
<1>1. ShapeOK(x) /\ WriterFor(x.accepts, x.response)
  BY DEF ClientOK, ResponseOK
<1>2. ShapeOK(y) /\ ResponseOK(k, y)
  BY <1>1 DEF ShapeOK, ResponseOK
<1>3. ArrivingOK(y) /\ PassedOK(k, y)
  BY DEF ArrivingOK, PassedOK
<1> QED
  BY <1>2, <1>3 DEF ClientOK

Aborted(x) == [x EXCEPT !.pc = "aborted"]

(* An exchange whose handler panics.                                       *)
LEMMA AbortKeeps ==
  ASSUME NEW k, NEW d, NEW c, NEW x, ClientOK(k, d, c, x), x.pc = "handle"
  PROVE  ClientOK(k, d, c, Aborted(x))
<1> DEFINE y == Aborted(x)
<1>1. IsExchange(x) /\ ShapeOK(x) /\ (c \in Agent => AgentOK(k, d, x))
  BY DEF ClientOK, ShapeOK
<1>2. /\ IsExchange(y) /\ y.pc = "aborted" /\ y.sent = x.sent /\ y.request = x.request
      /\ y.accepts = x.accepts /\ y.unpacked = x.unpacked
  BY <1>1 DEF IsExchange, Aborted
<1> HIDE DEF y
<1>3. ShapeOK(y) /\ ArrivingOK(y) /\ PassedOK(k, y) /\ ResponseOK(k, y)
  BY <1>1, <1>2 DEF ShapeOK, ArrivingOK, PassedOK, ResponseOK
<1>4. c \in Agent => AgentOK(k, d, y)
  BY <1>1, <1>2 DEF AgentOK
<1> QED
  BY <1>3, <1>4 DEF y, ClientOK

(* A batch that the storage has accepted, and what is left of it.          *)
LEMMA ApplyKeeps ==
  ASSUME NEW k \in KeyPairs, NEW d, NEW c, NEW x, ClientOK(k, d, c, x),
         \/ x.pc = "handle" /\ x.request.route = "updates" /\ ValidRequest(x.request)
         \/ x.pc = "apply",
         NEW y, IsExchange(y), y.pc = "apply", y.sent = x.sent, y.request = x.request,
         y.accepts = x.accepts, y.unpacked = x.unpacked, y.response = x.response,
         y.todo \in Seq(Metrics(ID))
  PROVE  ClientOK(k, d, c, y)
<1>1. /\ IsExchange(x) /\ ShapeOK(x) /\ PassedOK(k, x) /\ (c \in Agent => AgentOK(k, d, x))
      /\ WriterFor(x.accepts, x.response) /\ x.request.route = x.sent.route
  BY DEF ClientOK, ShapeOK, ResponseOK, Same
<1>2. x.sent.route = "updates"
  BY <1>1 DEF PassedOK
<1>3. ShapeOK(y) /\ ArrivingOK(y) /\ ResponseOK(k, y)
  BY <1>1 DEF ShapeOK, ArrivingOK, ResponseOK
<1>4. PassedOK(k, y)
  <2>1. SignedAsSent /\ x.sent.route \in Secured => IsGenuine(k, x)
    BY <1>1 DEF PassedOK
  <2> QED
    BY <1>2, <2>1 DEF PassedOK, IsGenuine
<1>5. ASSUME c \in Agent
      PROVE  AgentOK(k, d, y)
  <2>1. ~ x.unpacked => Fit(k, x.sent.route)
    <3>1. CASE x.pc = "handle" /\ ValidRequest(x.request)
      BY <1>5, <3>1, AgentHandles
    <3>2. CASE x.pc = "apply"
      BY <1>1, <1>5, <3>2 DEF AgentOK
    <3> QED
      BY <3>1, <3>2
  <2>2. AgentRequest(k, x.sent)
    BY <1>1, <1>5 DEF AgentOK
  <2> QED
    BY <2>1, <2>2 DEF AgentOK
<1> QED
  BY <1>3, <1>4, <1>5 DEF ClientOK

(* An answer of a handler.                                                 *)
LEMMA HandlerAnswers ==
  ASSUME NEW k, NEW x, NEW d, NEW c, ClientOK(k, d, c, x),
         x.pc \in {"handle", "apply", "render"}, NEW code \in Nat \ {0}
  PROVE  LET e == RespondError(x.response, code)
             f == RespondEmpty(x.response, code)
         IN  /\ ReadableResponse(k.server.secret, x.accepts, e) /\ e.code = code
             /\ ReadableResponse(k.server.secret, x.accepts, f) /\ f.code = code
<1>1. WriterFor(x.accepts, x.response)
  BY DEF ClientOK, ResponseOK
<1> QED
  BY <1>1, ErrorIsReadable, EmptyIsReadable

-----------------------------------------------------------------------------
(* The steps.                                                              *)

(* What the invariant says of one client.                                  *)
LEMMA ExchangeOf ==
  ASSUME GatewayInv, NEW c \in Client
  PROVE  /\ keys \in KeyPairs /\ data \in Memory
         /\ ClientOK(keys, data, c, exchange[c])
BY DEF GatewayInv

(* A step that answers and leaves the memory alone.                        *)
LEMMA AnswerStep ==
  ASSUME GatewayInv, NEW c \in Client, exchange[c].pc # "idle", NEW r, Answer(c, r),
         UNCHANGED <<keys, data>>,
         ReadableResponse(keys.server.secret, exchange[c].accepts, r),
         c \in Agent /\ ~ exchange[c].unpacked => Delivered(keys, data, exchange[c].sent, r.code)
  PROVE  GatewayInv'
<1>1. exchange' = [exchange EXCEPT ![c] = Answered(exchange[c], r)]
  BY DEF Answer, Set, Answered
<1>2. ClientOK(keys, data, c, Answered(exchange[c], r))
  BY ExchangeOf, AnswerKeeps
<1> QED
  BY <1>1, <1>2, ExchangeOf, SameMemory, StepKeeps

(* The middlewares: the request goes on, or they answer 400 or 401.        *)
LEMMA ServeStep ==
  ASSUME GatewayInv, NEW c \in Client, Serve(c)
  PROVE  GatewayInv'
<1> DEFINE x == exchange[c]
           arrival == Chain(keys.server, x.request)
           b == x.accepts /\ arrival.by \in {"decryption", "handler"}
           w == NewResponseWriter(b)
<1>1. /\ keys \in KeyPairs /\ data \in Memory /\ ClientOK(keys, data, c, x)
      /\ x.accepts \in BOOLEAN
  BY ExchangeOf DEF ClientOK, ShapeOK
<1>2. x.pc = "sent" /\ keys' = keys /\ data' = data
  BY DEF Serve
<1>3. WriterFor(x.accepts, w)
  <2>1. b \in BOOLEAN /\ (b => x.accepts)
    BY <1>1
  <2> HIDE DEF b
  <2> QED
    BY <2>1, Zenon DEF WriterFor
<1>4. arrival.code \in {0, 400, 401}
  <2>1. x.request \in RequestType /\ keys.server \in ServerKeys
    BY <1>1, AgentKeysAre DEF ClientOK, ShapeOK, Same
  <2> QED
    BY <2>1, ChainPasses
<1>5. CASE arrival.code = 0
  <2> DEFINE y == [x EXCEPT !.pc = "handle", !.request = arrival.request, !.response = w]
  <2>1. exchange' = [exchange EXCEPT ![c] = y]
    BY <1>5 DEF Serve, Set
  <2> HIDE DEF w
  <2>2. ClientOK(keys, data, c, y)
    BY <1>1, <1>2, <1>3, <1>5, ArrivalKeeps
  <2> HIDE DEF y
  <2> QED
    BY <1>1, <1>2, <2>1, <2>2, SameMemory, StepKeeps
<1>6. CASE arrival.code # 0
  <2>1. PICK r : /\ Answer(c, r) /\ r.code \in {400, 401}
                 /\ ReadableResponse(keys.server.secret, x.accepts, r)
    <3>1. CASE arrival.code = 401
      <4>1. Answer(c, RespondEmpty(w, 401))
        BY <3>1 DEF Serve
      <4> QED
        BY <1>3, <4>1, EmptyIsReadable
    <3>2. CASE arrival.code = 400
      <4>1. Answer(c, RespondError(w, 400))
        BY <3>2 DEF Serve
      <4> QED
        BY <1>3, <4>1, ErrorIsReadable
    <3> QED
      BY <1>4, <1>6, <3>1, <3>2
  <2>2. exchange' = [exchange EXCEPT ![c] = Answered(x, r)]
    BY <2>1 DEF Answer, Set, Answered
  <2>3. ClientOK(keys, data, c, Answered(x, r))
    BY <1>1, <1>2, <1>6, <2>1, RefusalKeeps
  <2> QED
    BY <1>1, <1>2, <2>2, <2>3, SameMemory, StepKeeps
<1> QED
  BY <1>5, <1>6

(* Only a valid request of an agent fits.                                  *)
LEMMA FitsIfValid ==
  ASSUME GatewayInv, NEW c \in Client, c \in Agent, exchange[c].pc = "handle",
         ~ exchange[c].unpacked
  PROVE  Fit(keys, exchange[c].sent.route) <=> Valid(c)
BY ExchangeOf, AgentHandles, ValidIs

(* 400, which for an agent means keys that do not fit.                     *)
LEMMA RefuseInvalidStep ==
  ASSUME GatewayInv, NEW c \in Client, RefuseInvalid(c)
  PROVE  GatewayInv'
<1> DEFINE r == RespondError(exchange[c].response, 400)
<1>1. /\ exchange[c].pc = "handle" /\ ~ Valid(c) /\ Answer(c, r) /\ UNCHANGED <<keys, data>>
  BY DEF RefuseInvalid, Writer
<1>2. ReadableResponse(keys.server.secret, exchange[c].accepts, r) /\ r.code = 400
  BY <1>1, ExchangeOf, HandlerAnswers
<1> HIDE DEF r
<1>3. c \in Agent /\ ~ exchange[c].unpacked => Delivered(keys, data, exchange[c].sent, r.code)
  BY <1>1, <1>2, FitsIfValid DEF Delivered
<1> QED
  BY <1>1, <1>2, <1>3, AnswerStep

(* No answer.                                                              *)
LEMMA PanicStep ==
  ASSUME GatewayInv, NEW c \in Client, Panic(c)
  PROVE  GatewayInv'
<1>1. /\ exchange[c].pc = "handle" /\ keys' = keys /\ data' = data
      /\ exchange' = [exchange EXCEPT ![c] = Aborted(exchange[c])]
  BY DEF Panic, Set, Aborted
<1>2. ClientOK(keys, data, c, Aborted(exchange[c]))
  BY <1>1, ExchangeOf, AbortKeeps
<1> QED
  BY <1>1, <1>2, ExchangeOf, SameMemory, StepKeeps

(* 500, or 200 for a batch.                                                *)
LEMMA StorageFailsStep ==
  ASSUME GatewayInv, NEW c \in Client, StorageFails(c)
  PROVE  GatewayInv'
<1>1. /\ exchange[c].pc = "handle" /\ Valid(c) /\ UNCHANGED <<keys, data>>
  BY DEF StorageFails
<1>2. PICK r : /\ Answer(c, r) /\ r.code \in {200, 500}
               /\ ReadableResponse(keys.server.secret, exchange[c].accepts, r)
  <2>1. CASE exchange[c].request.route = "updates"
    <3>1. Answer(c, RespondEmpty(exchange[c].response, 200))
      BY <2>1 DEF StorageFails, Writer
    <3> QED
      BY <1>1, <3>1, ExchangeOf, HandlerAnswers
  <2>2. CASE exchange[c].request.route # "updates"
    <3>1. Answer(c, RespondError(exchange[c].response, 500))
      BY <2>2 DEF StorageFails, Writer
    <3> QED
      BY <1>1, <3>1, ExchangeOf, HandlerAnswers
  <2> QED
    BY <2>1, <2>2
<1>3. c \in Agent /\ ~ exchange[c].unpacked => Delivered(keys, data, exchange[c].sent, r.code)
  BY <1>1, <1>2, FitsIfValid DEF Delivered
<1> QED
  BY <1>1, <1>2, <1>3, AnswerStep

(* One metric: 200, or 400 if the storage has another type.                *)
LEMMA UpdateMetricStep ==
  ASSUME GatewayInv, NEW c \in Client, UpdateMetric(c)
  PROVE  GatewayInv'
<1> DEFINE x == exchange[c]
           m == Head(Carried(x.request))
<1>1. /\ x.pc = "handle" /\ x.request.route \in {"update_by_path", "update"}
      /\ Valid(c) /\ ValidRequest(x.request) /\ keys' = keys /\ data' = Accumulate(data, m)
  BY ValidIs DEF UpdateMetric, Handles
<1>2. keys \in KeyPairs /\ data \in Memory /\ ClientOK(keys, data, c, x)
  BY ExchangeOf
<1>3. m \in Metrics(ID) /\ m \in ToSet(Carried(x.sent))
  BY <1>1, <1>2, ValidCarries
<1>4. /\ data' \in Memory /\ TypesStay(data, data')
      /\ Refuses(data, m.ID, m.MType) => data' = data
  BY <1>1, <1>2, <1>3, AccumulateKeepsTypes
<1>5. PICK d : d = data'
  OBVIOUS
<1>6. ClientOK(keys, d, c, x)
  BY <1>2, <1>4, <1>5, OthersKeep
<1>7. PICK r : /\ Answer(c, r)
               /\ ReadableResponse(keys.server.secret, x.accepts, r)
               /\ \/ r.code = 200
                  \/ r.code = 400 /\ Refuses(data, m.ID, m.MType)
  <2>1. CASE Refuses(data, m.ID, m.MType)
    <3>1. Answer(c, RespondError(x.response, 400))
      BY <2>1 DEF UpdateMetric, Writer
    <3> QED
      BY <1>1, <1>2, <2>1, <3>1, HandlerAnswers
  <2>2. CASE ~ Refuses(data, m.ID, m.MType)
    <3>1. Answer(c, RespondEmpty(x.response, 200))
      BY <2>2 DEF UpdateMetric, Writer
    <3> QED
      BY <1>1, <1>2, <3>1, HandlerAnswers
  <2> QED
    BY <2>1, <2>2
<1>8. c \in Agent /\ ~ x.unpacked => Delivered(keys, d, x.sent, r.code)
  BY <1>1, <1>3, <1>4, <1>5, <1>7, FitsIfValid DEF Delivered
<1>9. exchange' = [exchange EXCEPT ![c] = Answered(x, r)]
  BY <1>7 DEF Answer, Set, Answered
<1> HIDE DEF x, m
<1>10. ClientOK(keys, d, c, Answered(x, r))
  BY <1>1, <1>6, <1>7, <1>8, AnswerKeeps
<1> QED
  BY <1>1, <1>4, <1>5, <1>9, <1>10, StepKeeps

(* A batch: it is applied, or 400 if the storage has another type.         *)
LEMMA UpdateBatchStep ==
  ASSUME GatewayInv, NEW c \in Client, UpdateBatch(c)
  PROVE  GatewayInv'
<1> DEFINE x == exchange[c]
           metrics == Carried(x.request)
<1>1. /\ x.pc = "handle" /\ x.request.route = "updates"
      /\ Valid(c) /\ ValidRequest(x.request) /\ UNCHANGED <<keys, data>>
  BY ValidIs DEF UpdateBatch, Handles
<1>2. keys \in KeyPairs /\ data \in Memory /\ ClientOK(keys, data, c, x)
  BY ExchangeOf
<1>3. metrics = Carried(x.sent) /\ metrics \in Seq(Metrics(ID))
  <2>1. SentOK(x.sent) /\ Same(x.request, x.sent) /\ x.request.route = x.sent.route
    BY <1>2 DEF ClientOK, ShapeOK, Same
  <2> QED
    BY <1>1, <2>1, CarriedIsSent DEF SentOK, Secured
<1>4. CASE BatchIsValid(data, metrics)
  <2> DEFINE y == [x EXCEPT !.pc = "apply", !.todo = metrics]
  <2>1. exchange' = [exchange EXCEPT ![c] = y]
    BY <1>4 DEF UpdateBatch, Set
  <2>2. IsExchange(x)
    BY <1>2 DEF ClientOK, ShapeOK
  <2>3. /\ IsExchange(y) /\ y.pc = "apply" /\ y.sent = x.sent /\ y.request = x.request
        /\ y.accepts = x.accepts /\ y.unpacked = x.unpacked /\ y.response = x.response
        /\ y.todo \in Seq(Metrics(ID))
    BY <1>3, <2>2 DEF IsExchange
  <2> HIDE DEF y
  <2>4. ClientOK(keys, data, c, y)
    BY <1>1, <1>2, <2>3, ApplyKeeps
  <2> QED
    BY <1>1, <1>2, <2>1, <2>4, SameMemory, StepKeeps
<1>5. CASE ~ BatchIsValid(data, metrics)
  <2> DEFINE r == RespondError(x.response, 400)
  <2>1. Answer(c, r)
    BY <1>5 DEF UpdateBatch, Writer
  <2>2. ReadableResponse(keys.server.secret, x.accepts, r) /\ r.code = 400
    BY <1>1, <1>2, HandlerAnswers
  <2>3. \E m \in ToSet(Carried(x.sent)) : Refuses(data, m.ID, m.MType)
    BY <1>3, <1>5 DEF BatchIsValid, ToSet
  <2> HIDE DEF r
  <2>4. c \in Agent /\ ~ x.unpacked => Delivered(keys, data, x.sent, r.code)
    BY <2>2, <2>3, <1>1, FitsIfValid DEF Delivered
  <2> QED
    BY <1>1, <2>1, <2>2, <2>4, AnswerStep
<1> QED
  BY <1>4, <1>5

(* One metric of a batch.                                                  *)
LEMMA ApplyNextStep ==
  ASSUME GatewayInv, NEW c \in Client, ApplyNext(c)
  PROVE  GatewayInv'
<1> DEFINE x == exchange[c]
           m == Head(x.todo)
           rest == Tail(x.todo)
<1>1. x.pc = "apply" /\ x.todo # << >> /\ keys' = keys /\ data' = Accumulate(data, m)
  BY DEF ApplyNext
<1>2. keys \in KeyPairs /\ data \in Memory /\ ClientOK(keys, data, c, x) /\ IsExchange(x)
      /\ x.todo \in Seq(Metrics(ID)) /\ DOMAIN exchange = Client
  BY <1>1, ExchangeOf DEF ClientOK, PassedOK, ShapeOK, GatewayInv
<1>3. m \in Metrics(ID) /\ rest \in Seq(Metrics(ID))
  BY <1>1, <1>2, HeadTailProperties
<1>4. data' \in Memory /\ TypesStay(data, data')
  BY <1>1, <1>2, <1>3, AccumulateKeepsTypes
<1>5. PICK d : d = data'
  OBVIOUS
<1>6. ClientOK(keys, d, c, x)
  BY <1>2, <1>4, <1>5, OthersKeep
<1> DEFINE y == [x EXCEPT !.todo = rest]
<1>7. exchange' = [exchange EXCEPT ![c] = y]
  BY DEF ApplyNext
<1> HIDE DEF m
<1>8. /\ IsExchange(y) /\ y.pc = "apply" /\ y.sent = x.sent /\ y.request = x.request
      /\ y.accepts = x.accepts /\ y.unpacked = x.unpacked /\ y.response = x.response
      /\ y.todo \in Seq(Metrics(ID))
  BY <1>1, <1>2, <1>3 DEF IsExchange
<1> HIDE DEF x, y, rest
<1>9. ClientOK(keys, d, c, y)
  BY <1>1, <1>2, <1>6, <1>8, ApplyKeeps
<1> QED
  BY <1>1, <1>4, <1>5, <1>7, <1>9, StepKeeps

(* 200 for a batch.                                                        *)
LEMMA BatchAppliedStep ==
  ASSUME GatewayInv, NEW c \in Client, BatchApplied(c)
  PROVE  GatewayInv'
<1> DEFINE r == RespondEmpty(exchange[c].response, 200)
<1>1. /\ exchange[c].pc = "apply" /\ Answer(c, r) /\ UNCHANGED <<keys, data>>
  BY DEF BatchApplied, Writer
<1>2. ReadableResponse(keys.server.secret, exchange[c].accepts, r) /\ r.code = 200
  BY <1>1, ExchangeOf, HandlerAnswers
<1> HIDE DEF r
<1>3. c \in Agent /\ ~ exchange[c].unpacked => Fit(keys, exchange[c].sent.route)
  BY <1>1, ExchangeOf DEF ClientOK, AgentOK
<1>4. c \in Agent /\ ~ exchange[c].unpacked => Delivered(keys, data, exchange[c].sent, r.code)
  BY <1>2, <1>3 DEF Delivered
<1> QED
  BY <1>1, <1>2, <1>4, AnswerStep

(* The reads are not of agents, whose routes are the updates.              *)
LEMMA ReadersRead ==
  ASSUME GatewayInv, NEW c \in Client,
         \/ exchange[c].pc = "handle" /\ exchange[c].request.route \notin Secured
         \/ exchange[c].pc = "render"
  PROVE  c \notin Agent
<1>1. keys \in KeyPairs /\ ClientOK(keys, data, c, exchange[c])
  BY ExchangeOf
<1>2. CASE exchange[c].pc = "handle" /\ exchange[c].request.route \notin Secured
  BY <1>1, <1>2, AgentHandles
<1>3. CASE exchange[c].pc = "render"
  BY <1>1, <1>3 DEF ClientOK, AgentOK
<1> QED
  BY <1>2, <1>3

(* A step to or within the rendering.                                      *)
LEMMA RenderStep ==
  ASSUME GatewayInv, NEW c \in Client, UNCHANGED <<keys, data>>,
         \/ exchange[c].pc = "handle" /\ exchange[c].request.route \notin Secured
         \/ exchange[c].pc = "render",
         NEW y, exchange' = [exchange EXCEPT ![c] = y], IsExchange(y), y.pc = "render",
         y.sent = exchange[c].sent, y.request = exchange[c].request,
         y.accepts = exchange[c].accepts, y.unpacked = exchange[c].unpacked,
         y.response = exchange[c].response
  PROVE  GatewayInv'
<1>1. keys \in KeyPairs /\ data \in Memory /\ ClientOK(keys, data, c, exchange[c])
  BY ExchangeOf
<1>2. c \notin Agent /\ exchange[c].pc \in {"handle", "render"}
  BY ReadersRead
<1>3. ClientOK(keys, data, c, y)
  BY <1>1, <1>2, RenderKeeps
<1> QED
  BY <1>1, <1>3, SameMemory, StepKeeps

(* The fields of an exchange.                                              *)
LEMMA ExchangeShape ==
  ASSUME GatewayInv, NEW c \in Client
  PROVE  IsExchange(exchange[c])
BY ExchangeOf DEF ClientOK, ShapeOK

(* A read of one metric, or 404.                                           *)
LEMMA GetMetricStep ==
  ASSUME GatewayInv, NEW c \in Client, GetMetric(c)
  PROVE  GatewayInv'
<1> DEFINE x == exchange[c]
           m == Head(Carried(x.request))
           found == m.ID \in ID /\ data[m.ID] # Absent /\ data[m.ID].MType = m.MType
<1>1. /\ x.pc = "handle" /\ x.request.route \notin Secured /\ UNCHANGED <<keys, data>>
  BY DEF GetMetric, Handles, Secured
<1>2. CASE found
  <2> DEFINE y == [x EXCEPT !.pc = "render", !.listing = <<m.ID>>]
  <2>1. exchange' = [exchange EXCEPT ![c] = y]
    BY <1>2 DEF GetMetric, Set
  <2> HIDE DEF m
  <2>2. /\ IsExchange(y) /\ y.pc = "render" /\ y.sent = x.sent /\ y.request = x.request
        /\ y.accepts = x.accepts /\ y.unpacked = x.unpacked /\ y.response = x.response
    BY ExchangeShape DEF IsExchange
  <2> HIDE DEF y
  <2> QED
    BY <1>1, <2>1, <2>2, RenderStep
<1>3. CASE ~ found
  <2> DEFINE r == RespondError(x.response, 404)
  <2>1. Answer(c, r)
    BY <1>3 DEF GetMetric, Writer
  <2>2. ReadableResponse(keys.server.secret, x.accepts, r)
    BY <1>1, ExchangeOf, HandlerAnswers
  <2> HIDE DEF r
  <2> QED
    BY <1>1, <2>1, <2>2, ReadersRead, AnswerStep
<1> QED
  BY <1>2, <1>3

(* A read of all.                                                          *)
LEMMA GetAllSortedStep ==
  ASSUME GatewayInv, NEW c \in Client, GetAllSorted(c)
  PROVE  GatewayInv'
<1> DEFINE x == exchange[c]
           listing == SortedIDs(Existing)
           y == [x EXCEPT !.pc = "render", !.listing = listing]
<1>1. /\ x.pc = "handle" /\ x.request.route \notin Secured /\ UNCHANGED <<keys, data>>
      /\ exchange' = [exchange EXCEPT ![c] = y]
  BY DEF GetAllSorted, Handles, Secured, Set
<1> HIDE DEF listing
<1>2. /\ IsExchange(y) /\ y.pc = "render" /\ y.sent = x.sent /\ y.request = x.request
      /\ y.accepts = x.accepts /\ y.unpacked = x.unpacked /\ y.response = x.response
  BY ExchangeShape DEF IsExchange
<1> HIDE DEF y
<1> QED
  BY <1>1, <1>2, RenderStep

(* One row.                                                                *)
LEMMA RenderNextStep ==
  ASSUME GatewayInv, NEW c \in Client, RenderNext(c)
  PROVE  GatewayInv'
<1> DEFINE x == exchange[c]
           id == Head(x.listing)
           row == [ID |-> id, MType |-> data[id].MType, Val |-> data[id].Val]
           rest == Tail(x.listing)
           rows == Append(x.rows, row)
           y == [x EXCEPT !.listing = rest, !.rows = rows]
<1>1. x.pc = "render" /\ UNCHANGED <<keys, data>>
  BY DEF RenderNext
<1>2. exchange' = [exchange EXCEPT ![c] = y]
  <2>1. IsExchange(x)
    BY ExchangeShape
  <2> QED
    BY <2>1 DEF RenderNext, Set, IsExchange
<1> HIDE DEF rest, rows
<1>3. /\ IsExchange(y) /\ y.pc = "render" /\ y.sent = x.sent /\ y.request = x.request
      /\ y.accepts = x.accepts /\ y.unpacked = x.unpacked /\ y.response = x.response
  BY <1>1, ExchangeShape DEF IsExchange
<1> HIDE DEF y
<1> QED
  BY <1>1, <1>2, <1>3, RenderStep

(* The rows, signed and compressed.                                        *)
LEMMA RespondStep ==
  ASSUME GatewayInv, NEW c \in Client, Respond(c)
  PROVE  GatewayInv'
<1> DEFINE x == exchange[c]
           Payload(contentType, form) ==
             RespondPayload(x.response, keys.server, contentType, Body(form, x.rows))
<1>1. x.pc = "render" /\ UNCHANGED <<keys, data>>
  BY DEF Respond
<1>2. WriterFor(x.accepts, x.response)
  BY <1>1, ExchangeOf DEF ClientOK, ResponseOK
<1>3. \/ Answer(c, Payload("text/html", "text"))
      \/ Answer(c, Payload("text/plain", "text"))
      \/ Answer(c, Payload("application/json", "object"))
      \/ Answer(c, RespondEmpty(x.response, 500))
  BY DEF Respond
<1>4. PICK r : Answer(c, r) /\ ReadableResponse(keys.server.secret, x.accepts, r)
  <2>1. /\ ReadableResponse(keys.server.secret, x.accepts, Payload("text/html", "text"))
        /\ ReadableResponse(keys.server.secret, x.accepts, Payload("text/plain", "text"))
        /\ ReadableResponse(keys.server.secret, x.accepts, Payload("application/json", "object"))
    BY <1>2, PayloadIsReadable
  <2>2. ReadableResponse(keys.server.secret, x.accepts, RespondEmpty(x.response, 500))
    BY <1>2, EmptyIsReadable
  <2> HIDE DEF Payload
  <2> QED
    BY <1>3, <2>1, <2>2
<1> QED
  BY <1>1, <1>4, ReadersRead, AnswerStep

(* 200.                                                                    *)
LEMMA PingStorageStep ==
  ASSUME GatewayInv, NEW c \in Client, PingStorage(c)
  PROVE  GatewayInv'
<1> DEFINE r == RespondEmpty(exchange[c].response, 200)
<1>1. /\ exchange[c].pc = "handle" /\ exchange[c].request.route \notin Secured
      /\ Answer(c, r) /\ UNCHANGED <<keys, data>>
  BY DEF PingStorage, Handles, Secured, Writer
<1>2. ReadableResponse(keys.server.secret, exchange[c].accepts, r)
  BY <1>1, ExchangeOf, HandlerAnswers
<1> HIDE DEF r
<1> QED
  BY <1>1, <1>2, ReadersRead, AnswerStep

(* A client sends a request.                                               *)
LEMMA DispatchStep ==
  ASSUME GatewayInv, NEW c \in Client, NEW r, NEW accepts \in BOOLEAN,
         Dispatch(c, r, accepts), SentOK(r), c \in Agent => AgentRequest(keys, r)
  PROVE  GatewayInv'
<1> DEFINE y == Exchange("sent", r, accepts)
<1>1. keys' = keys /\ data' = data /\ exchange' = [exchange EXCEPT ![c] = y]
  BY DEF Dispatch, Set
<1>2. ClientOK(keys, data, c, y)
  BY NewExchange
<1> HIDE DEF y
<1> QED
  BY <1>1, <1>2, ExchangeOf, SameMemory, StepKeeps

(* An agent does.                                                          *)
LEMMA SendUpdateStep ==
  ASSUME GatewayInv, NEW c \in Agent, SendUpdate(c)
  PROVE  GatewayInv'
<1>1. PICK r : Dispatch(c, r, TRUE) /\ AgentRequest(keys, r)
  BY DEF SendUpdate, AgentRequest
<1>2. c \in Client /\ TRUE \in BOOLEAN
  BY DEF Client
<1>3. SentOK(r)
  BY <1>1, <1>2, ExchangeOf, AgentSends
<1> QED
  BY <1>1, <1>2, <1>3, DispatchStep

(* Another program does.                                                   *)
LEMMA PostStep ==
  ASSUME GatewayInv, NEW c \in Program, Post(c)
  PROVE  GatewayInv'
<1>1. PICK r \in Posts : Dispatch(c, r, FALSE)
  BY DEF Post
<1>2. c \in Client /\ c \notin Agent /\ FALSE \in BOOLEAN
  BY GatewayAssumption DEF Client
<1>3. SentOK(r)
  BY ProgramSends
<1> QED
  BY <1>1, <1>2, <1>3, DispatchStep

(* A reader does.                                                          *)
LEMMA AskStep ==
  ASSUME GatewayInv, NEW c \in Reader, Ask(c)
  PROVE  GatewayInv'
<1>1. PICK q \in Questions : \E r : Dispatch(c, r, q.accepts) /\ SentOK(r)
  <2>1. PICK q \in Questions :
          LET metric == <<[ID |-> q.id, MType |-> q.mtype, Val |-> Nil]>>
          IN  Dispatch(c, IF q.route = "value"
                            THEN [NoRequest EXCEPT !.route = q.route,
                                                   !.body = Body("object", metric)]
                            ELSE [NoRequest EXCEPT !.route = q.route, !.path = metric],
                       q.accepts)
    BY DEF Ask
  <2> DEFINE metric == <<[ID |-> q.id, MType |-> q.mtype, Val |-> Nil]>>
             r1 == [NoRequest EXCEPT !.route = q.route, !.body = Body("object", metric)]
             r2 == [NoRequest EXCEPT !.route = q.route, !.path = metric]
  <2>2. (q.route = "value" => SentOK(r1)) /\ (q.route # "value" => SentOK(r2))
    BY ReaderSends
  <2>3. Dispatch(c, IF q.route = "value" THEN r1 ELSE r2, q.accepts)
    BY <2>1
  <2> HIDE DEF r1, r2
  <2> QED
    BY <2>2, <2>3
<1>2. PICK r : Dispatch(c, r, q.accepts) /\ SentOK(r)
  BY <1>1
<1>3. c \in Client /\ c \notin Agent
  BY GatewayAssumption DEF Client
<1>4. q.accepts \in BOOLEAN
  BY GatewayAssumption
<1> QED
  BY <1>2, <1>3, <1>4, DispatchStep

(* A proxy unpacks a body.                                                 *)
LEMMA UnpackStep ==
  ASSUME GatewayInv, NEW c \in Client, Unpack(c)
  PROVE  GatewayInv'
<1> DEFINE x == exchange[c]
           y == [x EXCEPT !.request.body = Unwrap(@), !.request.encoding = "identity",
                          !.unpacked = TRUE]
<1>1. /\ x.pc = "sent" /\ Outermost(x.request.body) = "gzip"
      /\ keys' = keys /\ data' = data /\ exchange' = [exchange EXCEPT ![c] = y]
  BY DEF Unpack, Set
<1>2. ClientOK(keys, data, c, y)
  BY <1>1, ExchangeOf, UnpackKeeps
<1> HIDE DEF y
<1> QED
  BY <1>1, <1>2, ExchangeOf, SameMemory, StepKeeps

(* The invariant holds at first.                                           *)
LEMMA GatewayInit == Init => GatewayInv
<1> SUFFICES ASSUME Init PROVE GatewayInv
  OBVIOUS
<1>1. keys \in KeyPairs
  BY GatewayAssumption DEF Init, KeyPairs, AgentKeys, ServerKeys
<1>2. data \in Memory
  BY DEF Init, Empty, Memory, Cell
<1>3. SentOK(NoRequest)
  BY NoRequestOK DEF SentOK, SignOK, NamesMetric, Secured
<1>4. ASSUME NEW c \in Client
      PROVE  ClientOK(keys, data, c, Exchange("idle", NoRequest, FALSE))
  BY <1>3, NewExchange
<1>5. /\ DOMAIN exchange = Client
      /\ \A c \in Client : exchange[c] = Exchange("idle", NoRequest, FALSE)
  BY DEF Init
<1> QED
  BY <1>1, <1>2, <1>4, <1>5 DEF GatewayInv

(* Every step keeps it.                                                    *)
LEMMA GatewayNext == GatewayInv /\ [Next]_vars => GatewayInv'
<1> SUFFICES ASSUME GatewayInv, [Next]_vars PROVE GatewayInv'
  OBVIOUS
<1>1. CASE UNCHANGED vars
  BY <1>1 DEF vars, GatewayInv
<1>2. CASE NoMoreRequests
  BY <1>2 DEF NoMoreRequests, vars, GatewayInv
<1>3. ASSUME NEW c \in Agent, SendUpdate(c)
      PROVE  GatewayInv'
  BY <1>3, SendUpdateStep
<1>4. ASSUME NEW c \in Program, Post(c)
      PROVE  GatewayInv'
  BY <1>4, PostStep
<1>5. ASSUME NEW c \in Reader, Ask(c)
      PROVE  GatewayInv'
  BY <1>5, AskStep
<1>6. ASSUME NEW c \in Client, Unpack(c) \/ StorageFails(c) \/ ServerNext(c)
      PROVE  GatewayInv'
  BY <1>6, UnpackStep, ServeStep, RefuseInvalidStep, PanicStep, StorageFailsStep,
     UpdateMetricStep, UpdateBatchStep, ApplyNextStep, BatchAppliedStep, GetMetricStep,
     GetAllSortedStep, RenderNextStep, RespondStep, PingStorageStep DEF ServerNext
<1> QED
  BY <1>1, <1>2, <1>3, <1>4, <1>5, <1>6 DEF Next

-----------------------------------------------------------------------------
(* What readers get.                                                       *)

(* SortedIDs gives the elements of a finite set, each once and in order.   *)
LEMMA SortedIsOrder ==
  ASSUME NEW S \in SUBSET Nat, IsFiniteSet(S)
  PROVE  /\ SortedIDs(S) \in Seq(S)
         /\ \A i, j \in DOMAIN SortedIDs(S) : i < j => SortedIDs(S)[i] < SortedIDs(S)[j]
         /\ \A x \in S : \E i \in DOMAIN SortedIDs(S) : SortedIDs(S)[i] = x
<1> DEFINE n == Cardinality(S)
           Below(x) == {y \in S : y < x}
           rank == [x \in S |-> Cardinality(Below(x)) + 1]
           s == SortedIDs(S)
<1>1. n \in Nat
  BY FS_CardinalityType
<1>2. \A x \in S : Cardinality(Below(x)) \in Nat /\ Cardinality(Below(x)) < n
  <2> TAKE x \in S
  <2>1. Below(x) \in SUBSET S /\ Below(x) # S
    BY x \notin Below(x)
  <2>2. IsFiniteSet(Below(x)) /\ Cardinality(Below(x)) <= n /\ Cardinality(Below(x)) # n
    BY <2>1, FS_Subset
  <2>3. Cardinality(Below(x)) \in Nat
    BY <2>2, FS_CardinalityType
  <2> QED
    BY <1>1, <2>2, <2>3
<1>3. \A x, y \in S : x < y => Cardinality(Below(x)) < Cardinality(Below(y))
  <2> SUFFICES ASSUME NEW x \in S, NEW y \in S, x < y
               PROVE  Cardinality(Below(x)) < Cardinality(Below(y))
    OBVIOUS
  <2>1. Below(x) \in SUBSET Below(y) /\ Below(x) # Below(y)
    <3>1. x \in Below(y) /\ x \notin Below(x)
      OBVIOUS
    <3>2. \A z \in S : z < x => z < y
      OBVIOUS
    <3> QED
      BY <3>1, <3>2
  <2>2. IsFiniteSet(Below(y))
    BY FS_Subset, Below(y) \in SUBSET S
  <2>3. Cardinality(Below(x)) <= Cardinality(Below(y)) /\ Cardinality(Below(x)) # Cardinality(Below(y))
    BY <2>1, <2>2, FS_Subset
  <2> QED
    BY <1>2, <2>3
<1> HIDE DEF Below
<1>4. rank \in [S -> 1 .. n] /\ \A x \in S : rank[x] = Cardinality(Below(x)) + 1
  <2>1. \A x \in S : Cardinality(Below(x)) + 1 \in 1 .. n
    BY <1>1, <1>2
  <2> QED
    BY <2>1
<1> HIDE DEF rank
<1>5. \A x, y \in S : (x < y <=> rank[x] < rank[y]) /\ (rank[x] = rank[y] => x = y)
  BY <1>2, <1>3, <1>4
<1>6. rank \in Injection(S, 1 .. n)
  BY <1>4, <1>5 DEF Injection, IsInjective
<1>7. IsFiniteSet(1 .. n) /\ Cardinality(1 .. n) = n
  BY <1>1, FS_Interval
<1>8. rank \in Surjection(S, 1 .. n)
  BY <1>6, <1>7, FS_Injection
<1>9. \A k \in 1 .. n : \E x \in S : Cardinality(Below(x)) = k - 1
  <2> TAKE k \in 1 .. n
  <2>1. PICK x \in S : rank[x] = k
    BY <1>8 DEF Surjection
  <2> QED
    BY <1>1, <1>2, <1>4, <2>1
<1>10. s = [k \in 1 .. n |-> CHOOSE x \in S : Cardinality(Below(x)) = k - 1]
  BY DEF SortedIDs, Below
<1>11. s \in [1 .. n -> S] /\ \A k \in 1 .. n : rank[s[k]] = k
  <2> HIDE DEF s
  <2>1. ASSUME NEW k \in 1 .. n PROVE s[k] \in S /\ Cardinality(Below(s[k])) = k - 1
    <3>1. s[k] = CHOOSE x \in S : Cardinality(Below(x)) = k - 1
      BY <1>10
    <3>2. \E x \in S : Cardinality(Below(x)) = k - 1
      BY <1>9
    <3>3. PICK m : m = k - 1
      OBVIOUS
    <3>4. s[k] = CHOOSE x \in S : Cardinality(Below(x)) = m
      BY <3>1, <3>3
    <3> QED
      BY ONLY <3>2, <3>3, <3>4, Zenon
  <2>2. s \in [1 .. n -> S]
    BY <1>10, <2>1
  <2>3. ASSUME NEW k \in 1 .. n PROVE rank[s[k]] = k
    <3>1. s[k] \in S /\ Cardinality(Below(s[k])) = k - 1
      BY <2>1
    <3>2. rank[s[k]] = Cardinality(Below(s[k])) + 1
      BY <1>4, <3>1
    <3> QED
      BY <1>1, <3>1, <3>2
  <2> QED
    BY <2>2, <2>3
<1> HIDE DEF s
<1>12. s \in Seq(S) /\ DOMAIN s = 1 .. n
  BY <1>1, <1>11
<1>13. \A x \in S : s[rank[x]] = x
  BY <1>4, <1>5, <1>11
<1>14. \A i, j \in 1 .. n : i < j => s[i] < s[j]
  BY <1>5, <1>11
<1> QED
  BY <1>4, <1>12, <1>13, <1>14 DEF s

(* An update adds one metric at most.                                      *)
LEMMA AccumulateAddsOne ==
  ASSUME NEW d \in Memory, NEW m \in Metrics(ID), NEW id \in ID, id # m.ID
  PROVE  Accumulate(d, m)[id] = d[id]
BY DEF Memory, Accumulate, addCounterInMutex, setGaugeInMutex

(* The history s grows to t.                                               *)
MoreSeen(s, t) == \A id \in ID : s[id] \subseteq t[id]

LEMMA SeenItself == \A s : MoreSeen(s, s)
BY DEF MoreSeen

(* What was rendered stays right while others write.                       *)
LEMMA RenderingOn ==
  ASSUME NEW d, NEW e, TypesStay(d, e), NEW s, NEW t, MoreSeen(s, t), NEW route, NEW rows,
         NEW listing, Rendering(d, s, route, rows, listing)
  PROVE  Rendering(e, t, route, rows, listing)
<1>1. rows \in Seq(RowType) /\ listing \in Seq(ID)
  BY DEF Rendering
<1>2. \A i \in DOMAIN rows : rows[i].ID \in ID
  <2>1. \A i \in DOMAIN rows : rows[i] \in RowType
    BY <1>1, ElementOfSeq, LenProperties
  <2> QED
    BY <2>1 DEF RowType
<1>3. \A j \in DOMAIN listing : listing[j] \in ID
  BY <1>1, ElementOfSeq, LenProperties
<1>4. \A i \in DOMAIN rows : RowOK(t, rows[i])
  BY <1>2 DEF Rendering, RowOK, MoreSeen
<1>5. \A j \in DOMAIN listing : e[listing[j]] # Absent
  BY <1>3 DEF Rendering, TypesStay
<1>6. Covers(s, rows, listing) => Covers(t, rows, listing)
  BY DEF Covers, MoreSeen
<1> QED
  BY <1>4, <1>5, <1>6 DEF Rendering

(* The exchange of a reader while others write.                            *)
LEMMA ReaderOn ==
  ASSUME NEW d, NEW e, TypesStay(d, e), NEW s, NEW t, MoreSeen(s, t), NEW x, ReaderOK(d, s, x),
         x.pc \notin Over => Has(t, e)
  PROVE  ReaderOK(e, t, x)
<1>1. x.pc = "render" => Rendering(e, t, x.sent.route, x.rows, x.listing)
  BY RenderingOn DEF ReaderOK
<1>2. x.pc = "answered" /\ x.response.code = 200 /\ x.sent.route # "ping" =>
        Rendering(e, t, x.sent.route, Decoded(x.response).content, << >>)
  BY RenderingOn DEF ReaderOK
<1> QED
  BY <1>1, <1>2 DEF ReaderOK

(* Nothing was rendered: the answer to a request that is no listing.       *)
LEMMA NothingRendered ==
  ASSUME NEW d, NEW s, NEW route, route # "page"
  PROVE  Rendering(d, s, route, << >>, << >>)
<1>1. << >> \in Seq(RowType) /\ << >> \in Seq(ID)
  OBVIOUS
<1>2. DOMAIN << >> = {}
  OBVIOUS
<1> QED
  BY <1>1, <1>2 DEF Rendering, InOrder

(* The listing that a handler got.                                         *)
LEMMA RenderingBegins ==
  ASSUME NEW d, NEW s, NEW route, NEW listing \in Seq(ID),
         \A j \in DOMAIN listing : d[listing[j]] # Absent,
         \A i, j \in DOMAIN listing : i < j => listing[i] < listing[j],
         route = "page" =>
           \A id \in ID : Absent \notin s[id] => \E j \in DOMAIN listing : listing[j] = id
  PROVE  Rendering(d, s, route, << >>, listing)
<1>1. << >> \in Seq(RowType)
  OBVIOUS
<1>2. DOMAIN << >> = {}
  OBVIOUS
<1> QED
  BY <1>1, <1>2 DEF Rendering, InOrder, Covers

(* The metric under id, as it is rendered.                                 *)
RowOf(d, id) == [ID |-> id, MType |-> d[id].MType, Val |-> d[id].Val]

(* It is right when it is read.                                            *)
LEMMA RowOfMemory ==
  ASSUME NEW d \in Memory, NEW s, Has(s, d), NEW id \in ID, d[id] # Absent
  PROVE  RowOf(d, id) \in RowType /\ RowOK(s, RowOf(d, id)) /\ RowOf(d, id).ID = id
<1>1. PICK c \in Stored : c = d[id]
  BY DEF Memory, Cell
<1>2. RowOf(d, id) = [ID |-> id, MType |-> c.MType, Val |-> c.Val]
  BY <1>1 DEF RowOf
<1>3. RowOf(d, id) \in RowType
  BY <1>2 DEF Stored, RowType
<1>4. [MType |-> c.MType, Val |-> c.Val] = c
  BY DEF Stored
<1> QED
  BY <1>1, <1>2, <1>3, <1>4 DEF RowOK, Has

(* The next metric is rendered.                                            *)
LEMMA RenderingNext ==
  ASSUME NEW d \in Memory, NEW s, Has(s, d), NEW route, NEW rows, NEW listing,
         Rendering(d, s, route, rows, listing), listing # << >>
  PROVE  Rendering(d, s, route, Append(rows, RowOf(d, Head(listing))), Tail(listing))
<1> DEFINE id == Head(listing)
           row == RowOf(d, id)
           more == Append(rows, row)
           rest == Tail(listing)
<1>1. rows \in Seq(RowType) /\ listing \in Seq(ID)
  BY DEF Rendering
<1>2. PICK n \in Nat : n = Len(listing) /\ n # 0 /\ DOMAIN listing = 1 .. n
  BY <1>1, EmptySeq, LenProperties
<1>3. /\ id = listing[1] /\ id \in ID /\ rest \in Seq(ID) /\ DOMAIN rest = 1 .. (n - 1)
      /\ \A j \in 1 .. (n - 1) : rest[j] = listing[j + 1]
  <2>1. /\ id = listing[1] /\ id \in ID /\ rest \in Seq(ID) /\ Len(rest) = n - 1
        /\ \A j \in 1 .. Len(rest) : rest[j] = listing[j + 1]
    BY <1>1, <1>2, HeadTailProperties
  <2> QED
    BY <2>1, LenProperties
<1>4. d[id] # Absent
  BY <1>2, <1>3 DEF Rendering
<1>5. row \in RowType /\ RowOK(s, row) /\ row.ID = id
  BY <1>3, <1>4, RowOfMemory
<1> HIDE DEF row
<1>6. PICK k \in Nat : k = Len(rows) /\ DOMAIN rows = 1 .. k
  BY <1>1, LenProperties
<1>7. /\ more \in Seq(RowType) /\ DOMAIN more = 1 .. (k + 1) /\ more[k + 1] = row
      /\ \A i \in 1 .. k : more[i] = rows[i]
  BY <1>1, <1>5, <1>6, AppendProperties
<1> HIDE DEF more, rest, id
<1>8. \A i \in DOMAIN more : RowOK(s, more[i])
  <2> TAKE i \in DOMAIN more
  <2>1. i \in 1 .. k \/ i = k + 1
    BY <1>7
  <2> QED
    BY <1>5, <1>6, <1>7, <2>1 DEF Rendering
<1>9. \A j \in DOMAIN rest : d[rest[j]] # Absent
  <2> TAKE j \in DOMAIN rest
  <2>1. j + 1 \in DOMAIN listing /\ rest[j] = listing[j + 1]
    BY <1>2, <1>3
  <2> QED
    BY <2>1 DEF Rendering
<1>10. /\ \A i, j \in 1 .. k : i < j => rows[i].ID < rows[j].ID
       /\ \A i, j \in 1 .. n : i < j => listing[i] < listing[j]
       /\ \A i \in 1 .. k, j \in 1 .. n : rows[i].ID < listing[j]
  BY <1>2, <1>6 DEF Rendering, InOrder
<1>11. \A i, j \in DOMAIN more : i < j => more[i].ID < more[j].ID
  <2> SUFFICES ASSUME NEW i \in DOMAIN more, NEW j \in DOMAIN more, i < j
               PROVE  more[i].ID < more[j].ID
    OBVIOUS
  <2>1. i \in 1 .. k /\ more[i] = rows[i]
    BY <1>7
  <2>2. CASE j \in 1 .. k
    BY <1>7, <1>10, <2>1, <2>2
  <2>3. CASE j = k + 1
    <3>1. more[j].ID = listing[1] /\ 1 \in 1 .. n
      BY <1>2, <1>3, <1>5, <1>7, <2>3
    <3> QED
      BY <1>10, <2>1, <3>1
  <2> QED
    BY <1>7, <2>2, <2>3
<1>12. \A i, j \in DOMAIN rest : i < j => rest[i] < rest[j]
  <2> SUFFICES ASSUME NEW i \in DOMAIN rest, NEW j \in DOMAIN rest, i < j
               PROVE  rest[i] < rest[j]
    OBVIOUS
  <2>1. i + 1 \in 1 .. n /\ j + 1 \in 1 .. n /\ i + 1 < j + 1
    BY <1>2, <1>3
  <2> QED
    BY <1>3, <1>10, <2>1
<1>13. \A i \in DOMAIN more, j \in DOMAIN rest : more[i].ID < rest[j]
  <2> SUFFICES ASSUME NEW i \in DOMAIN more, NEW j \in DOMAIN rest
               PROVE  more[i].ID < rest[j]
    OBVIOUS
  <2>1. j + 1 \in 1 .. n /\ 1 \in 1 .. n /\ 1 < j + 1 /\ rest[j] = listing[j + 1]
    BY <1>2, <1>3
  <2>2. CASE i \in 1 .. k
    BY <1>7, <1>10, <2>1, <2>2
  <2>3. CASE i = k + 1
    <3>1. more[i].ID = listing[1]
      BY <1>3, <1>5, <1>7, <2>3
    <3> QED
      BY <1>10, <2>1, <3>1
  <2> QED
    BY <1>7, <2>2, <2>3
<1>14. ASSUME route = "page", NEW q \in ID, Absent \notin s[q]
       PROVE  (\E i \in DOMAIN more : more[i].ID = q) \/ (\E j \in DOMAIN rest : rest[j] = q)
  <2>1. (\E i \in 1 .. k : rows[i].ID = q) \/ (\E j \in 1 .. n : listing[j] = q)
    BY <1>2, <1>6, <1>14 DEF Rendering, Covers
  <2>2. ASSUME NEW i \in 1 .. k, rows[i].ID = q
        PROVE  \E l \in DOMAIN more : more[l].ID = q
    <3>1. i \in DOMAIN more /\ more[i].ID = q
      BY <1>7, <2>2
    <3> QED
      BY <3>1
  <2>3. ASSUME NEW j \in 1 .. n, j # 1, listing[j] = q
        PROVE  \E l \in DOMAIN rest : rest[l] = q
    <3>1. j - 1 \in 1 .. (n - 1) /\ (j - 1) + 1 = j
      BY <2>3
    <3>2. j - 1 \in DOMAIN rest /\ rest[j - 1] = q
      BY <1>3, <2>3, <3>1
    <3> QED
      BY <3>2
  <2>4. ASSUME listing[1] = q
        PROVE  \E l \in DOMAIN more : more[l].ID = q
    <3>1. k + 1 \in DOMAIN more /\ more[k + 1].ID = q
      BY <1>3, <1>5, <1>7, <2>4
    <3> QED
      BY <3>1
  <2> QED
    BY <2>1, <2>2, <2>3, <2>4
<1>15. Rendering(d, s, route, more, rest)
  BY <1>3, <1>7, <1>8, <1>9, <1>11, <1>12, <1>13, <1>14 DEF Rendering, InOrder, Covers
<1> QED
  BY <1>15 DEF more, rest, row, id

-----------------------------------------------------------------------------
(* The steps of readers.                                                   *)

(* What the invariant says of a reader.                                    *)
LEMMA OfReader ==
  ASSUME GatewayInv, ReaderInv, NEW c \in Reader
  PROVE  /\ c \in Client /\ data \in Memory /\ ReaderOK(data, since[c], exchange[c])
         /\ IsExchange(exchange[c]) /\ exchange[c].request.route = exchange[c].sent.route
<1>1. c \in Client
  BY DEF Client
<1>2. ClientOK(keys, data, c, exchange[c]) /\ data \in Memory
  BY <1>1, ExchangeOf
<1> QED
  BY <1>1, <1>2 DEF ReaderInv, ClientOK, ShapeOK, Same

(* A step of one client, beside which the others go on.                    *)
LEMMA ReadersStep ==
  ASSUME GatewayInv, ReaderInv, NEW c \in Client, NEW y, exchange' = [exchange EXCEPT ![c] = y],
         TypesStay(data, data'), IsFiniteSet(Existing'),
         \A b \in Reader : b # c => /\ MoreSeen(since[b], since'[b])
                                    /\ exchange[b].pc \notin Over => Has(since'[b], data'),
         c \in Reader => ReaderOK(data', since'[c], y)
  PROVE  ReaderInv'
<1>1. ASSUME NEW b \in Reader
      PROVE  ReaderOK(data', since'[b], exchange'[b])
  <2>1. /\ b \in Client /\ DOMAIN exchange = Client
        /\ ReaderOK(data, since[b], exchange[b])
    BY OfReader DEF GatewayInv
  <2>2. CASE b = c
    BY <2>1, <2>2
  <2>3. CASE b # c
    <3>1. exchange'[b] = exchange[b]
      BY <2>3
    <3> QED
      BY <2>1, <2>3, <3>1, ReaderOn
  <2> QED
    BY <2>2, <2>3
<1> QED
  BY <1>1 DEF ReaderInv

(* A step that leaves the memory alone.                                    *)
LEMMA QuietStep ==
  ASSUME GatewayInv, ReaderInv, NEW c \in Client, NEW y, exchange' = [exchange EXCEPT ![c] = y],
         data' = data, \A b \in Reader : b # c => since'[b] = since[b],
         c \in Reader => ReaderOK(data, since'[c], y)
  PROVE  ReaderInv'
<1>1. Existing' = Existing /\ TypesStay(data, data')
  BY DEF Existing, TypesStay
<1>2. IsFiniteSet(Existing)
  BY DEF ReaderInv
<1>3. ASSUME NEW b \in Reader, b # c
      PROVE  /\ MoreSeen(since[b], since'[b])
             /\ exchange[b].pc \notin Over => Has(since'[b], data')
  BY <1>3, SeenItself, OfReader DEF ReaderOK
<1> QED
  BY <1>1, <1>2, <1>3, ReadersStep

(* An answer: a status other than 200, or the rows.                        *)
LEMMA ReaderAnswered ==
  ASSUME NEW d, NEW s, NEW x, ReaderOK(d, s, x), IsExchange(x), NEW r,
         r.code = 200 /\ x.sent.route # "ping" =>
           Rendering(d, s, x.sent.route, Decoded(r).content, << >>)
  PROVE  ReaderOK(d, s, Answered(x, r))
<1> DEFINE y == Answered(x, r)
<1>1. y.pc = "answered" /\ y.sent = x.sent /\ y.response = r
  BY DEF IsExchange, Answered
<1> HIDE DEF y
<1>2. ReaderOK(d, s, y)
  BY <1>1 DEF ReaderOK, Over
<1> QED
  BY <1>2 DEF y

(* A status alone has no rows.                                             *)
LEMMA EmptyHasNoRows ==
  ASSUME NEW accepts, NEW w, WriterFor(accepts, w), NEW code
  PROVE  Decoded(RespondEmpty(w, code)).content = << >>
<1> DEFINE r == WriteHeader(w, code)
<1>1. PICK b \in BOOLEAN : w = NewResponseWriter(b)
  BY DEF WriterFor
<1>2. w.type = NoType /\ w.encoding = "identity" /\ w.written = FALSE
  BY <1>1 DEF NewResponseWriter
<1>3. ~ checkContentTypeForCompression(w)
  BY <1>2, NoTypeIsPlain DEF checkContentTypeForCompression
<1>4. r = [w EXCEPT !.code = code, !.logged = code, !.encoding = @]
  BY <1>3 DEF WriteHeader
<1>5. r.encoding = "identity" /\ r.body = NoBody /\ r.written = FALSE
  BY <1>1, <1>4 DEF NewResponseWriter
<1>6. RespondEmpty(w, code) = r
  BY <1>5 DEF RespondEmpty, Close
<1>7. NoBody.content = << >>
  BY DEF NoBody, Body
<1> HIDE DEF r
<1>8. Decoded(r) = NoBody
  BY <1>5 DEF Decoded
<1> QED
  BY <1>6, <1>7, <1>8

(* A payload is its rows.                                                  *)
LEMMA PayloadIsRows ==
  ASSUME NEW k, NEW accepts, NEW w, WriterFor(accepts, w), NEW type, NEW form, NEW rows
  PROVE  Decoded(RespondPayload(w, k, type, Body(form, rows))).content = rows
<1> DEFINE r == RespondPayload(w, k, type, Body(form, rows))
           body == Body(form, rows)
           signature == AddSignature(k.secret, body)
<1>1. PICK b \in BOOLEAN : (b => accepts) /\ w = NewResponseWriter(b)
  BY DEF WriterFor
<1>2. Fresh([w EXCEPT !.signature = signature, !.type = type], b, type, signature)
  BY <1>1, FreshTyped
<1>3. /\ body.layers = << >> /\ body.content = rows
      /\ body = [layers |-> << >>, form |-> body.form, content |-> body.content]
  BY DEF Body
<1> HIDE DEF body, signature
<1>4. IF b /\ type \in {"application/json", "text/html"}
        THEN r.encoding = "gzip" /\ r.body = Wrap("gzip", Unwrap(Wrap("open_gzip", body)))
        ELSE r.encoding = "identity" /\ r.body = body
  BY <1>2, <1>3, Written DEF RespondPayload, body, signature
<1> HIDE DEF r
<1>5. Decoded(r) = body
  BY <1>3, <1>4, GzipIsUndone DEF Decoded
<1> QED
  BY <1>3, <1>5 DEF r

(* A step that answers and leaves the memory alone.                        *)
LEMMA ReaderAnswerStep ==
  ASSUME GatewayInv, ReaderInv, NEW c \in Client, NEW r, Answer(c, r), data' = data,
         since' = since,
         c \in Reader /\ r.code = 200 /\ exchange[c].sent.route # "ping" =>
           Rendering(data, since[c], exchange[c].sent.route, Decoded(r).content, << >>)
  PROVE  ReaderInv'
<1>1. exchange' = [exchange EXCEPT ![c] = Answered(exchange[c], r)]
  BY DEF Answer, Set, Answered
<1>2. c \in Reader => ReaderOK(data, since[c], Answered(exchange[c], r))
  BY OfReader, ReaderAnswered
<1> QED
  BY <1>1, <1>2, QuietStep

(* Requests that are made, and a proxy.                                    *)
LEMMA ReaderDispatch ==
  ASSUME GatewayInv, ReaderInv, NEW c \in Client, NEW r, NEW accepts, Dispatch(c, r, accepts)
  PROVE  ReaderInv'
<1> DEFINE y == Exchange("sent", r, accepts)
<1>1. /\ data' = data /\ exchange' = [exchange EXCEPT ![c] = y]
      /\ \A b \in Reader : b # c => since'[b] = since[b]
      /\ c \in Reader => since'[c] = [id \in ID |-> {data[id]}]
  BY DEF Dispatch, Set
<1>2. y.pc = "sent" /\ y.rows = << >>
  BY DEF Exchange
<1> HIDE DEF y
<1>3. c \in Reader => ReaderOK(data, since'[c], y)
  BY <1>1, <1>2 DEF ReaderOK, Has
<1> QED
  BY <1>1, <1>3, QuietStep

(* An exchange that goes on, with nothing rendered.                        *)
LEMMA ReaderGoesOn ==
  ASSUME GatewayInv, ReaderInv, NEW c \in Client, NEW y, exchange' = [exchange EXCEPT ![c] = y],
         data' = data, since' = since, exchange[c].pc \in {"sent", "handle"},
         y.rows = exchange[c].rows, y.pc \in {"sent", "handle", "apply", "aborted"}
  PROVE  ReaderInv'
<1>1. c \in Reader => ReaderOK(data, since[c], y)
  BY OfReader DEF ReaderOK, Over
<1> QED
  BY <1>1, QuietStep

(* A proxy, the middlewares and a panic.                                   *)
LEMMA ReaderArrives ==
  ASSUME GatewayInv, ReaderInv, NEW c \in Client, Unpack(c) \/ Serve(c) \/ Panic(c)
  PROVE  ReaderInv'
<1> DEFINE x == exchange[c]
           arrival == Chain(keys.server, x.request)
           b == x.accepts /\ arrival.by \in {"decryption", "handler"}
           w == NewResponseWriter(b)
<1>1. /\ keys \in KeyPairs /\ ClientOK(keys, data, c, x) /\ IsExchange(x)
      /\ x.accepts \in BOOLEAN /\ data' = data /\ since' = since
  BY ExchangeOf, ExchangeShape DEF ClientOK, ShapeOK, Unpack, Serve, Panic
<1>2. CASE Unpack(c)
  <2> DEFINE y == [x EXCEPT !.request.body = Unwrap(@), !.request.encoding = "identity",
                            !.unpacked = TRUE]
  <2>1. exchange' = [exchange EXCEPT ![c] = y] /\ x.pc = "sent"
    BY <1>2 DEF Unpack, Set
  <2>2. y.pc = x.pc /\ y.rows = x.rows
    BY <1>1 DEF IsExchange
  <2> HIDE DEF y
  <2> QED
    BY <1>1, <2>1, <2>2, ReaderGoesOn
<1>3. CASE Panic(c)
  <2>1. exchange' = [exchange EXCEPT ![c] = Aborted(x)] /\ x.pc = "handle"
    BY <1>3 DEF Panic, Set, Aborted
  <2>2. Aborted(x).pc = "aborted" /\ Aborted(x).rows = x.rows
    BY <1>1 DEF IsExchange, Aborted
  <2> QED
    BY <1>1, <2>1, <2>2, ReaderGoesOn
<1>4. CASE Serve(c)
  <2>1. WriterFor(x.accepts, w)
    <3>1. b \in BOOLEAN /\ (b => x.accepts)
      BY <1>1
    <3> HIDE DEF b
    <3> QED
      BY <3>1, Zenon DEF WriterFor
  <2>2. arrival.code \in {0, 400, 401} /\ x.pc = "sent"
    <3>1. x.request \in RequestType /\ keys.server \in ServerKeys
      BY <1>1, AgentKeysAre DEF ClientOK, ShapeOK, Same
    <3> QED
      BY <1>4, <3>1, ChainPasses DEF Serve
  <2>3. CASE arrival.code = 0
    <3> DEFINE y == [x EXCEPT !.pc = "handle", !.request = arrival.request, !.response = w]
    <3>1. exchange' = [exchange EXCEPT ![c] = y]
      BY <1>4, <2>3 DEF Serve, Set
    <3> HIDE DEF w
    <3>2. y.pc = "handle" /\ y.rows = x.rows
      BY <1>1 DEF IsExchange
    <3> HIDE DEF y
    <3> QED
      BY <1>1, <2>2, <3>1, <3>2, ReaderGoesOn
  <2>4. CASE arrival.code # 0
    <3>1. PICK r : Answer(c, r) /\ r.code \in {400, 401}
      <4>1. CASE arrival.code = 401
        <5>1. Answer(c, RespondEmpty(w, 401))
          BY <1>4, <4>1 DEF Serve
        <5> QED
          BY <2>1, <5>1, EmptyIsReadable
      <4>2. CASE arrival.code = 400
        <5>1. Answer(c, RespondError(w, 400))
          BY <1>4, <4>2 DEF Serve
        <5> QED
          BY <2>1, <5>1, ErrorIsReadable
      <4> QED
        BY <2>2, <2>4, <4>1, <4>2
    <3> QED
      BY <1>1, <3>1, ReaderAnswerStep
  <2> QED
    BY <2>3, <2>4
<1> QED
  BY <1>2, <1>3, <1>4

(* Answers without rows.                                                   *)
LEMMA ReaderNoRows ==
  ASSUME GatewayInv, ReaderInv, NEW c \in Client,
         exchange[c].pc \in {"handle", "apply", "render"}, data' = data, since' = since,
         \/ \E code \in {400, 404, 500} : Answer(c, RespondError(exchange[c].response, code))
         \/ /\ Answer(c, RespondEmpty(exchange[c].response, 200))
            /\ exchange[c].sent.route # "page"
         \/ Answer(c, RespondEmpty(exchange[c].response, 500))
  PROVE  ReaderInv'
<1> DEFINE x == exchange[c]
<1>1. ClientOK(keys, data, c, x) /\ WriterFor(x.accepts, x.response)
  BY ExchangeOf DEF ClientOK, ResponseOK
<1>2. CASE \E code \in {400, 404, 500} : Answer(c, RespondError(x.response, code))
  <2>1. PICK code \in {400, 404, 500} : Answer(c, RespondError(x.response, code))
    BY <1>2
  <2>2. RespondError(x.response, code).code # 200
    BY <1>1, ErrorIsReadable
  <2> QED
    BY <2>1, <2>2, ReaderAnswerStep
<1>3. CASE Answer(c, RespondEmpty(x.response, 200)) /\ x.sent.route # "page"
  <2>1. Decoded(RespondEmpty(x.response, 200)).content = << >>
    BY <1>1, EmptyHasNoRows
  <2>2. Rendering(data, since[c], x.sent.route, << >>, << >>)
    BY <1>3, NothingRendered
  <2> QED
    BY <1>3, <2>1, <2>2, ReaderAnswerStep
<1>4. CASE Answer(c, RespondEmpty(x.response, 500))
  <2>1. RespondEmpty(x.response, 500).code # 200
    BY <1>1, EmptyIsReadable
  <2> QED
    BY <1>4, <2>1, ReaderAnswerStep
<1> QED
  BY <1>2, <1>3, <1>4

(* A request is refused, the storage fails, a ping.                        *)
LEMMA ReaderRefused ==
  ASSUME GatewayInv, ReaderInv, NEW c \in Client,
         RefuseInvalid(c) \/ StorageFails(c) \/ PingStorage(c) \/ BatchApplied(c)
  PROVE  ReaderInv'
<1> DEFINE x == exchange[c]
<1>1. /\ ClientOK(keys, data, c, x) /\ x.request.route = x.sent.route
      /\ x.pc = "apply" => x.sent.route = "updates"
  BY ExchangeOf DEF ClientOK, PassedOK, ShapeOK, Same
<1>2. x.pc \in {"handle", "apply"} /\ data' = data /\ since' = since
  BY DEF RefuseInvalid, StorageFails, PingStorage, BatchApplied, Handles
<1>3. \/ Answer(c, RespondError(x.response, 400)) \/ Answer(c, RespondError(x.response, 500))
      \/ Answer(c, RespondEmpty(x.response, 200)) /\ x.sent.route # "page"
  BY <1>1 DEF RefuseInvalid, StorageFails, PingStorage, BatchApplied, Handles, Writer
<1> QED
  BY <1>2, <1>3, ReaderNoRows

(* What one update leaves.                                                 *)
LEMMA UpdateStays ==
  ASSUME GatewayInv, ReaderInv, NEW m \in Metrics(ID), data' = Accumulate(data, m)
  PROVE  TypesStay(data, data') /\ IsFiniteSet(Existing')
<1>1. data \in Memory /\ IsFiniteSet(Existing)
  BY DEF GatewayInv, ReaderInv
<1>2. \A id \in ID : data'[id] # Absent => data[id] # Absent \/ id = m.ID
  BY <1>1, AccumulateAddsOne
<1>3. Existing' \in SUBSET (Existing \cup {m.ID})
  BY <1>2 DEF Existing
<1>4. IsFiniteSet(Existing \cup {m.ID})
  BY <1>1, FS_AddElement
<1>5. IsFiniteSet(Existing')
  BY <1>3, <1>4, FS_Subset
<1> QED
  BY <1>1, <1>5, AccumulateKeepsTypes

(* What readers have seen after it.                                        *)
LEMMA ObserveSees ==
  ASSUME Observe, NEW b \in Reader
  PROVE  /\ MoreSeen(since[b], since'[b])
         /\ exchange[b].pc \notin Over => Has(since'[b], data')
<1>1. CASE Ended(b)
  BY <1>1, SeenItself DEF Observe, Ended, Over
<1>2. CASE ~ Ended(b)
  <2>1. since'[b] = [id \in ID |-> since[b][id] \cup {data'[id]}]
    BY <1>2 DEF Observe
  <2> QED
    BY <2>1 DEF MoreSeen, Has
<1> QED
  BY <1>1, <1>2

(* One metric.                                                             *)
LEMMA ReaderUpdates ==
  ASSUME GatewayInv, ReaderInv, NEW c \in Client, UpdateMetric(c)
  PROVE  ReaderInv'
<1> DEFINE x == exchange[c]
           m == Head(Carried(x.request))
<1>1. /\ x.pc = "handle" /\ x.request.route \in {"update_by_path", "update"}
      /\ ValidRequest(x.request) /\ data' = Accumulate(data, m) /\ Observe
  BY ValidIs DEF UpdateMetric, Handles
<1>2. /\ data \in Memory /\ ClientOK(keys, data, c, x) /\ IsExchange(x)
      /\ WriterFor(x.accepts, x.response) /\ x.request.route = x.sent.route
  BY <1>1, ExchangeOf, ExchangeShape DEF ClientOK, ResponseOK, ShapeOK, Same
<1>3. m \in Metrics(ID)
  BY <1>1, <1>2, ValidCarries
<1>4. TypesStay(data, data') /\ IsFiniteSet(Existing')
  BY <1>1, <1>3, UpdateStays
<1>5. PICK r : /\ Answer(c, r)
               /\ r.code = 200 => Decoded(r).content = << >>
  <2>1. CASE Refuses(data, m.ID, m.MType)
    <3>1. Answer(c, RespondError(x.response, 400))
      BY <2>1 DEF UpdateMetric, Writer
    <3>2. RespondError(x.response, 400).code = 400
      BY <1>2, ErrorIsReadable
    <3> QED
      BY <3>1, <3>2
  <2>2. CASE ~ Refuses(data, m.ID, m.MType)
    <3>1. Answer(c, RespondEmpty(x.response, 200))
      BY <2>2 DEF UpdateMetric, Writer
    <3>2. Decoded(RespondEmpty(x.response, 200)).content = << >>
      BY <1>2, EmptyHasNoRows
    <3> QED
      BY <3>1, <3>2
  <2> QED
    BY <2>1, <2>2
<1>6. exchange' = [exchange EXCEPT ![c] = Answered(x, r)]
  BY <1>5 DEF Answer, Set, Answered
<1>7. PICK d, s : d = data' /\ s = since'[c]
  OBVIOUS
<1>8. ASSUME c \in Reader
      PROVE  ReaderOK(d, s, Answered(x, r))
  <2>1. ReaderOK(d, s, x)
    BY <1>1, <1>4, <1>7, <1>8, OfReader, ObserveSees, ReaderOn
  <2>2. Rendering(d, s, x.sent.route, << >>, << >>)
    BY <1>1, <1>2, NothingRendered
  <2> HIDE DEF x
  <2> QED
    BY <1>2, <1>5, <2>1, <2>2, ReaderAnswered
<1> QED
  BY <1>1, <1>4, <1>6, <1>7, <1>8, ObserveSees, ReadersStep

(* A batch begins, and one of its metrics is applied.                      *)
LEMMA ReaderBatches ==
  ASSUME GatewayInv, ReaderInv, NEW c \in Client, UpdateBatch(c) \/ ApplyNext(c)
  PROVE  ReaderInv'
<1> DEFINE x == exchange[c]
<1>1. data \in Memory /\ ClientOK(keys, data, c, x) /\ IsExchange(x) /\ DOMAIN exchange = Client
  BY ExchangeOf, ExchangeShape DEF GatewayInv
<1>2. CASE UpdateBatch(c)
  <2> DEFINE metrics == Carried(x.request)
  <2>1. x.pc = "handle" /\ data' = data /\ since' = since
    BY <1>2 DEF UpdateBatch, Handles
  <2>2. CASE BatchIsValid(data, metrics)
    <3> DEFINE y == [x EXCEPT !.pc = "apply", !.todo = metrics]
    <3>1. exchange' = [exchange EXCEPT ![c] = y]
      BY <1>2, <2>2 DEF UpdateBatch, Set
    <3> HIDE DEF metrics
    <3>2. y.pc = "apply" /\ y.rows = x.rows
      BY <1>1 DEF IsExchange
    <3> HIDE DEF y
    <3> QED
      BY <2>1, <3>1, <3>2, ReaderGoesOn
  <2>3. CASE ~ BatchIsValid(data, metrics)
    <3>1. Answer(c, RespondError(x.response, 400))
      BY <1>2, <2>3 DEF UpdateBatch, Writer
    <3> QED
      BY <2>1, <3>1, ReaderNoRows
  <2> QED
    BY <2>2, <2>3
<1>3. CASE ApplyNext(c)
  <2> DEFINE m == Head(x.todo)
             rest == Tail(x.todo)
             y == [x EXCEPT !.todo = rest]
  <2>1. x.pc = "apply" /\ x.todo # << >> /\ data' = Accumulate(data, m) /\ Observe
    BY <1>3 DEF ApplyNext
  <2>2. x.todo \in Seq(Metrics(ID))
    BY <1>1, <2>1 DEF ClientOK, PassedOK
  <2>3. m \in Metrics(ID)
    BY <2>1, <2>2, HeadTailProperties
  <2>4. exchange' = [exchange EXCEPT ![c] = y]
    BY <1>3 DEF ApplyNext
  <2> HIDE DEF rest, m
  <2>5. TypesStay(data, data') /\ IsFiniteSet(Existing')
    BY <2>1, <2>3, UpdateStays
  <2>6. y.pc = "apply" /\ y.sent = x.sent
    BY <1>1, <2>1 DEF IsExchange
  <2> HIDE DEF y
  <2>7. PICK d, s : d = data' /\ s = since'[c]
    OBVIOUS
  <2>8. ASSUME c \in Reader
        PROVE  ReaderOK(d, s, y)
    <3>1. ReaderOK(d, s, x)
      BY <2>1, <2>5, <2>7, <2>8, OfReader, ObserveSees, ReaderOn
    <3> QED
      BY <2>1, <2>6, <3>1 DEF ReaderOK
  <2> QED
    BY <2>1, <2>4, <2>5, <2>7, <2>8, ObserveSees, ReadersStep
<1> QED
  BY <1>2, <1>3

(* A handler has got its listing.                                          *)
LEMMA ReaderLists ==
  ASSUME GatewayInv, ReaderInv, NEW c \in Client, NEW listing \in Seq(ID), data' = data,
         since' = since, exchange[c].pc = "handle",
         exchange' = [exchange EXCEPT ![c] = [exchange[c] EXCEPT !.pc = "render",
                                                                 !.listing = listing]],
         \A j \in DOMAIN listing : data[listing[j]] # Absent,
         \A i, j \in DOMAIN listing : i < j => listing[i] < listing[j],
         exchange[c].sent.route = "page" =>
           \A id \in ID : data[id] # Absent => \E j \in DOMAIN listing : listing[j] = id
  PROVE  ReaderInv'
<1> DEFINE x == exchange[c]
           y == [x EXCEPT !.pc = "render", !.listing = listing]
<1>1. IsExchange(x)
  BY ExchangeShape
<1>2. /\ y.pc = "render" /\ y.rows = x.rows /\ y.sent = x.sent
      /\ y.listing = listing
  BY <1>1 DEF IsExchange
<1>3. exchange' = [exchange EXCEPT ![c] = y]
  OBVIOUS
<1> HIDE DEF y
<1>4. ASSUME c \in Reader
      PROVE  ReaderOK(data, since[c], y)
  <2>1. ReaderOK(data, since[c], x) /\ x.rows = << >> /\ Has(since[c], data)
    BY <1>4, OfReader DEF ReaderOK, Over
  <2>2. x.sent.route = "page" =>
          \A id \in ID : Absent \notin since[c][id] => \E j \in DOMAIN listing : listing[j] = id
    BY <2>1 DEF Has
  <2>3. Rendering(data, since[c], x.sent.route, << >>, listing)
    BY <2>2, RenderingBegins
  <2> QED
    BY <1>2, <2>1, <2>3 DEF ReaderOK
<1> QED
  BY <1>3, <1>4, QuietStep

(* One metric, and all of them.                                            *)
LEMMA ReaderGets ==
  ASSUME GatewayInv, ReaderInv, NEW c \in Client, GetMetric(c) \/ GetAllSorted(c)
  PROVE  ReaderInv'
<1> DEFINE x == exchange[c]
<1>1. x.pc = "handle" /\ data' = data /\ since' = since /\ x.request.route = x.sent.route
  <2>1. ClientOK(keys, data, c, x)
    BY ExchangeOf
  <2> QED
    BY <2>1 DEF ClientOK, ShapeOK, Same, GetMetric, GetAllSorted, Handles
<1>2. CASE GetMetric(c)
  <2> DEFINE m == Head(Carried(x.request))
             found == m.ID \in ID /\ data[m.ID] # Absent /\ data[m.ID].MType = m.MType
  <2>1. x.sent.route # "page"
    BY <1>1, <1>2 DEF GetMetric, Handles
  <2>2. CASE found
    <3>1. exchange' = [exchange EXCEPT ![c] = [x EXCEPT !.pc = "render", !.listing = <<m.ID>>]]
      BY <1>2, <2>2 DEF GetMetric, Set
    <3>2. PICK id \in ID : id = m.ID /\ data[id] # Absent
      BY <2>2
    <3>3. <<id>> \in Seq(ID) /\ DOMAIN <<id>> = {1} /\ <<id>>[1] = id
      OBVIOUS
    <3>4. /\ \A j \in DOMAIN <<id>> : data[<<id>>[j]] # Absent
          /\ \A i, j \in DOMAIN <<id>> : ~ (i < j)
      BY <3>2, <3>3
    <3>5. exchange' = [exchange EXCEPT ![c] = [x EXCEPT !.pc = "render", !.listing = <<id>>]]
      BY <3>1, <3>2
    <3> QED
      BY <1>1, <2>1, <3>3, <3>4, <3>5, ReaderLists
  <2>3. CASE ~ found
    <3>1. Answer(c, RespondError(x.response, 404))
      BY <1>2, <2>3 DEF GetMetric, Writer
    <3> QED
      BY <1>1, <3>1, ReaderNoRows
  <2> QED
    BY <2>2, <2>3
<1>3. CASE GetAllSorted(c)
  <2> DEFINE listing == SortedIDs(Existing)
  <2>1. exchange' = [exchange EXCEPT ![c] = [x EXCEPT !.pc = "render", !.listing = listing]]
    BY <1>3 DEF GetAllSorted, Set
  <2>2. Existing \in SUBSET Nat /\ Existing \in SUBSET ID /\ IsFiniteSet(Existing)
    BY GatewayAssumption DEF Existing, ReaderInv
  <2>3. /\ listing \in Seq(Existing)
        /\ \A i, j \in DOMAIN listing : i < j => listing[i] < listing[j]
        /\ \A id \in Existing : \E j \in DOMAIN listing : listing[j] = id
    BY <2>2, SortedIsOrder
  <2> HIDE DEF listing
  <2>4. listing \in Seq(ID) /\ \A j \in DOMAIN listing : listing[j] \in Existing
    <3>1. DOMAIN listing = 1 .. Len(listing) /\ Len(listing) \in Nat
      BY <2>3, LenProperties
    <3>2. \A j \in DOMAIN listing : listing[j] \in Existing
      BY <2>3, <3>1, ElementOfSeq
    <3>3. listing \in Seq(ID)
      <4>1. PICK n \in Nat : listing \in [1 .. n -> Existing]
        <5>1. Seq(Existing) = UNION {[1 .. n -> Existing] : n \in Nat}
          BY ONLY SeqDef, Zenon
        <5>2. listing \in UNION {[1 .. n -> Existing] : n \in Nat}
          BY <2>3, <5>1, Zenon
        <5> QED
          BY ONLY <5>2
      <4>2. listing \in [1 .. n -> ID]
        BY <2>2, <4>1
      <4> QED
        BY <4>2, SeqDef, Zenon
    <3> QED
      BY <3>2, <3>3
  <2>5. \A j \in DOMAIN listing : data[listing[j]] # Absent
    BY <2>4 DEF Existing
  <2>6. \A id \in ID : data[id] # Absent => \E j \in DOMAIN listing : listing[j] = id
    BY <2>3 DEF Existing
  <2> QED
    BY <1>1, <2>1, <2>3, <2>4, <2>5, <2>6, ReaderLists
<1> QED
  BY <1>2, <1>3

(* One row.                                                                *)
LEMMA ReaderRenders ==
  ASSUME GatewayInv, ReaderInv, NEW c \in Client, RenderNext(c)
  PROVE  ReaderInv'
<1> DEFINE x == exchange[c]
           rest == Tail(x.listing)
           rows == Append(x.rows, RowOf(data, Head(x.listing)))
           y == [x EXCEPT !.listing = rest, !.rows = rows]
<1>1. /\ x.pc = "render" /\ x.listing # << >> /\ data' = data /\ since' = since
      /\ IsExchange(x)
  BY ExchangeShape DEF RenderNext
<1>2. exchange' = [exchange EXCEPT ![c] = y]
  BY <1>1 DEF RenderNext, Set, IsExchange, RowOf
<1> HIDE DEF rest, rows
<1>3. /\ y.pc = "render" /\ y.rows = rows /\ y.sent = x.sent
      /\ y.listing = rest
  BY <1>1 DEF IsExchange
<1> HIDE DEF y
<1>4. ASSUME c \in Reader
      PROVE  ReaderOK(data, since[c], y)
  <2>1. /\ data \in Memory /\ Has(since[c], data)
        /\ Rendering(data, since[c], x.sent.route, x.rows, x.listing)
    BY <1>1, <1>4, OfReader DEF ReaderOK, Over
  <2>2. Rendering(data, since[c], x.sent.route, rows, rest)
    BY <1>1, <2>1, RenderingNext DEF rows, rest
  <2> QED
    BY <1>3, <2>1, <2>2 DEF ReaderOK
<1> QED
  BY <1>1, <1>2, <1>4, QuietStep

(* The rows are sent.                                                      *)
LEMMA ReaderResponds ==
  ASSUME GatewayInv, ReaderInv, NEW c \in Client, Respond(c)
  PROVE  ReaderInv'
<1> DEFINE x == exchange[c]
           Payload(contentType, form) ==
             RespondPayload(x.response, keys.server, contentType, Body(form, x.rows))
<1>1. x.pc = "render" /\ x.listing = << >> /\ data' = data /\ since' = since
  BY DEF Respond
<1>2. WriterFor(x.accepts, x.response)
  BY <1>1, ExchangeOf DEF ClientOK, ResponseOK
<1>3. \/ \E type, form : Answer(c, Payload(type, form))
      \/ Answer(c, RespondEmpty(x.response, 500))
  <2>1. \/ Answer(c, Payload("text/html", "text"))
        \/ Answer(c, Payload("text/plain", "text"))
        \/ Answer(c, Payload("application/json", "object"))
        \/ Answer(c, RespondEmpty(x.response, 500))
    BY DEF Respond
  <2> HIDE DEF Payload
  <2> QED
    BY <2>1
<1>4. CASE \E type, form : Answer(c, Payload(type, form))
  <2>1. PICK type, form : Answer(c, Payload(type, form))
    BY <1>4
  <2>2. Decoded(Payload(type, form)).content = x.rows
    BY <1>2, PayloadIsRows
  <2> HIDE DEF Payload
  <2>3. c \in Reader => Rendering(data, since[c], x.sent.route, x.rows, << >>)
    BY <1>1, OfReader DEF ReaderOK
  <2> QED
    BY <1>1, <2>1, <2>2, <2>3, ReaderAnswerStep
<1>5. CASE Answer(c, RespondEmpty(x.response, 500))
  BY <1>1, <1>5, ReaderNoRows
<1> QED
  BY <1>3, <1>4, <1>5

(* The invariant of readers holds at first.                                *)
LEMMA ReaderInit == Init => ReaderInv
<1> SUFFICES ASSUME Init PROVE ReaderInv
  OBVIOUS
<1>1. Existing = {}
  BY DEF Init, Existing, Empty
<1>2. IsFiniteSet(Existing)
  BY <1>1, FS_EmptySet
<1>3. ASSUME NEW c \in Reader
      PROVE  ReaderOK(data, since[c], exchange[c])
  <2>1. exchange[c] = Exchange("idle", NoRequest, FALSE)
    BY DEF Init, Client
  <2>2. exchange[c].pc = "idle"
    BY <2>1 DEF Exchange
  <2> QED
    BY <2>2 DEF ReaderOK, Over
<1> QED
  BY <1>2, <1>3 DEF ReaderInv

(* Every step keeps it.                                                    *)
LEMMA ReaderNext ==
  ASSUME GatewayInv, ReaderInv, [Next]_vars
  PROVE  ReaderInv'
<1>1. CASE NoMoreRequests \/ UNCHANGED vars
  BY <1>1 DEF NoMoreRequests, vars, ReaderInv, Existing
<1>2. ASSUME NEW c \in Client, NEW r, NEW accepts, Dispatch(c, r, accepts)
      PROVE  ReaderInv'
  BY <1>2, ReaderDispatch
<1>3. CASE (\E c \in Agent : SendUpdate(c)) \/ (\E c \in Program : Post(c))
           \/ \E c \in Reader : Ask(c)
  <2>1. PICK c \in Client : \E r, accepts : Dispatch(c, r, accepts)
    BY <1>3 DEF SendUpdate, Post, Ask, Client
  <2> QED
    BY <1>2, <2>1
<1>4. ASSUME NEW c \in Client, Unpack(c) \/ StorageFails(c) \/ ServerNext(c)
      PROVE  ReaderInv'
  BY <1>4, ReaderArrives, ReaderRefused, ReaderUpdates, ReaderBatches, ReaderGets, ReaderRenders,
     ReaderResponds DEF ServerNext
<1> QED
  BY <1>1, <1>3, <1>4 DEF Next

-----------------------------------------------------------------------------
(* The theorems.                                                           *)

(* In every exchange the request is what the client sent, less layers; it  *)
(* passes the middlewares only if it is genuine; its answer is readable;   *)
(* and the memory never forgets a metric's type.                           *)
THEOREM GatewayInvariant == Spec => []GatewayInv
<1> QED
  BY GatewayInit, GatewayNext, PTL DEF Spec

(* Every response, of every handler and middleware, can be read by the     *)
(* client it goes to.                                                      *)
THEOREM ResponsesAreReadable == Spec => []ResponseIsReadable
<1>1. GatewayInv => ResponseIsReadable
  <2> SUFFICES ASSUME GatewayInv, NEW c \in Client, exchange[c].pc = "answered"
               PROVE  ReadableResponse(keys.server.secret, exchange[c].accepts,
                                       exchange[c].response)
    BY DEF ResponseIsReadable, ReadableResponse
  <2> QED
    BY ExchangeOf DEF ClientOK, ResponseOK
<1> QED
  BY <1>1, GatewayInvariant, PTL

(* An agent's update gets through exactly if the keys fit, for every       *)
(* configuration of keys.                                                  *)
THEOREM AgentsGetThrough == Spec => []FittingKeysDeliver
<1>1. GatewayInv => FittingKeysDeliver
  <2> SUFFICES ASSUME GatewayInv, NEW c \in Agent, exchange[c].pc = "answered",
                      ~ exchange[c].unpacked
               PROVE  Delivered(keys, data, exchange[c].sent, exchange[c].response.code)
    BY DEF FittingKeysDeliver, Delivered, Fit, KeysFit
  <2>1. c \in Client
    BY DEF Client
  <2> QED
    BY <2>1, ExchangeOf DEF ClientOK, AgentOK
<1> QED
  BY <1>1, GatewayInvariant, PTL

(* The memory changes only on behalf of a genuine request.                 *)
THEOREM OnlyGenuineUpdates ==
  ASSUME SignedAsSent
  PROVE  Spec => UpdatesAreGenuine
<1> DEFINE Step == data' # data =>
                     \E c \in Client : exchange'[c] # exchange[c] /\ Genuine(exchange[c])
<1>1. ASSUME GatewayInv, [Next]_vars
      PROVE  [Step]_vars
  <2> SUFFICES ASSUME data' # data
               PROVE  \E c \in Client : exchange'[c] # exchange[c] /\ Genuine(exchange[c])
    OBVIOUS
  <2>1. PICK c \in Client : UpdateMetric(c) \/ ApplyNext(c)
    BY <1>1 DEF Next, vars, NoMoreRequests, SendUpdate, Post, Ask, Dispatch, Unpack, ServerNext,
       Serve, RefuseInvalid, Panic, StorageFails, UpdateBatch, BatchApplied, GetMetric,
       GetAllSorted, RenderNext, Respond, PingStorage
  <2> DEFINE x == exchange[c]
  <2>2. ClientOK(keys, data, c, x) /\ DOMAIN exchange = Client /\ IsExchange(x)
    BY <1>1, ExchangeOf, ExchangeShape DEF GatewayInv
  <2>3. x.pc \in {"handle", "apply"} /\ x.sent.route \in Secured
    <3>1. x.request.route = x.sent.route
      BY <2>2 DEF ClientOK, ShapeOK, Same
    <3>2. x.pc = "apply" => x.sent.route = "updates"
      BY <2>2 DEF ClientOK, PassedOK
    <3> QED
      BY <2>1, <3>1, <3>2 DEF UpdateMetric, ApplyNext, Handles, Secured
  <2>4. Genuine(x)
    <3>1. IsGenuine(keys, x)
      BY <2>2, <2>3 DEF ClientOK, PassedOK
    <3> QED
      BY <3>1 DEF IsGenuine, Genuine
  <2>5. exchange'[c] # x
    <3>1. CASE UpdateMetric(c)
      <4>1. x.pc = "handle" /\ \E r : exchange' = [exchange EXCEPT ![c] = Answered(x, r)]
        BY <3>1 DEF UpdateMetric, Handles, Answer, Set, Answered
      <4>2. exchange'[c].pc = "answered"
        BY <2>2, <4>1 DEF Answered, IsExchange
      <4> QED
        BY <4>1, <4>2
    <3>2. CASE ApplyNext(c)
      <4>1. x.todo # << >> /\ x.pc = "apply"
            /\ exchange' = [exchange EXCEPT ![c] = [x EXCEPT !.todo = Tail(x.todo)]]
        BY <3>2 DEF ApplyNext
      <4>2. exchange'[c].todo = Tail(x.todo)
        BY <2>2, <4>1 DEF IsExchange
      <4>3. x.todo \in Seq(Metrics(ID))
        BY <2>2, <4>1 DEF ClientOK, PassedOK
      <4>4. Tail(x.todo) # x.todo
        <5>1. ASSUME NEW s \in Seq(Metrics(ID)), s # << >>
              PROVE  Tail(s) # s
          <6>1. Len(s) \in Nat /\ Len(Tail(s)) = Len(s) - 1
            BY <5>1, HeadTailProperties, LenProperties
          <6> QED
            BY <6>1
        <5> QED
          BY <4>1, <4>3, <5>1
      <4> QED
        BY <4>2, <4>4
    <3> QED
      BY <2>1, <3>1, <3>2
  <2> QED
    BY <2>4, <2>5
<1>2. GatewayInv /\ [Next]_vars => [Step]_vars
  BY <1>1
<1> QED
  BY <1>2, GatewayInvariant, PTL DEF Spec, UpdatesAreGenuine

(* A reader gets every metric that existed when it asked, once and in      *)
(* order, with a type and a value that the metric had between the request  *)
(* and the answer, whatever updates and half applied batches the rows were *)
(* read beside (handlers.go, getMetric and showMetricsPage).               *)
THEOREM ReadersAreCurrent == Spec => []ReadsAreCurrent
<1>1. Init => GatewayInv /\ ReaderInv
  BY GatewayInit, ReaderInit
<1>2. GatewayInv /\ ReaderInv /\ [Next]_vars => GatewayInv' /\ ReaderInv'
  BY GatewayNext, ReaderNext
<1>3. ASSUME GatewayInv, ReaderInv
      PROVE  ReadsAreCurrent
  <2> SUFFICES ASSUME NEW c \in Reader, exchange[c].pc = "answered",
                      exchange[c].response.code = 200, exchange[c].sent.route # "ping"
               PROVE  LET x    == exchange[c]
                          rows == Decoded(x.response).content
                      IN  /\ \A i, j \in DOMAIN rows : i < j => rows[i].ID < rows[j].ID
                          /\ \A i \in DOMAIN rows :
                               [MType |-> rows[i].MType, Val |-> rows[i].Val]
                                 \in since[c][rows[i].ID]
                          /\ x.sent.route = "page" =>
                               \A id \in ID : Absent \notin since[c][id] =>
                                 \E i \in DOMAIN rows : rows[i].ID = id
    BY DEF ReadsAreCurrent
  <2> DEFINE x == exchange[c]
             rows == Decoded(x.response).content
  <2>1. Rendering(data, since[c], x.sent.route, rows, << >>)
    BY <1>3, OfReader DEF ReaderOK
  <2> HIDE DEF rows
  <2>2. \A i, j \in DOMAIN rows : i < j => rows[i].ID < rows[j].ID
    BY <2>1 DEF Rendering, InOrder
  <2>3. \A i \in DOMAIN rows : RowOK(since[c], rows[i])
    BY <2>1 DEF Rendering
  <2>4. x.sent.route = "page" =>
          \A id \in ID : Absent \notin since[c][id] => \E i \in DOMAIN rows : rows[i].ID = id
    <3>1. DOMAIN << >> = {}
      OBVIOUS
    <3> QED
      BY <2>1, <3>1 DEF Rendering, Covers
  <2> QED
    BY <2>2, <2>3, <2>4 DEF RowOK, rows
<1>4. GatewayInv /\ ReaderInv => ReadsAreCurrent
  BY <1>3
<1> QED
  BY <1>1, <1>2, <1>4, PTL DEF Spec
=============================================================================
