----------------------------- MODULE MCGateway -----------------------------
(* Clients, keys and requests for the gateway.                             *)
EXTENDS Gateway

Inc(id)    == [ID |-> id, MType |-> Counter, Val |-> 1]
Dec(id)    == [ID |-> id, MType |-> Counter, Val |-> -1]
Set1(id)   == [ID |-> id, MType |-> Gauge, Val |-> 1]
SetNaN(id) == [ID |-> id, MType |-> Gauge, Val |-> NaN]
NoVal(id)  == [ID |-> id, MType |-> Counter, Val |-> Nil]

MCID      == {1, 2}
MCSingles == {Inc(1), SetNaN(2)}
MCBatches == {<<Dec(1), Set1(2)>>}

(* Keys on both sides or on one, the same or others, signing alone and     *)
(* with encryption.                                                        *)
Configured(s, p, s2, p2) ==
  [agent |-> [secret |-> s, public |-> p], server |-> [secret |-> s2, private |-> p2]]

MCKeys ==
  {Configured(NoKey, NoKey, NoKey, NoKey), Configured("k1", NoKey, NoKey, NoKey),
   Configured("k1", NoKey, "k1", NoKey),   Configured("k1", "p1", "k1", "p1"),
   Configured("k2", "p2", "k1", "p1"),     Configured(NoKey, "p1", "k1", NoKey)}

(* Unsigned and uncompressed requests, a wrong type, a missing value, a    *)
(* signature that is not base64, a body that is not what its header says.  *)
Plain(route, form, metrics) ==
  [NoRequest EXCEPT !.route = route, !.body = Body(form, metrics)]

MCPosts ==
  {Plain("update", "object", <<Set1(1)>>),
   Plain("update", "null", << >>),
   Plain("updates", "array", <<NoVal(1), Inc(2)>>),
   Plain("updates", "array_of_null", << >>),
   [Plain("update", "object", <<Inc(1)>>) EXCEPT !.encoding = "gzip"],
   [Plain("update", "object", <<Inc(1)>>) EXCEPT
      !.signature = {[key |-> "undecodable", of |-> NoBody]}]}

Question(route, id, mtype, accepts) ==
  [route |-> route, id |-> id, mtype |-> mtype, accepts |-> accepts]

MCQuestions ==
  {Question("page", 0, Other, TRUE), Question("page", 0, Other, FALSE),
   Question("ping", 0, Other, FALSE), Question("value", 0, Counter, FALSE),
   Question("value", 2, Gauge, TRUE), Question("plain_value", 1, Counter, TRUE)}
=============================================================================
