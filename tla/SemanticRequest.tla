--------------------------- MODULE SemanticRequest ---------------------------
(***************************************************************************)
(* core/semantic-request.ts and core/hop-proof.ts: the closed              *)
(* representation of a request that the plane approves, that a hop proof   *)
(* binds, and that a verifier compares with the wire.  A header is a pair  *)
(* of a lower-case name and a value; a list of pairs that the code keeps   *)
(* sorted and unique is a set.  A value that cannot be represented is      *)
(* "uncanonical"; a length is its number, or NoLength when malformed.      *)
(***************************************************************************)
EXTENDS Integers, Sequences, FiniteSets, SequencesExt

NoLength == -1
Bound    == {"content-type", "host", "origin"}
FormType == "application/x-www-form-urlencoded"
REFUSED_HEADERS == {"content-encoding", "transfer-encoding", "expect", "upgrade", "te", "trailer",
                    "range", "if-range", "proxy-authorization", "authorization"}
\* Representatives of SPOOFABLE_HEADER_PATTERNS and of the cf- indicators.
Spoofable  == {"x-forwarded-for"}
Indicators == {"cf-ray"}

classifyHeader(name) ==
    CASE name \in Bound                            -> "bound"
      [] name = "content-length"                   -> "derived"
      [] name = "connection"                       -> "transport"
      [] name = "x-ba0-nonce"                      -> "measurement"
      [] name \in {"x-ba0-hop-pb", "x-ba0-hop-ba"} -> "proof"
      [] name \in REFUSED_HEADERS                  -> "refused"
      [] name \in Spoofable                        -> "spoofable"
      [] name \in Indicators                       -> "ingress_indicator"
      [] OTHER                                     -> "dropped"

canonicalValue(value) == value # "uncanonical"

\* The places of a header list that hold a name of the class.
Of(headers, class) == {i \in DOMAIN headers : classifyHeader(headers[i][1]) = class}
Values(headers, class) == {headers[i][2] : i \in Of(headers, class)}
Pairs(headers) == {headers[i] : i \in Of(headers, "bound")}
Named(pairs, name) == {p[2] : p \in {q \in pairs : q[1] = name}}

Duplicated(headers) ==
    \E i, j \in Of(headers, "bound") : i # j /\ headers[i][1] = headers[j][1]
OneConnection(headers) ==
    /\ Cardinality(Of(headers, "transport")) <= 1
    /\ Values(headers, "transport") \subseteq {"close", "keep-alive"}
OneLength(headers) ==
    Cardinality(Of(headers, "derived")) <= 1 /\ NoLength \notin Values(headers, "derived")

\* The method and its content: what both sides require of an approved request.
WellFormed(method, pairs, bodyLen) ==
    /\ Named(pairs, "host") # {}
    /\ method = "GET"  => bodyLen = 0 /\ Named(pairs, "content-type") = {}
    /\ method = "POST" => Named(pairs, "content-type") = {FormType}

\* buildApprovedRequest(): what the plane approves of a client's request.
Approvable(r) ==
    /\ r.method \in {"GET", "POST"}
    /\ ~Duplicated(r.headers)
    /\ \A p \in Pairs(r.headers) : canonicalValue(p[2])
    /\ \A c \in {"refused", "proof", "spoofable", "measurement"} : Of(r.headers, c) = {}
    /\ OneConnection(r.headers) /\ OneLength(r.headers)
    /\ WellFormed(r.method, Pairs(r.headers), IF r.method = "GET" THEN 0 ELSE r.body)
    /\ IF r.method = "POST" THEN Values(r.headers, "derived") = {r.body}
                            ELSE Values(r.headers, "derived") \subseteq {0}

buildApprovedRequest(r) ==
    [method |-> r.method, pairs |-> Pairs(r.headers),
     bodyLen |-> IF r.method = "POST" THEN r.body ELSE 0]

\* semanticWireHeaders(): the headers a hop emits, none of them from the client as it sent them.
semanticWireHeaders(s) ==
    SetToSeq(s.pairs)
      \o (IF s.method = "POST" THEN << <<"content-length", s.bodyLen>> >> ELSE <<>>)

\* scanHopHeaders(): the violation a verifier reports, by its precedence.
scanHopHeaders(headers, method) ==
    CASE Duplicated(headers) \/ Cardinality(Of(headers, "measurement")) > 1 -> "ob.header_duplicate"
      [] \E c \in {"refused", "spoofable", "ingress_indicator", "dropped"} : Of(headers, c) # {}
            -> "ob.header_unbound"
      [] \/ ~OneConnection(headers) \/ ~OneLength(headers)
         \/ method = "GET" /\ Of(headers, "derived") # {}
         \/ method = "POST" /\ Of(headers, "derived") = {} -> "ob.framing_invalid"
      [] \E v \in {p[2] : p \in Pairs(headers)} \union Values(headers, "measurement") : ~canonicalValue(v)
            -> "ob.header_value_invalid"
      [] OTHER -> "none"

-----------------------------------------------------------------------------
(* The envelope of a proof: the hop it is for, the request it binds and     *)
(* whether the signature still covers it.                                   *)

encodeEnvelope(role, s) == [role |-> role, request |-> s, signed |-> TRUE]

\* parseRequest() and decodeProof(): structure only, no key and no clock.
parseRequest(s) == s.method \in {"GET", "POST"} /\ WellFormed(s.method, s.pairs, s.bodyLen)
decodeProof(e, role) == e.role = role /\ parseRequest(e.request)
verifyProofSignature(e) == e.signed

\* The wire is what the claims say.
WireMatches(headers, s) ==
    /\ Pairs(headers) = s.pairs
    /\ s.method = "POST" => Values(headers, "derived") = {s.bodyLen}
=============================================================================
