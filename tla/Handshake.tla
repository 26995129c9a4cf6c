----------------------------- MODULE Handshake ------------------------------
(***************************************************************************)
(* The HTTP upgrade (src/src/handshake.cpp and the negotiation in          *)
(* src/src/extensions/permessage_deflate.cpp).  A header line is a name    *)
(* and the set of the words found in its value, the ones inside a longer   *)
(* word included: find(word) is membership, a comparison with the whole    *)
(* value is equality.  Names and the compared values are in lower case, as *)
(* to_lower leaves them.  A line without a colon has the name "".  A       *)
(* status line is the set of the numbers of three digits found in it.      *)
(***************************************************************************)
EXTENDS Naturals, Sequences

Line(name, words) == [name |-> name, words |-> words]

(* The later of two lines with the same name is the one kept.              *)
parse_http_headers(lines) ==
    [n \in {lines[i].name : i \in DOMAIN lines} \ {""} |->
        LET last == CHOOSE i \in DOMAIN lines :
                        /\ lines[i].name = n
                        /\ \A j \in (i + 1)..Len(lines) : lines[j].name # n
        IN lines[last].words]

permessage_deflate_offer ==
    {"permessage-deflate", "client_no_context_takeover", "server_no_context_takeover"}

header_offers_permessage_deflate(headers) ==
    /\ "sec-websocket-extensions" \in DOMAIN headers
    /\ "permessage-deflate" \in headers["sec-websocket-extensions"]

(* Sixteen random bytes in base64: one value stands for all.               *)
generate_key == "key"

Extensions(words) ==
    IF words = {} THEN <<>> ELSE <<Line("sec-websocket-extensions", words)>>

build_client_request(key, extensions) ==
    <<Line("host", {"host"}), Line("upgrade", {"websocket"}),
      Line("connection", {"upgrade"}), Line("sec-websocket-key", {key}),
      Line("sec-websocket-version", {"13"})>> \o Extensions(extensions)

validate_client_request(headers) ==
    /\ {"upgrade", "connection", "sec-websocket-version", "sec-websocket-key"}
          \subseteq DOMAIN headers
    /\ headers["upgrade"] = {"websocket"}
    /\ "upgrade" \in headers["connection"]
    /\ headers["sec-websocket-version"] = {"13"}

(* SHA-1 and base64 are external; the answer is determined by the key.     *)
compute_accept(key) == <<"accept", key>>

build_server_response(accept, extensions) ==
    [status |-> {"101"},
     lines |-> <<Line("upgrade", {"websocket"}), Line("connection", {"upgrade"}),
                 Line("sec-websocket-accept", {accept})>> \o Extensions(extensions)]
=============================================================================
