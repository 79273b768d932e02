----------------------------- MODULE RequestTags -----------------------------
(***************************************************************************)
(* What plugins/util/web.ts and appsec/index.ts put on the span of a       *)
(* request: the client's address (ip_extractor.ts), the URL without its    *)
(* query's secrets and the recorded headers; and the tracing headers that  *)
(* the replaced res.writeHead adds to the answer of a preflight request.   *)
(*                                                                         *)
(* An address is a record [public, at], the header it is from and its      *)
(* place there; a chunk that is no address is "junk".                      *)
(***************************************************************************)
EXTENDS Integers, Sequences, FiniteSets, SequencesExt, FiniteSetsExt

CONSTANTS
    ipHeaderList,   \* the headers that may name the client, in their order
    IpConfigs,      \* [enabled, header, appsec]: header is one of those or ""
    HeaderValues,   \* the values each of the headers may have
    Queries,        \* query strings: sequences of "plain" and "secret" parts
    Obfuscators,    \* "off", "drop", "regex": queryStringObfuscation, normalized
    Preflights,     \* [origin, allowOrigin, allowed, asked, given] of a request and its answer
    TracingHeaders  \* contextHeaders, the headers of a datadog context

\* A header is listed once, and its value split into chunks.
ASSUME HeadersAssumption ==
    /\ ipHeaderList \in Seq(ToSet(ipHeaderList))
    /\ \A i, j \in DOMAIN ipHeaderList : ipHeaderList[i] = ipHeaderList[j] => i = j
    /\ IpConfigs \subseteq
          [enabled : BOOLEAN, header : ToSet(ipHeaderList) \cup {""}, appsec : BOOLEAN]
    /\ HeaderValues \subseteq Seq({"public", "private", "junk"})

VARIABLES
    ipConfig,     \* the configuration
    httpRequest,  \* [headers, query, obfuscator, preflight]
    peer,         \* socket.remoteAddress: an address, or {} once disconnected
    clientIp,     \* the tag http.client_ip: {}, {the value}
    urlTag,       \* the query of the tag http.url, {} before it is set
    appsecCalled, \* incomingHttpStartTranslator has run
    answer        \* [written, allow]: the access-control-allow-headers

tagsVars == <<ipConfig, httpRequest, peer, clientIp, urlTag, appsecCalled, answer>>

Missing == [public |-> FALSE, at |-> <<"", 0>>]
PeerAddress == [public |-> FALSE, at |-> <<"socket", 1>>]

-----------------------------------------------------------------------------
(* ip_extractor.ts.                                                        *)

\* The places of the addresses among the chunks of a header.
Addresses(chunks) == {k \in DOMAIN chunks : chunks[k] # "junk"}

AddressAt(header, chunks, k) == [public |-> chunks[k] = "public", at |-> <<header, k>>]

\* findFirstIp: [public, private], each an address or Missing: the loop ends at
\* the first public address and keeps the first private one before it.
findFirstIp(header, chunks) ==
    LET public == {k \in Addresses(chunks) : chunks[k] = "public"}
        private == {k \in Addresses(chunks) \ public : \A p \in public : k < p}
        First(places) == IF places = {} THEN Missing ELSE AddressAt(header, chunks, Min(places))
    IN  [public |-> First(public), private |-> First(private)]

\* A variant of extractIp: the first header with an address decides.
extractIpOfFirst(config, headers, socket) ==
    LET found == {i \in DOMAIN ipHeaderList : Addresses(headers[ipHeaderList[i]]) # {}}
        header == ipHeaderList[Min(found)]
        ip == findFirstIp(header, headers[header])
    IN  IF found = {} THEN socket
        ELSE IF ip.public # Missing THEN {ip.public} ELSE {ip.private}

\* One turn of extractIp's loop over the headers; after a public address, which
\* it returns, there is none.
Look(best, ip) ==
    IF best.public THEN best
    ELSE IF ip.public # Missing THEN ip.public
    ELSE IF best = Missing THEN ip.private ELSE best

\* extractIp: the value, or {} for undefined.
extractIp(config, headers, socket) ==
    LET IpOf(header) == findFirstIp(header, headers[header])
        best[i \in 0 .. Len(ipHeaderList)] ==
            IF i = 0 THEN Missing ELSE Look(best[i - 1], IpOf(ipHeaderList[i]))
        found == best[Len(ipHeaderList)]
    IN  IF config.header # ""
        THEN {IF IpOf(config.header).public # Missing
              THEN IpOf(config.header).public ELSE IpOf(config.header).private} \ {Missing}
        ELSE IF found # Missing THEN {found} ELSE socket

-----------------------------------------------------------------------------
(* web.ts.                                                                 *)

\* obfuscateQs: the query is kept, dropped, or its matches are replaced.
obfuscateQs(obfuscator, query) ==
    CASE obfuscator = "off" -> query
      [] obfuscator = "drop" -> <<>>
      [] OTHER -> [k \in DOMAIN query |-> IF query[k] = "secret" THEN "<redacted>" ELSE query[k]]

\* addRequestTags: the address unless the tag is there, be it undefined.
AddRequestTags ==
    /\ urlTag' = {obfuscateQs(httpRequest.obfuscator, httpRequest.query)}
    /\ clientIp' = IF ipConfig.enabled /\ clientIp = {} /\ ~appsecCalled
                   THEN extractIp(ipConfig, httpRequest.headers, peer) ELSE clientIp

\* startSpan.
StartSpan ==
    /\ urlTag = {}
    /\ AddRequestTags
    /\ UNCHANGED <<ipConfig, httpRequest, peer, appsecCalled, answer>>

\* incomingHttpStartTranslator, which sets the tag whatever it finds.
AppsecStart ==
    /\ ipConfig.appsec
    /\ urlTag # {}
    /\ ~appsecCalled
    /\ clientIp' = extractIp(ipConfig, httpRequest.headers, peer)
    /\ appsecCalled' = TRUE
    /\ UNCHANGED <<ipConfig, httpRequest, peer, urlTag, answer>>

\* The client goes away.
Disconnect ==
    /\ urlTag # {}
    /\ peer # {}
    /\ peer' = {}
    /\ UNCHANGED <<ipConfig, httpRequest, clientIp, urlTag, appsecCalled, answer>>

\* isOriginAllowed: the answer names the request's origin or any.
isOriginAllowed(preflight) ==
    preflight.origin # "" /\ preflight.allowOrigin \in {"*", preflight.origin}

\* addAllowHeaders: the application's headers and the tracing headers asked for.
addAllowHeaders(preflight) == preflight.allowed \cup (preflight.asked \cap TracingHeaders)

\* wrapWriteHead of an OPTIONS request, and the writeHead it calls with the
\* arguments it was given: an access-control-allow-headers among these
\* (preflight.given) replaces the one it has set.
WriteHead ==
    /\ urlTag # {}
    /\ ~answer.written
    /\ LET preflight == httpRequest.preflight
       IN  answer' = [written |-> TRUE,
                      allow |-> IF isOriginAllowed(preflight) /\ ~preflight.given
                                THEN addAllowHeaders(preflight) ELSE preflight.allowed]
    /\ UNCHANGED <<ipConfig, httpRequest, peer, clientIp, urlTag, appsecCalled>>

\* finishSpan sets the tags of the request again, before the response's own end
\* writes a head that was not written yet.
FinishSpan ==
    /\ urlTag # {}
    /\ AddRequestTags
    /\ UNCHANGED <<ipConfig, httpRequest, peer, appsecCalled, answer>>

TagsInit ==
    /\ ipConfig \in IpConfigs
    /\ httpRequest \in [headers : [ToSet(ipHeaderList) -> HeaderValues], query : Queries,
                        obfuscator : Obfuscators, preflight : Preflights]
    /\ peer = {PeerAddress}
    /\ clientIp = {} /\ urlTag = {}
    /\ appsecCalled = FALSE
    /\ answer = [written |-> FALSE, allow |-> {}]

TagsNext == StartSpan \/ AppsecStart \/ Disconnect \/ WriteHead \/ FinishSpan

TagsSpec == TagsInit /\ [][TagsNext]_tagsVars

-----------------------------------------------------------------------------
(* Properties.                                                             *)

\* Among the headers looked at: an address no other of its kind precedes.
IsFirst(address, looked) ==
    /\ address.at[1] \in looked
    /\ \A h \in looked : \A k \in DOMAIN httpRequest.headers[h] :
          LET kind == httpRequest.headers[h][k]
              Before(g) == CHOOSE i \in DOMAIN ipHeaderList : ipHeaderList[i] = g
              earlier == \/ Before(h) < Before(address.at[1])
                         \/ h = address.at[1] /\ k < address.at[2]
          IN  /\ earlier => kind # (IF address.public THEN "public" ELSE "private")
              /\ kind = "public" => address.public

\* The client's address is the first public one of the headers that count,
\* else the first private one, else, unless a header was configured, the
\* peer's, however often and by whomever it is looked up and though the client
\* has gone meanwhile (extractIp, addRequestTags, incomingHttpStartTranslator).
ClientIpIsFirst ==
    LET looked == IF ipConfig.header # "" THEN {ipConfig.header} ELSE ToSet(ipHeaderList)
        any == \E h \in looked : Addresses(httpRequest.headers[h]) # {}
    IN  \A address \in clientIp :
            IF any THEN IsFirst(address, looked) ELSE address = PeerAddress /\ ipConfig.header = ""

\* A preflight answer that allows the origin allows the tracing headers it was
\* asked for, besides what the application allows, unless the application
\* passes headers to writeHead itself (wrapWriteHead, addAllowHeaders).
PreflightAllowsTracing ==
    LET preflight == httpRequest.preflight
    IN  answer.written =>
            /\ preflight.allowed \subseteq answer.allow
            /\ isOriginAllowed(preflight) /\ ~preflight.given
                   => preflight.asked \cap TracingHeaders \subseteq answer.allow

\* The tags of a request and its preflight's answer are the right ones.
RequestTagsKept == ClientIpIsFirst /\ PreflightAllowsTracing
=============================================================================
