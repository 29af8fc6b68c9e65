---------------------------- MODULE HttpMessage -----------------------------
(***************************************************************************)
(* HTTP messages (src/src/http): a request made from a URL, changed       *)
(* and written to the connection, and a response that is read from it.     *)
(* Text is a sequence of tokens: a word, a number, or one of the           *)
(* separators the code looks for.  A message keeps its header fields twice, *)
(* in the order they are sent (m_headers) and by name                      *)
(* (m_header_fields_map); a response looks names up without regard to case. *)
(***************************************************************************)
EXTENDS Integers, Sequences, FiniteSetsExt, SequencesExt

CONSTANTS
    Urls,              \* [protocol, host, port, path], a part that is left out is <<>>
    Vals,              \* values an application gives a header field of its own
    Ports,             \* ports for set_host_port and set_proxy
    Offsets,           \* arguments of set_range
    Responses,         \* [status, fields] the server sends
    MaxChanges           \* bound on the calls on one request

VARIABLES
    url,               \* the URL the request is made from
    request, response,
    proxy,             \* m_proxy_host, m_proxy_port
    destination,       \* the host and port the URL or the last set_host_port named
    range,             \* the last range that was asked for with a first byte
    changes

msgVars == <<url, request, response, proxy, destination, range, changes>>

npos == 0

find(s, c, from) == Min({i \in from .. Len(s) : s[i] = c} \cup {Len(s) + 1}) % (Len(s) + 1)
find_not(s, c, from) == Min({i \in from .. Len(s) : s[i] # c} \cup {Len(s) + 1}) % (Len(s) + 1)
to_end(s, from) == SubSeq(s, from, Len(s))

\* boost::algorithm::trim
trim(s) ==
    LET I == {i \in DOMAIN s : s[i] # " "}
    IN IF I = {} THEN <<>> ELSE SubSeq(s, Min(I), Max(I))

Numerals == ("0" :> 0) @@ ("2" :> 2) @@ ("80" :> 80) @@ ("200" :> 200) @@ ("443" :> 443)
            @@ ("8080" :> 8080)

\* boost::lexical_cast, -1 for bad_lexical_cast, and operator<< of a number.
lexical_cast(s) == IF Len(s) = 1 /\ s[1] \in DOMAIN Numerals THEN Numerals[s[1]] ELSE -1
numeral(n) == <<CHOOSE t \in DOMAIN Numerals : Numerals[t] = n>>

-----------------------------------------------------------------------------
(* URLs.                                                                   *)

scheme_end(s) ==
    LET I == {i \in 1 .. Len(s) - 2 : SubSeq(s, i, i + 2) = <<":", "/", "/">>}
    IN IF I = {} THEN npos ELSE Min(I)

ParseUrl(s) ==
    LET pos == scheme_end(s)
        protocol == IF pos = npos THEN <<"http">> ELSE SubSeq(s, 1, pos - 1)
        beg == IF pos = npos THEN 1 ELSE pos + 3
        slash == find(s, "/", beg)
        last == IF slash = npos THEN Len(s) ELSE slash - 1
        colon == find(SubSeq(s, 1, last), ":", beg)
    IN [protocol |-> protocol,
        host |-> SubSeq(s, beg, IF colon # npos THEN colon - 1 ELSE last),
        port |-> IF colon # npos THEN SubSeq(s, colon + 1, last)
                 ELSE IF protocol = <<"https">> THEN <<"443">> ELSE <<"80">>,
        path |-> IF slash = npos THEN <<"/">> ELSE to_end(s, slash)]

-----------------------------------------------------------------------------
(* Header fields.                                                          *)

first(headers, name) == Min({i \in DOMAIN headers : headers[i].name = name})

get_header(r, name) == IF name \in DOMAIN r.map THEN r.map[name] ELSE <<>>

\* Faulty variant: a field that is there is changed in the map only.
set_header_unlisted(r, name, val) ==
    IF name \in DOMAIN r.map
    THEN [r EXCEPT !.map[name] = val]
    ELSE [r EXCEPT !.map = (name :> val) @@ @,
                   !.headers = Append(@, [name |-> name, val |-> val])]

set_header(r, name, val) ==
    IF name \in DOMAIN r.map
    THEN [r EXCEPT !.map[name] = val, !.headers[first(r.headers, name)].val = val]
    ELSE [r EXCEPT !.map = (name :> val) @@ @,
                   !.headers = Append(@, [name |-> name, val |-> val])]

remove_header(r, name) ==
    IF name \notin DOMAIN r.map THEN r
    ELSE [r EXCEPT !.map = [n \in DOMAIN @ \ {name} |-> @[n]],
                   !.headers = RemoveAt(@, first(@, name))]

HeaderAppender(h) == h.name \o <<":", " ">> \o h.val

\* One line of parse_body: no field, or one.
field(line) ==
    LET l == trim(line)
        colon == find(l, ":", 1)
    IN IF colon = npos THEN <<>>
       ELSE <<[name |-> trim(SubSeq(l, 1, colon - 1)), val |-> trim(to_end(l, colon + 1))]>>

fields(lines) == FlattenSeq([i \in 1 .. Len(lines) - 1 |-> field(lines[i + 1])])

\* m_header_fields_map after the fields were assigned in their order.
last_of(headers) ==
    [n \in {headers[i].name : i \in DOMAIN headers} |->
        headers[Max({i \in DOMAIN headers : headers[i].name = n})].val]

-----------------------------------------------------------------------------
(* HttpRequest.                                                            *)

NoRequest == [valid |-> FALSE, https |-> FALSE, path |-> <<>>, headers |-> <<>>, map |-> << >>]

set_host(r, host) == IF host = <<>> THEN r ELSE set_header(r, <<"Host">>, host)

set_range(r, b, e) ==
    CASE b > -1 /\ e > -1 /\ b <= e ->
            set_header(r, <<"Range">>, <<"bytes=">> \o numeral(b) \o <<"-">> \o numeral(e))
      [] b > -1 /\ e <= -1 ->
            set_header(r, <<"Range">>, <<"bytes=">> \o numeral(b) \o <<"-">>)
      [] b <= -1 /\ e > 0 -> set_header(r, <<"Range">>, <<"bytes=", "-">> \o numeral(e))
      [] OTHER -> r

\* The fields that are always the same stand as one, Accept.
create_from_url(s, b, e) ==
    LET u == ParseUrl(s)
        plain == [NoRequest EXCEPT !.path = u.path, !.valid = TRUE,
                                   !.https = u.protocol = <<"https">>]
        host == IF u.port = <<>> THEN u.host ELSE u.host \o <<":">> \o u.port
    IN IF u.protocol = <<>> \/ u.host = <<>> \/ u.path = <<>> THEN NoRequest
       ELSE set_range(
                set_header(
                    set_host(set_header(plain, <<"Accept">>, <<"any">>), host),
                    <<"Connection">>, <<"Keep-Alive">>),
                b, e)

\* set_host_port and set_host_port_str
set_host_port(r, host, port) ==
    set_header(r, <<"Host">>, IF port = 80 THEN host ELSE host \o <<":">> \o numeral(port))

\* Port 80 when the text is no number.
get_host_port(r) ==
    LET h == get_header(r, <<"Host">>)
        colon == find(h, ":", 1)
        port == IF colon = npos THEN 80 ELSE lexical_cast(to_end(h, colon + 1))
    IN [host |-> IF colon = npos THEN h ELSE SubSeq(h, 1, colon - 1),
        port |-> IF port = -1 THEN 80 ELSE port]

\* The part of set_proxy that changes the message.
set_proxy(r) ==
    LET absolute == <<"http", ":", "/", "/">>
        p == IF IsPrefix(absolute, r.path) THEN r.path
             ELSE absolute \o get_header(r, <<"Host">>) \o r.path
    IN set_header(remove_header([r EXCEPT !.path = p], <<"Connection">>),
                  <<"Proxy-Connection">>, <<"Keep-Alive">>)

get_conn_host_port == IF proxy.host = <<>> THEN get_host_port(request) ELSE proxy

serialize_to_string(r) ==
    <<<<"GET", " ">> \o r.path \o <<" ", "HTTP/1.1">>>>
    \o [i \in DOMAIN r.headers |-> HeaderAppender(r.headers[i])]

\* parse_body of a request: the first line is cut at its blanks.
parse_request(lines) ==
    LET s == lines[1]
        one == find(s, " ", 1)
        two == find(s, " ", one + 1)
        h == fields(lines)
    IN IF one = npos \/ two = npos \/ find(s, " ", two + 1) # npos THEN NoRequest
       ELSE [valid |-> TRUE, https |-> FALSE, path |-> SubSeq(s, one + 1, two - 1),
             headers |-> h, map |-> last_of(h)]

get_range(r) ==
    LET v == get_header(r, <<"Range">>)
        bar == find(v, "-", 1)
        b == lexical_cast(SubSeq(v, 2, bar - 1))
    IN IF v = <<>> \/ b = -1 THEN <<>>
       ELSE IF bar = Len(v) THEN <<b>> ELSE <<b, lexical_cast(to_end(v, bar + 1))>>

-----------------------------------------------------------------------------
(* HttpResponse.                                                           *)

\* lower_comp: the names the model has in two cases.
lower(name) == IF name = <<"Content-Length">> THEN <<"content-length">> ELSE name

NoResponse == [valid |-> FALSE, status |-> -1, headers |-> <<>>, map |-> << >>]

\* The status line.  When nothing but blanks follows the version the status
\* keeps the value of uninitialised memory, here -2, and the response is valid.
status_of(s) ==
    LET sp == find(s, " ", 1)
        beg == find_not(s, " ", sp)
        end == find(s, " ", beg)
        reason == find_not(s, " ", end)
    IN CASE s[1] # "HTTP/1.1" \/ sp = npos -> -1
         [] beg = npos -> -2
         [] OTHER -> IF end = npos \/ reason = npos THEN -1
                     ELSE lexical_cast(SubSeq(s, beg, end - 1))

parse_response(lines) ==
    LET h == fields(lines)
        status == status_of(lines[1])
    IN IF status = -1 THEN NoResponse
       ELSE [valid |-> TRUE, status |-> status, headers |-> h, 
                 map |-> last_of([i \in DOMAIN h |-> [h[i] EXCEPT !.name = lower(@)]])]

header_of(r, name) == get_header(r, lower(name))

\* -1 also stands for a text that is no number.
get_content_len(r) == lexical_cast(header_of(r, <<"Content-Length">>))

\* get_range of a response, <<-1, -1>> without one.
get_content_range(r) ==
    LET v == header_of(r, <<"Content-Range">>)
        beg == find(v, " ", 1)
        bar == find(v, "-", 1)
        slash == find(v, "/", 1)
        b == lexical_cast(SubSeq(v, beg + 1, bar - 1))
        e == lexical_cast(SubSeq(v, bar + 1, slash - 1))
    IN IF v = <<>> \/ npos \in {beg, bar, slash} \/ -1 \in {b, e} THEN <<-1, -1>> ELSE <<b, e>>

-----------------------------------------------------------------------------
(* The application and the server.                                         *)

spelled(u) ==
    (IF u.protocol = <<>> THEN <<>> ELSE u.protocol \o <<":", "/", "/">>)
    \o u.host \o (IF u.port = <<>> THEN <<>> ELSE <<":">> \o u.port) \o u.path

\* What a URL means, by its parts.
meant(u) ==
    [host |-> u.host,
     port |-> IF u.port # <<>> THEN lexical_cast(u.port)
              ELSE IF u.protocol = <<"https">> THEN 443 ELSE 80]

\* A suffix range is set but cannot be read back, a range with its ends the
\* wrong way round leaves the one before.
asked(b, e) ==
    CASE b > -1 /\ e > -1 -> IF b <= e THEN <<b, e>> ELSE range
      [] b > -1 /\ e <= -1 -> <<b>>
      [] OTHER -> IF e > 0 THEN <<>> ELSE range

Create(b, e) ==
    /\ request = NoRequest
    /\ request' = create_from_url(spelled(url), b, e)
    /\ destination' = meant(url) /\ range' = asked(b, e)
    /\ UNCHANGED <<url, response, proxy, changes>>

change(r) == request # NoRequest /\ changes < MaxChanges /\ request' = r /\ changes' = changes + 1

SetHeader(val) ==
    /\ change(set_header(request, <<"X">>, val)) /\ UNCHANGED <<url, response, proxy, destination, range>>

RemoveHeader ==
    /\ change(remove_header(request, <<"X">>)) /\ UNCHANGED <<url, response, proxy, destination, range>>

SetRange(b, e) ==
    /\ change(set_range(request, b, e)) /\ range' = asked(b, e)
    /\ UNCHANGED <<url, response, proxy, destination>>

SetHostPort(port) ==
    /\ change(set_host_port(request, <<"h2">>, port))
    /\ destination' = [host |-> <<"h2">>, port |-> port]
    /\ UNCHANGED <<url, response, proxy, range>>

SetProxy(port) ==
    /\ change(set_proxy(request))
    /\ proxy' = [host |-> <<"p">>, port |-> port]
    /\ UNCHANGED <<url, response, destination, range>>

\* clone forgets the proxy and https.
Clone ==
    /\ change([request EXCEPT !.https = FALSE]) /\ proxy' = [host |-> <<>>, port |-> 0]
    /\ UNCHANGED <<url, response, destination, range>>

\* The server's answer, kept beside what was read of it.
Receive(sent) ==
    /\ request # NoRequest /\ response.sent = <<>>
    /\ response' = [sent |-> <<sent>>,
                    read |-> parse_response(<<sent.status>> \o [i \in DOMAIN sent.fields |->
                                                HeaderAppender(sent.fields[i])])]
    /\ UNCHANGED <<url, request, proxy, destination, range, changes>>

MsgInit ==
    /\ url \in Urls /\ request = NoRequest
    /\ response = [sent |-> <<>>, read |-> NoResponse]
    /\ proxy = [host |-> <<>>, port |-> 0] /\ destination = meant(url)
    /\ range = <<>> /\ changes = 0

MsgNext ==
    \/ \E b, e \in Offsets : Create(b, e) \/ SetRange(b, e)
    \/ \E val \in Vals : SetHeader(val)
    \/ \E port \in Ports : SetHostPort(port) \/ SetProxy(port)
    \/ RemoveHeader \/ Clone
    \/ \E sent \in Responses : Receive(sent)

-----------------------------------------------------------------------------
(* Properties.                                                             *)

\* However the request was changed, whoever parses what is sent finds in each
\* field what get_header answers here, and no field more, and in Range the last
\* range that was asked for.
SentAsSet ==
    request.valid =>
        LET peer == parse_request(serialize_to_string(request))
        IN /\ peer.valid /\ peer.path = request.path /\ peer.map = request.map
           /\ get_range(peer) = range

\* The connection is made to the proxy or else to the host and port the URL or
\* the last set_host_port named, and the path never holds two schemes.
ConnectsWhereAsked ==
    request.valid =>
        /\ get_conn_host_port = IF proxy.host # <<>> THEN proxy ELSE destination
        /\ scheme_end(request.path) # npos => scheme_end(to_end(request.path, 6)) = npos

\* A response that has a status line is read as it was sent: its status, its
\* length and range, and for each name, in any case, the last value.
ResponseRead ==
    \A i \in DOMAIN response.sent :
        LET sent == response.sent[i]
            vals(names) == SelectSeq(sent.fields, LAMBDA f : f.name \in names)
            length == vals({<<"Content-Length">>, <<"content-length">>})
        IN sent.status = <<"HTTP/1.1", " ", "200", " ", "OK">> =>
            /\ response.read.valid /\ response.read.status = 200
            /\ get_content_len(response.read) =
                IF length = <<>> THEN -1 ELSE lexical_cast(Last(length).val)
            /\ \A f \in Range(sent.fields) :
                f.name = <<"Location">> => header_of(response.read, f.name) = f.val
            /\ \A f \in Range(sent.fields) :
                f.name = <<"Content-Range">> => get_content_range(response.read) = <<0, 2>>

\* What is written is read back, and goes where it was asked to go.
MessageInv == SentAsSet /\ ConnectsWhereAsked /\ ResponseRead
=============================================================================
