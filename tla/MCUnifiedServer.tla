--------------------------- MODULE MCUnifiedServer ---------------------------
(* Two clients: one is known by its address, whether a proxy forwards it or   *)
(* the request comes from there; the other by its API key, in either header.  *)
(* Requests name two buckets to the API: one is the limiter's bucket of the   *)
(* first client.  A token is two parts; a bucket of the limiter holds three,  *)
(* so that one request and half of another go through, and a tick makes it    *)
(* two; one of the API holds more and refills faster.                         *)
EXTENDS UnifiedServer

CONSTANTS address, apiKey, key

Direct == [authorization |-> None, xApiKey |-> None, forwardedFor |-> None,
           realIP |-> None, remoteAddr |-> address]

Proxied == [Direct EXCEPT !.forwardedFor = address]

Bearer == [Direct EXCEPT !.authorization = apiKey]

WithKey == [Direct EXCEPT !.xApiKey = apiKey]

MCOrigins == {Direct, Proxied, Bearer, WithKey}

MCKeys == {key, <<"ip", address>>}

\* Every route but those that answer like another one: a read like the check of
\* a bucket, an update like a creation.
MCAsked ==
    [route : {"bulk"}, from : {Direct}, key : {key}]
    \cup [route : {"consume"}, from : {Bearer}, key : MCKeys, amount : Amounts]
    \cup [route : {"check"}, from : {WithKey}, key : {<<"ip", address>>}]
    \cup [route : {"reset"}, from : {Direct}, key : MCKeys]
    \cup [route : {"createUser"}, from : {Direct}, valid : {FALSE}]
    \cup [route : {"crashTest"}, from : {Proxied}, valid : {TRUE}]
    \cup [route : {"health", "other"}, from : {Proxied}]
=============================================================================
