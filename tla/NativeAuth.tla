----------------------------- MODULE NativeAuth ------------------------------
(***************************************************************************)
(* authentication/native: the client that creates and keeps an access      *)
(* token, the encoding of tokens, and the server that validates them with  *)
(* a cache of block timestamps shared by its requests.                     *)
(*                                                                         *)
(* Time is counted in nanoseconds, of which a second has Second.  A hyper  *)
(* block is its number, which also stands for its hash.  A character of a  *)
(* token is a pair of its kind and what it stands for: plain text, a       *)
(* number, a hash, or bytes in base64 or in hexadecimal digits.            *)
(***************************************************************************)
EXTENDS SeparatedText, FiniteSets

CONSTANTS
    Second,
    TokenExpiryInSeconds,
    Requests,           \* concurrent calls of Validate
    MaxTime,            \* bound: the last moment
    MaxBlocks,          \* bound: hyper blocks
    MaxFaults           \* bound: failing requests and signatures

ASSUME TimeUnits == Second \in Nat \ {0} /\ TokenExpiryInSeconds \in Nat \ {0}

VARIABLES
    now, timestamps, faults,            \* the outside; timestamps[b]: of block b, in seconds
    token, tokenExpire,                 \* fields of authClient
    clientPc, nonce,                    \* of GetAccessToken; the latest hyper block's nonce
    createdAt,                          \* history: when the client's token was created
    cacher,                             \* block timestamps the server knows
    request                             \* the calls of Validate

outsideVars == <<now, timestamps, faults>>
clientVars == <<token, tokenExpire, clientPc, nonce, createdAt>>
serverVars == <<cacher, request>>
authVars == <<outsideVars, clientVars, serverVars>>

-----------------------------------------------------------------------------
(* tokenHandler.go                                                         *)

Text(x) == <<"text", x>>
Dot == Text(".")

encodeHandler(bytes) == IF bytes = <<>> THEN <<>> ELSE << <<"base64", bytes>> >>
decodeHandler(text) == IF text = <<>> THEN <<>> ELSE text[1][2]

GetUnsignedToken(t) ==
    Join(<<encodeHandler(t.host), << <<"hash", t.blockHash>> >>, << <<"number", t.ttl>> >>, encodeHandler(t.extraInfo)>>, Dot)

GetSignableMessage(address, unsigned) == address \o unsigned
GetSignableMessageLegacy(address, unsigned) == address \o unsigned \o <<Text("{}")>>

Encode(t) ==
    Join(<<encodeHandler(t.address), encodeHandler(GetUnsignedToken(t)), << <<"hex", t.signature>> >> >>, Dot)

Decode(accessToken) ==
    LET strs == Split(accessToken, Dot)
        body == Split(decodeHandler(strs[2]), Dot)
    IN  [address |-> decodeHandler(strs[1]), signature |-> strs[3][1][2],
         host |-> decodeHandler(body[1]), blockHash |-> body[2][1][2],
         ttl |-> body[3][1][2], extraInfo |-> decodeHandler(body[4])]

-----------------------------------------------------------------------------
(* client.go                                                               *)

Sign(message) == [key |-> "alice", message |-> message]
Alice == <<Text("alice")>>

Body(b) == [ttl |-> TokenExpiryInSeconds, host |-> <<>>, extraInfo |-> <<Text("{}")>>,
            blockHash |-> b, address |-> Alice]
Signed(t, message) == Encode([signature |-> Sign(message)] @@ t)

SignedToken(b) ==
    Signed(Body(b), GetSignableMessage(Alice, GetUnsignedToken(Body(b))))

\* tokens of programs other than this client: one signed in the old way, and
\* one whose signature is that of another body
LegacyToken(b) ==
    Signed(Body(b), GetSignableMessageLegacy(Alice, GetUnsignedToken(Body(b))))
MismatchedToken(b) ==
    Signed(Body(b), GetSignableMessage(Alice, GetUnsignedToken([Body(b) EXCEPT !.ttl = @ + 1])))

NoToken == <<>>
NoTime == -1            \* the zero time

Fail ==
    /\ faults < MaxFaults
    /\ faults' = faults + 1
    /\ UNCHANGED <<now, timestamps>>

GetAccessToken ==
    /\ clientPc = "idle"
    /\ \/ /\ tokenExpire = NoTime \/ now > tokenExpire
          /\ clientPc' = "GetLatestHyperBlockNonce"
       \/ /\ tokenExpire # NoTime /\ now <= tokenExpire
          /\ clientPc' = "return"
    /\ UNCHANGED <<outsideVars, token, tokenExpire, nonce, createdAt, serverVars>>

GetLatestHyperBlockNonce ==
    /\ clientPc = "GetLatestHyperBlockNonce"
    /\ nonce' = Len(timestamps)
    /\ clientPc' = "GetHyperBlockByNonce"
    /\ UNCHANGED <<outsideVars, token, tokenExpire, createdAt, serverVars>>

\* mutant: the client reuses its token for as long as the name of the field says
createNewTokenInSeconds ==
    /\ clientPc = "GetHyperBlockByNonce"
    /\ token' = SignedToken(nonce)
    /\ tokenExpire' = now + TokenExpiryInSeconds * Second
    /\ createdAt' = now
    /\ clientPc' = "return"
    /\ nonce' = 0
    /\ UNCHANGED <<outsideVars, serverVars>>

\* time.Duration(tokenExpiryInSeconds) is a number of nanoseconds
createNewToken ==
    /\ clientPc = "GetHyperBlockByNonce"
    /\ token' = SignedToken(nonce)
    /\ tokenExpire' = now + TokenExpiryInSeconds
    /\ createdAt' = now
    /\ clientPc' = "return"
    /\ nonce' = 0
    /\ UNCHANGED <<outsideVars, serverVars>>

\* a failing request or signature leaves the fields, a failing Encode has
\* already overwritten the token
createNewTokenFails ==
    /\ clientPc \in {"GetLatestHyperBlockNonce", "GetHyperBlockByNonce"}
    /\ Fail
    /\ clientPc' = "idle"
    /\ nonce' = 0
    /\ \/ UNCHANGED token
       \/ clientPc = "GetHyperBlockByNonce" /\ token' = NoToken
    /\ UNCHANGED <<tokenExpire, createdAt, serverVars>>

\* the caller has the token
Return ==
    /\ clientPc = "return"
    /\ clientPc' = "idle"
    /\ UNCHANGED <<outsideVars, token, tokenExpire, nonce, createdAt, serverVars>>

-----------------------------------------------------------------------------
(* server.go                                                               *)

SetRequest(r, job) == request' = [request EXCEPT ![r] = job @@ @]
Finish(r, verdict) == request' = [request EXCEPT ![r] = [pc |-> verdict]]
Verdicts == {"ErrInvalidValue", "http error", "ErrTokenExpired", "invalid signature", "accepted"}

\* a program decodes the token it was given and has it validated
Validate(r, accessToken) ==
    /\ request[r].pc \in {"idle"} \cup Verdicts
    /\ SetRequest(r, [pc |-> "getBlockTimestamp", token |-> Decode(accessToken)])
    /\ UNCHANGED <<outsideVars, clientVars, cacher>>

Unknown == -1           \* no entry in the cache
NotInt64 == -2          \* an entry that is no timestamp

getBlockTimestamp(r) ==
    /\ request[r].pc = "getBlockTimestamp"
    /\ LET cached == cacher[request[r].token.blockHash]
       IN  \/ cached = NotInt64 /\ Finish(r, "ErrInvalidValue")
           \/ cached = Unknown /\ SetRequest(r, [pc |-> "getBlockByHash"])
           \/ /\ cached \notin {NotInt64, Unknown}
              /\ SetRequest(r, [pc |-> "validateExpiration", timestamp |-> cached])
    /\ UNCHANGED <<outsideVars, clientVars, cacher>>

\* mutant: the cache gets the time of the answer
getBlockByHashCachesNow(r) ==
    LET b == request[r].token.blockHash
    IN  /\ request[r].pc = "getBlockByHash"
        /\ SetRequest(r, [pc |-> "validateExpiration", timestamp |-> timestamps[b]])
        /\ cacher' = [cacher EXCEPT ![b] = now \div Second]
        /\ UNCHANGED <<outsideVars, clientVars>>

getBlockByHash(r) ==
    LET b == request[r].token.blockHash
    IN  /\ request[r].pc = "getBlockByHash"
        /\ SetRequest(r, [pc |-> "validateExpiration", timestamp |-> timestamps[b]])
        /\ cacher' = [cacher EXCEPT ![b] = timestamps[b]]
        /\ UNCHANGED <<outsideVars, clientVars>>

getBlockByHashFails(r) ==
    /\ request[r].pc = "getBlockByHash"
    /\ Fail
    /\ Finish(r, "http error")
    /\ UNCHANGED <<clientVars, cacher>>

After(time, seconds) == time > seconds * Second

validateExpiration(r) ==
    /\ request[r].pc = "validateExpiration"
    /\ IF After(now, request[r].timestamp + request[r].token.ttl)
       THEN Finish(r, "ErrTokenExpired")
       ELSE SetRequest(r, [pc |-> "validateSignature"])
    /\ UNCHANGED <<outsideVars, clientVars, cacher>>

VerifyMessage(message, t) == t.signature = [key |-> t.address[1][2], message |-> message]

SignatureMatches(t) ==
    LET unsigned == GetUnsignedToken(t)
    IN  \/ VerifyMessage(GetSignableMessage(t.address, unsigned), t)
        \/ VerifyMessage(GetSignableMessageLegacy(t.address, unsigned), t)

validateSignature(r) ==
    /\ request[r].pc = "validateSignature"
    /\ Finish(r, IF SignatureMatches(request[r].token) THEN "accepted" ELSE "invalid signature")
    /\ UNCHANGED <<outsideVars, clientVars, cacher>>

-----------------------------------------------------------------------------

AuthInit ==
    /\ now = 0
    /\ timestamps = <<0>>
    /\ faults = 0
    /\ token = NoToken
    /\ tokenExpire = NoTime
    /\ clientPc = "idle"
    /\ nonce = 0
    /\ createdAt = NoTime
    /\ cacher \in [1..MaxBlocks -> {Unknown, NotInt64}]      \* the program hands it in, used or not
    /\ request = [r \in Requests |-> [pc |-> "idle"]]

\* External: time passes and hyper blocks are produced
Tick ==
    /\ now < MaxTime
    /\ now' = now + 1
    /\ UNCHANGED <<timestamps, faults, clientVars, serverVars>>

NewHyperBlock ==
    /\ Len(timestamps) < MaxBlocks
    /\ timestamps' = Append(timestamps, now \div Second)
    /\ UNCHANGED <<now, faults, clientVars, serverVars>>

Presented == {SignedToken(b) : b \in DOMAIN timestamps} \cup {LegacyToken(1), MismatchedToken(1)}

ClientStep ==
    \/ GetAccessToken
    \/ GetLatestHyperBlockNonce
    \/ createNewToken
    \/ createNewTokenFails
    \/ Return

ServerStep(r) ==
    \/ \E t \in Presented : Validate(r, t)
    \/ getBlockTimestamp(r)
    \/ getBlockByHash(r)
    \/ getBlockByHashFails(r)
    \/ validateExpiration(r)
    \/ validateSignature(r)

AuthNext == Tick \/ NewHyperBlock \/ ClientStep \/ \E r \in Requests : ServerStep(r)

-----------------------------------------------------------------------------

ExpireTime(t) == (timestamps[t.blockHash] + t.ttl) * Second

\* When GetAccessToken returns a token, be it new or kept from an earlier
\* call, the server would accept it at that moment, provided that its block
\* was recent when the token was created: the client counts the life of a
\* token from its creation, the server from the block, and they must agree.
HandedOutIsAccepted ==
    [][clientPc # "return" /\ clientPc' = "return" =>
        /\ token' # NoToken
        /\ LET t == Decode(token')
           IN  /\ SignatureMatches(t)
               /\ createdAt' + TokenExpiryInSeconds <= ExpireTime(t) => now <= ExpireTime(t)]_authVars

\* What Validate answers is what a server without a cache would answer at the
\* moment it looks at the clock, whatever requests share the cache and fail:
\* no token passes after its time, none is refused as expired before it,
\* whatever else is in a cache that was handed in, and
\* only the two forms of the signed message are accepted.
VerdictsAreTrue ==
    [][\A r \in Requests :
        /\ request[r].pc = "validateExpiration" /\ request'[r].pc # "validateExpiration" =>
               (request'[r].pc = "ErrTokenExpired" <=> now > ExpireTime(request[r].token))
        /\ request[r].pc = "validateSignature" /\ request'[r].pc = "accepted" =>
               LET b == request[r].token.blockHash
               IN  Encode(request[r].token) \in {SignedToken(b), LegacyToken(b)}]_authVars
==============================================================================
