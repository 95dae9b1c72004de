-------------------------------- MODULE OAuth --------------------------------
(***************************************************************************)
(* OAuthTool (o-tool-registry/src/auth/oAuth.tool.ts): configurations and  *)
(* a token store, both in memory, and methods that overlap while they wait *)
(* for the provider's answer.  One map holds both the tokens of a service  *)
(* ("<service>_tokens") and the PKCE verifier of its last authorization    *)
(* URL ("<service>_code_verifier").                                        *)
(*                                                                         *)
(* Tokens and verifiers are numbers in the order of their making; 0 is     *)
(* none.  The provider is modelled from its answers only: a refusal, or a  *)
(* new access token with no refresh token, a new one or, of a refresh, the *)
(* one it was asked with.  What it said to have revoked it refuses when it *)
(* is asked later; a refresh that was under way may have been granted      *)
(* before.                                                                 *)
(***************************************************************************)
EXTENDS Naturals

CONSTANTS
    Services,  \* configured or not
    Calls      \* calls of the tool's methods; their number bounds what is issued

VARIABLES
    flow,      \* oauthConfigs: "absent", or the configured response type
    verifier,  \* tokenStore, the verifiers
    grants,    \* tokenStore, the tokens
    call,      \* the calls and what they wait for
    made,      \* verifiers generated so far
    granted,   \* tokens issued by the provider so far
    gone       \* tokens of a service whose revocation a caller was told of
               \* when no refresh with them was under way

oauthVars == <<flow, verifier, grants, call, made, granted, gone>>

Kinds == {"access_token", "refresh_token"}
NoTokens == [k \in Kinds |-> 0]
Idle == [does |-> "nothing", for |-> "none", id |-> 0, is |-> "none", type |-> "none"]

OAuthTypeOK ==
    /\ flow \in [Services -> {"absent", "code", "token"}]
    /\ verifier \in [Services -> Nat]
    /\ grants \in [Services -> [Kinds -> Nat]]
    /\ call \in [Calls -> {Idle} \cup
          [does : {"url", "exchange", "refresh", "revoke", "ask", "done"},
           for : Services, id : Nat, is : Kinds \cup {"none"}, type : Kinds \cup {"none"}]]
    /\ made \in Nat /\ granted \in Nat
    /\ gone \subseteq Services \X Kinds \X Nat

OAuthInit ==
    /\ flow = [s \in Services |-> "absent"]
    /\ verifier = [s \in Services |-> 0]
    /\ grants = [s \in Services |-> NoTokens]
    /\ call = [c \in Calls |-> Idle]
    /\ made = 0 /\ granted = 0
    /\ gone = {}

-----------------------------------------------------------------------------

\* _tool_configure(): replaces the configuration, keeps tokens and verifier.
Configure(s, f) ==
    /\ flow' = [flow EXCEPT ![s] = f]
    /\ UNCHANGED <<verifier, grants, call, made, granted, gone>>

\* A method is called; without a configuration for its service it throws.
Call(c, does, s, id, is, type) ==
    /\ call[c] = Idle
    /\ flow[s] # "absent"
    /\ call' = [call EXCEPT ![c] = [does |-> does, for |-> s, id |-> id,
                                    is |-> is, type |-> type]]

\* A call is answered, or throws.
Done(c) == call' = [call EXCEPT ![c].does = "done"]

\* _tool_getAuthorizationUrl(): the verifier is generated now and stored
\* once its digest is there.
AuthorizationUrl(c, s) ==
    /\ flow[s] = "code"
    /\ Call(c, "url", s, made + 1, "none", "none")
    /\ made' = made + 1
    /\ UNCHANGED <<flow, verifier, grants, granted, gone>>

UrlReady(c) ==
    /\ call[c].does = "url"
    /\ verifier' = [verifier EXCEPT ![call[c].for] = call[c].id]
    /\ Done(c)
    /\ UNCHANGED <<flow, grants, made, granted, gone>>

\* _tool_exchangeCode(): takes the verifier out of the store before it asks.
ExchangeCode(c, s) ==
    /\ Call(c, "exchange", s, verifier[s], "none", "none")
    /\ verifier' = [verifier EXCEPT ![s] = 0]
    /\ UNCHANGED <<flow, grants, made, granted, gone>>

\* _tool_refreshToken(): with a refresh token the caller was given earlier.
RefreshToken(c, s) ==
    /\ \E id \in 1..granted : Call(c, "refresh", s, id, "refresh_token", "none")
    /\ UNCHANGED <<flow, verifier, grants, made, granted, gone>>

\* _tool_revokeToken(): the caller names the type of the token it gives, by
\* default "access_token".
RevokeToken(c, s) ==
    /\ \E id \in 1..granted, is, type \in Kinds : Call(c, "revoke", s, id, is, type)
    /\ UNCHANGED <<flow, verifier, grants, made, granted, gone>>

\* _tool_getUserInfo(), _tool_validateToken(): ask and store nothing.
Ask(c, s) ==
    /\ \E id \in 1..granted : Call(c, "ask", s, id, "access_token", "none")
    /\ UNCHANGED <<flow, verifier, grants, made, granted, gone>>

-----------------------------------------------------------------------------

\* What is stored once an exchange brought token n and a refresh token, or 0.
Exchanged(n, refresh) == [access_token |-> n, refresh_token |-> refresh]

\* What is stored once a refresh did: only kept tokens are updated, and the
\* refresh token stays when the provider sends none.
RefreshedAlways(old, n, refresh) ==
    [access_token |-> n, refresh_token |-> IF refresh # 0 THEN refresh ELSE old["refresh_token"]]
Refreshed(old, n, refresh) ==
    IF old = NoTokens THEN old ELSE RefreshedAlways(old, n, refresh)

\* The refresh tokens an answer with token n may carry, 0 for none.
Answers(c, n) == {0, n} \cup {id \in {call[c].id} : call[c].does = "refresh"}

\* The provider answers an exchange or a refresh with tokens.
TokensArrive(c) ==
    LET s == call[c].for  n == granted + 1 IN
    /\ call[c].does \in {"exchange", "refresh"}
    /\ call[c].does = "refresh" => <<s, "refresh_token", call[c].id>> \notin gone
    /\ granted' = n
    /\ \E refresh \in Answers(c, n) :
          grants' = [grants EXCEPT ![s] = IF call[c].does = "exchange"
                                          THEN Exchanged(n, refresh)
                                          ELSE Refreshed(@, n, refresh)]
    /\ Done(c)
    /\ UNCHANGED <<flow, verifier, made, gone>>

\* A refresh with this token waits for its answer.
InUse(s, id) == \E c \in Calls : call[c].does = "refresh" /\ call[c].for = s /\ call[c].id = id

\* What a revocation of token id, said to be of this type, leaves stored.
RevokedByToken(old, id, type) ==
    IF type = "access_token" /\ old[type] = id THEN NoTokens ELSE old
Revoked(old, id, type) ==
    IF type = "refresh_token" /\ old[type] = id THEN [old EXCEPT ![type] = 0]
    ELSE RevokedByToken(old, id, type)

\* The provider revoked the token.  A token given under the wrong type is
\* never found: an access token and a refresh token are never equal.
RevocationConfirmed(c) ==
    LET k == call[c]  rightly == k.is = k.type IN
    /\ k.does = "revoke"
    /\ grants' = [grants EXCEPT ![k.for] = IF rightly THEN Revoked(@, k.id, k.type) ELSE @]
    /\ gone' = IF rightly /\ (k.is = "refresh_token" => ~InUse(k.for, k.id))
               THEN gone \cup {<<k.for, k.type, k.id>>} ELSE gone
    /\ Done(c)
    /\ UNCHANGED <<flow, verifier, made, granted>>

\* A refusal or a failed fetch, or an answer that nothing is stored of.
NothingStored(c) ==
    /\ call[c].does \in {"exchange", "refresh", "revoke", "ask"}
    /\ Done(c)
    /\ UNCHANGED <<flow, verifier, grants, made, granted, gone>>

\* _tool_clearTokens(), of one service or of all.
ClearTokens(S) ==
    /\ verifier' = [s \in Services |-> IF s \in S THEN 0 ELSE verifier[s]]
    /\ grants' = [s \in Services |-> IF s \in S THEN NoTokens ELSE grants[s]]
    /\ UNCHANGED <<flow, call, made, granted, gone>>

OAuthNext ==
    \/ \E s \in Services :
          \/ \E f \in {"code", "token"} : Configure(s, f)
          \/ ClearTokens({s})
          \/ \E c \in Calls : \/ AuthorizationUrl(c, s) \/ ExchangeCode(c, s)
                              \/ RefreshToken(c, s) \/ RevokeToken(c, s) \/ Ask(c, s)
    \/ ClearTokens(Services)
    \/ \E c \in Calls : \/ UrlReady(c) \/ RevocationConfirmed(c) \/ NothingStored(c)
                        \/ TokensArrive(c)

OAuthSpec == OAuthInit /\ [][OAuthNext]_oauthVars

-----------------------------------------------------------------------------

\* A token whose revocation was confirmed is not in the store and never
\* comes back, whatever exchanges and refreshes with other tokens were under
\* way meanwhile (_tool_revokeToken looks at the store after its answer).  A
\* refresh with this very token may bring it back: what the answer carries is
\* stored as it comes.
RevokedStaysGone == \A s \in Services, k \in Kinds : <<s, k, grants[s][k]>> \notin gone

\* A service whose tokens were cleared or revoked has tokens again only by a
\* new exchange, not by a refresh that was under way (_tool_refreshToken).
ClearedStaysEmpty ==
    [][\A s \in Services :
          grants[s] = NoTokens /\ grants'[s] # NoTokens =>
             \E c \in Calls : call[c].does = "exchange" /\ call'[c].does = "done"]_oauthVars

\* Both, for tokens gone one way or the other.
GoneStaysGone == []RevokedStaysGone /\ ClearedStaysEmpty
=============================================================================
