------------------------ MODULE ServiceAccessProofs -------------------------
(***************************************************************************)
(* Proofs about the access to other services, one part of ServiceAccess    *)
(* after the other: the grants of the OAuth tool, the HTTP server, the     *)
(* choice of a provider and the providers.  Each part has an inductive     *)
(* invariant of its own, and holds for every value of its constants.       *)
(* TokenManagerProofs has those about the token manager.                   *)
(***************************************************************************)
EXTENDS ServiceAccess, SequenceFacts

-----------------------------------------------------------------------------
(* The grants of the OAuth tool.                                           *)

\* What is stored was issued, and so was what is revoked or about to be; 0
\* is no token.
Issued ==
    /\ \A s \in Services, k \in Kinds : grants[s][k] <= granted
    /\ \A c \in Calls : call[c].does \in {"revoke", "refresh"} => call[c].id \in 1..granted
    /\ \A c \in Calls : call[c].does = "revoke" => call[c].type \in Kinds
    /\ \A s, k, id : <<s, k, id>> \in gone => id \in 1..granted

OAuthInv == OAuthTypeOK /\ Issued /\ RevokedStaysGone

OAuthRecord == [does : {"url", "exchange", "refresh", "revoke", "ask", "done"},
           for : Services, id : Nat, is : Kinds \cup {"none"}, type : Kinds \cup {"none"}]

-----------------------------------------------------------------------------
(* The pieces of the actions.                                              *)

\* The initial states satisfy the invariant.
LEMMA OAuthInitInv == OAuthInit => OAuthInv
  BY DEF OAuthInit, OAuthInv, OAuthTypeOK, Issued, RevokedStaysGone, Idle, NoTokens, Kinds

\* A call that is under way is a record; ending it changes nothing else.
LEMMA DoneKeeps ==
  ASSUME OAuthTypeOK, NEW c \in Calls, call[c] # Idle, Done(c)
  PROVE  /\ call[c] \in OAuthRecord
         /\ call' \in [Calls -> {Idle} \cup OAuthRecord]
         /\ call'[c].does = "done"
         /\ \A d \in Calls : d # c => call'[d] = call[d]
  <1>1. call[c] \in OAuthRecord
    BY DEF OAuthTypeOK, OAuthRecord
  <1>2. [call[c] EXCEPT !.does = "done"] \in OAuthRecord
    BY <1>1 DEF OAuthRecord
  <1>3. /\ call' = [call EXCEPT ![c] = [call[c] EXCEPT !.does = "done"]]
        /\ call \in [Calls -> {Idle} \cup OAuthRecord]
    BY DEF Done, OAuthTypeOK, OAuthRecord
  <1>4. [call[c] EXCEPT !.does = "done"].does = "done"
    BY <1>1 DEF OAuthRecord
  <1> QED BY <1>1, <1>2, <1>3, <1>4

\* A call that begins.
LEMMA OAuthCallKeeps ==
  ASSUME OAuthTypeOK, NEW c \in Calls, NEW s \in Services,
         NEW does \in {"url", "exchange", "refresh", "revoke", "ask"},
         NEW id \in Nat, NEW is \in Kinds \cup {"none"}, NEW type \in Kinds \cup {"none"},
         Call(c, does, s, id, is, type)
  PROVE  /\ call' \in [Calls -> {Idle} \cup OAuthRecord]
         /\ call'[c].does = does /\ call'[c].id = id /\ call'[c].type = type
         /\ call[c] = Idle
         /\ \A d \in Calls : d # c => call'[d] = call[d]
  <1> DEFINE new == [does |-> does, for |-> s, id |-> id, is |-> is, type |-> type]
  <1>1. new \in OAuthRecord
    BY DEF OAuthRecord
  <1>2. call' = [call EXCEPT ![c] = new] /\ call \in [Calls -> {Idle} \cup OAuthRecord]
    BY DEF Call, OAuthTypeOK, OAuthRecord
  <1>3. new.does = does /\ new.id = id /\ new.type = type
    OBVIOUS
  <1> QED BY <1>1, <1>2, <1>3 DEF Call

\* As long as nothing is issued, stored or revoked, and what is revoked was
\* issued, the invariant holds.
LEMMA CallsOnly ==
  ASSUME OAuthInv, UNCHANGED <<grants, granted, gone>>,
         flow' \in [Services -> {"absent", "code", "token"}],
         verifier' \in [Services -> Nat], made' \in Nat,
         call' \in [Calls -> {Idle} \cup OAuthRecord],
         \A c \in Calls :
            /\ call'[c].does \in {"revoke", "refresh"} => call'[c].id \in 1..granted
            /\ call'[c].does = "revoke" => call'[c].type \in Kinds
  PROVE  OAuthInv'
  <1>1. OAuthTypeOK'
    BY DEF OAuthInv, OAuthTypeOK, OAuthRecord
  <1>2. Issued' /\ RevokedStaysGone'
    BY DEF OAuthInv, Issued, RevokedStaysGone
  <1> QED BY <1>1, <1>2 DEF OAuthInv

-----------------------------------------------------------------------------
(* The actions that store or revoke.                                       *)

\* New tokens are none that was revoked, whichever call brings them, and one
\* that comes back as it was given was not.
LEMMA TokensKeep ==
  ASSUME OAuthInv, NEW c \in Calls, TokensArrive(c)
  PROVE  OAuthInv'
  <1> DEFINE s == call[c].for
             n == granted + 1
             Brought(refresh) == IF call[c].does = "exchange" THEN Exchanged(n, refresh)
                                 ELSE Refreshed(grants[s], n, refresh)
  <1>1. call[c] # Idle
    BY DEF TokensArrive, Idle
  <1>2. /\ s \in Services
        /\ call' \in [Calls -> {Idle} \cup OAuthRecord] /\ call'[c].does = "done"
        /\ \A d \in Calls : d # c => call'[d] = call[d]
    BY <1>1, DoneKeeps DEF OAuthInv, TokensArrive, OAuthRecord
  <1>3. granted \in Nat /\ granted' = n /\ gone' = gone /\ UNCHANGED <<flow, verifier, made>>
    BY DEF OAuthInv, OAuthTypeOK, TokensArrive
  <1>a. PICK refresh \in Answers(c, n) : grants' = [grants EXCEPT ![s] = Brought(refresh)]
    BY DEF TokensArrive
  <1>b. /\ refresh \in 0..n
        /\ refresh \in {0, n} \/ <<s, "refresh_token", refresh>> \notin gone
    BY <1>3 DEF Answers, TokensArrive, OAuthInv, Issued
  <1> DEFINE tokens == Brought(refresh)
  <1>4. grants \in [Services -> [Kinds -> Nat]]
    BY DEF OAuthInv, OAuthTypeOK
  <1>5. /\ tokens \in [Kinds -> Nat]
        /\ tokens["access_token"] \in {0, n, grants[s]["access_token"]}
        /\ tokens["refresh_token"] \in {0, refresh, grants[s]["refresh_token"]}
    <2> DEFINE old == grants[s]
    <2>1. old \in [Kinds -> Nat] /\ n \in Nat /\ refresh \in Nat
      BY <1>2, <1>3, <1>4, <1>b
    <2>2. /\ Exchanged(n, refresh) \in [Kinds -> Nat]
          /\ Exchanged(n, refresh)["access_token"] = n
          /\ Exchanged(n, refresh)["refresh_token"] = refresh
      BY <2>1 DEF Exchanged, Kinds
    <2>3. /\ RefreshedAlways(old, n, refresh) \in [Kinds -> Nat]
          /\ RefreshedAlways(old, n, refresh)["access_token"] = n
          /\ RefreshedAlways(old, n, refresh)["refresh_token"] \in {refresh, old["refresh_token"]}
      BY <2>1 DEF RefreshedAlways, Kinds
    <2>4. Refreshed(old, n, refresh) \in {old, RefreshedAlways(old, n, refresh)}
      BY DEF Refreshed
    <2> QED BY <2>1, <2>2, <2>3, <2>4
  <1> HIDE DEF tokens, Tokens
  <1>6. grants' \in [Services -> [Kinds -> Nat]]
    BY <1>2, <1>4, <1>5, <1>a DEF tokens
  <1>7. ASSUME NEW t \in Services, NEW k \in Kinds
        PROVE  \/ grants'[t][k] \in {0, n, grants[t][k]}
               \/ t = s /\ k = "refresh_token" /\ grants'[t][k] = refresh
    <2>1. CASE t = s
      <3>1. grants'[t] = tokens
        BY <2>1, <1>2, <1>4, <1>a DEF tokens
      <3>2. CASE k = "access_token"
        BY <1>5, <2>1, <3>1, <3>2
      <3>3. CASE k = "refresh_token"
        BY <1>5, <2>1, <3>1, <3>3
      <3> QED BY <3>2, <3>3 DEF Kinds
    <2>2. CASE t # s
      BY <2>2, <1>4, <1>a
    <2> QED BY <2>1, <2>2
  <1>8. OAuthTypeOK'
    BY <1>2, <1>3, <1>6 DEF OAuthInv, OAuthTypeOK, OAuthRecord
  <1>9. Issued'
    <2>1. \A t \in Services, k \in Kinds : grants[t][k] \in Nat /\ grants[t][k] <= granted
      BY <1>4 DEF OAuthInv, Issued
    <2>2. \A t \in Services, k \in Kinds : grants'[t][k] <= granted'
      BY <1>3, <1>7, <1>b, <2>1
    <2>3. \A d \in Calls :
            /\ call'[d].does \in {"revoke", "refresh"} => call'[d].id \in 1..granted'
            /\ call'[d].does = "revoke" => call'[d].type \in Kinds
      BY <1>2, <1>3 DEF OAuthInv, Issued
    <2>4. \A t, k, id : <<t, k, id>> \in gone' => id \in 1..granted'
      BY <1>3 DEF OAuthInv, Issued
    <2> QED BY <2>2, <2>3, <2>4 DEF Issued
  <1>10. RevokedStaysGone'
    <2>1. \A t, k : <<t, k, 0>> \notin gone /\ <<t, k, n>> \notin gone
      BY <1>3 DEF OAuthInv, Issued
    <2>2. \A t \in Services, k \in Kinds : <<t, k, grants[t][k]>> \notin gone
      BY DEF OAuthInv, RevokedStaysGone
    <2>3. ASSUME NEW t \in Services, NEW k \in Kinds
          PROVE  <<t, k, grants'[t][k]>> \notin gone
      BY <1>7, <1>b, <2>1, <2>2
    <2> QED BY <1>3, <2>3 DEF RevokedStaysGone
  <1> QED BY <1>8, <1>9, <1>10 DEF OAuthInv

\* What a confirmed revocation leaves is not the token it revoked.
LEMMA RevocationKeeps ==
  ASSUME OAuthInv, NEW c \in Calls, RevocationConfirmed(c)
  PROVE  OAuthInv'
  <1> DEFINE q == call[c]
             rightly == q.is = q.type
             s == q.for
             left == Revoked(grants[s], q.id, q.type)
  <1>1. q # Idle /\ q.does = "revoke"
    BY DEF RevocationConfirmed, Idle
  <1>2. /\ q \in OAuthRecord
        /\ call' \in [Calls -> {Idle} \cup OAuthRecord] /\ call'[c].does = "done"
        /\ \A d \in Calls : d # c => call'[d] = call[d]
    BY <1>1, DoneKeeps DEF OAuthInv, RevocationConfirmed
  <1>3. s \in Services /\ q.id \in 1..granted /\ q.id \in Nat \ {0} /\ q.type \in Kinds
    BY <1>1, <1>2 DEF OAuthInv, Issued, OAuthTypeOK, OAuthRecord
  <1>4. grants \in [Services -> [Kinds -> Nat]] /\ granted \in Nat
    BY DEF OAuthInv, OAuthTypeOK
  <1>5. /\ grants' = [grants EXCEPT ![s] = IF rightly THEN left ELSE grants[s]]
        /\ gone' = gone \/ (rightly /\ gone' = gone \cup {<<s, q.type, q.id>>})
        /\ UNCHANGED <<flow, verifier, made, granted>>
    BY DEF RevocationConfirmed
  <1>6. /\ left \in [Kinds -> Nat]
        /\ \A k \in Kinds : left[k] \in {0, grants[s][k]}
        /\ left[q.type] # q.id
    <2>1. grants[s] \in [Kinds -> Nat]
      BY <1>3, <1>4
    <2>2. NoTokens \in [Kinds -> Nat] /\ \A k \in Kinds : NoTokens[k] = 0
      BY DEF NoTokens
    <2>3. CASE q.type = "refresh_token" /\ grants[s][q.type] = q.id
      <3>1. left = [grants[s] EXCEPT ![q.type] = 0]
        BY <2>3 DEF Revoked
      <3> QED BY <3>1, <2>1, <1>3
    <2>4. CASE q.type = "access_token" /\ grants[s][q.type] = q.id
      <3>1. left = NoTokens
        BY <2>4 DEF Revoked, RevokedByToken
      <3> QED BY <3>1, <2>2, <1>3
    <2>5. CASE grants[s][q.type] # q.id
      <3>1. left = grants[s]
        BY <2>5 DEF Revoked, RevokedByToken
      <3> QED BY <3>1, <2>1, <2>5
    <2> QED BY <2>3, <2>4, <2>5, <1>3 DEF Kinds
  <1>7. grants' \in [Services -> [Kinds -> Nat]]
    BY <1>3, <1>4, <1>5, <1>6
  <1>8. \A t \in Services, k \in Kinds : grants'[t][k] \in {0, grants[t][k]}
    BY <1>3, <1>4, <1>5, <1>6
  <1>9. OAuthTypeOK'
    BY <1>2, <1>3, <1>5, <1>7 DEF OAuthInv, OAuthTypeOK, OAuthRecord
  <1>10. Issued'
    <2>1. \A t \in Services, k \in Kinds : grants'[t][k] <= granted'
      BY <1>4, <1>5, <1>8 DEF OAuthInv, Issued
    <2>2. \A d \in Calls :
            /\ call'[d].does \in {"revoke", "refresh"} => call'[d].id \in 1..granted'
            /\ call'[d].does = "revoke" => call'[d].type \in Kinds
      BY <1>2, <1>5 DEF OAuthInv, Issued
    <2>3. \A t, k, id : <<t, k, id>> \in gone' => id \in 1..granted'
      BY <1>3, <1>5 DEF OAuthInv, Issued
    <2> QED BY <2>1, <2>2, <2>3 DEF Issued
  <1>11. RevokedStaysGone'
    <2> SUFFICES ASSUME NEW t \in Services, NEW k \in Kinds
                 PROVE  <<t, k, grants'[t][k]>> \notin gone'
      BY DEF RevokedStaysGone
    <2>1. <<t, k, grants'[t][k]>> \notin gone
      BY <1>8 DEF OAuthInv, Issued, RevokedStaysGone
    <2>2. CASE rightly /\ t = s /\ k = q.type
      BY <2>1, <2>2, <1>3, <1>4, <1>5, <1>6
    <2>3. CASE ~(rightly /\ t = s /\ k = q.type)
      BY <2>1, <2>3, <1>5
    <2> QED BY <2>2, <2>3
  <1> QED BY <1>9, <1>10, <1>11 DEF OAuthInv

\* Clearing stores nothing.
LEMMA ClearKeeps ==
  ASSUME OAuthInv, NEW S, ClearTokens(S)
  PROVE  OAuthInv'
  <1>1. NoTokens \in [Kinds -> Nat] /\ \A k \in Kinds : NoTokens[k] = 0
    BY DEF NoTokens
  <1>2. grants \in [Services -> [Kinds -> Nat]] /\ verifier \in [Services -> Nat]
        /\ granted \in Nat
    BY DEF OAuthInv, OAuthTypeOK
  <1>3. grants' \in [Services -> [Kinds -> Nat]] /\ verifier' \in [Services -> Nat]
    BY <1>1, <1>2 DEF ClearTokens
  <1>4. \A t \in Services, k \in Kinds : grants'[t][k] \in {0, grants[t][k]}
    BY <1>1, <1>2 DEF ClearTokens
  <1>5. UNCHANGED <<flow, call, made, granted, gone>>
    BY DEF ClearTokens
  <1>6. OAuthTypeOK'
    BY <1>3, <1>5 DEF OAuthInv, OAuthTypeOK
  <1>7. Issued' /\ RevokedStaysGone'
    BY <1>2, <1>4, <1>5 DEF OAuthInv, Issued, RevokedStaysGone
  <1> QED BY <1>6, <1>7 DEF OAuthInv

-----------------------------------------------------------------------------
(* The invariant.                                                          *)

\* Every step keeps the invariant.
LEMMA OAuthNextInv ==
  ASSUME OAuthInv, [OAuthNext]_oauthVars
  PROVE  OAuthInv'
  <1> USE DEF OAuthInv
  <1>0. /\ call \in [Calls -> {Idle} \cup OAuthRecord]
        /\ flow \in [Services -> {"absent", "code", "token"}]
        /\ verifier \in [Services -> Nat] /\ made \in Nat /\ granted \in Nat
        /\ \A c \in Calls :
             /\ call[c].does \in {"revoke", "refresh"} => call[c].id \in 1..granted
             /\ call[c].does = "revoke" => call[c].type \in Kinds
    BY DEF OAuthTypeOK, Issued, OAuthRecord
  <1>1. ASSUME NEW s \in Services, NEW f \in {"code", "token"}, Configure(s, f)
        PROVE  OAuthInv'
    BY <1>0, <1>1, CallsOnly DEF Configure
  <1>2. ASSUME NEW s \in Services, NEW c \in Calls, AuthorizationUrl(c, s)
        PROVE  OAuthInv'
    <2>1. made + 1 \in Nat /\ made' = made + 1
      BY <1>0, <1>2 DEF AuthorizationUrl
    <2>2. /\ call' \in [Calls -> {Idle} \cup OAuthRecord] /\ call'[c].does = "url"
          /\ \A d \in Calls : d # c => call'[d] = call[d]
      BY <1>2, <2>1, OAuthCallKeeps DEF AuthorizationUrl
    <2> QED BY <1>0, <1>2, <2>1, <2>2, CallsOnly DEF AuthorizationUrl
  <1>3. ASSUME NEW s \in Services, NEW c \in Calls, ExchangeCode(c, s)
        PROVE  OAuthInv'
    BY <1>0, <1>3, OAuthCallKeeps, CallsOnly DEF ExchangeCode
  <1>4. ASSUME NEW s \in Services, NEW c \in Calls, RefreshToken(c, s)
        PROVE  OAuthInv'
    BY <1>0, <1>4, OAuthCallKeeps, CallsOnly, SMTT(40) DEF RefreshToken, Kinds
  <1>5. ASSUME NEW s \in Services, NEW c \in Calls, RevokeToken(c, s)
        PROVE  OAuthInv'
    BY <1>0, <1>5, OAuthCallKeeps, CallsOnly, SMTT(40) DEF RevokeToken
  <1>6. ASSUME NEW s \in Services, NEW c \in Calls, Ask(c, s)
        PROVE  OAuthInv'
    BY <1>0, <1>6, OAuthCallKeeps, CallsOnly, SMTT(40) DEF Ask, Kinds
  <1>7. ASSUME NEW c \in Calls, UrlReady(c)
        PROVE  OAuthInv'
    <2>1. call[c] # Idle
      BY <1>7 DEF UrlReady, Idle
    <2>2. /\ call[c] \in OAuthRecord /\ call' \in [Calls -> {Idle} \cup OAuthRecord]
          /\ call'[c].does = "done" /\ \A d \in Calls : d # c => call'[d] = call[d]
      BY <1>7, <2>1, DoneKeeps DEF UrlReady
    <2>3. verifier' \in [Services -> Nat]
      BY <1>0, <1>7, <2>2 DEF UrlReady, OAuthRecord
    <2> QED BY <1>0, <1>7, <2>2, <2>3, CallsOnly DEF UrlReady
  <1>8. ASSUME NEW c \in Calls, NothingStored(c)
        PROVE  OAuthInv'
    <2>1. call[c] # Idle
      BY <1>8 DEF NothingStored, Idle
    <2>2. /\ call' \in [Calls -> {Idle} \cup OAuthRecord]
          /\ call'[c].does = "done" /\ \A d \in Calls : d # c => call'[d] = call[d]
      BY <1>8, <2>1, DoneKeeps DEF NothingStored
    <2> QED BY <1>0, <1>8, <2>2, CallsOnly DEF NothingStored
  <1>9. CASE UNCHANGED oauthVars
    BY <1>0, <1>9, CallsOnly DEF oauthVars
  <1> QED BY <1>1, <1>2, <1>3, <1>4, <1>5, <1>6, <1>7, <1>8, <1>9,
             TokensKeep, RevocationKeeps, ClearKeeps DEF OAuthNext

\* The invariant holds in every state: tokens are stored and revoked as they were
\* issued, and none that was revoked is stored.
THEOREM OAuthInvariant == OAuthSpec => []OAuthInv
  BY OAuthInitInv, OAuthNextInv, PTL DEF OAuthSpec

-----------------------------------------------------------------------------
(* What follows.                                                           *)

\* Configurations, the token store and the calls keep their types, for any
\* number of services and calls.
THEOREM OAuthTypeCorrect == OAuthSpec => []OAuthTypeOK
  BY OAuthInvariant, PTL DEF OAuthInv

\* Tokens appear where there are none only by an exchange.
LEMMA OnlyExchangeFills ==
  ASSUME OAuthInv, [OAuthNext]_oauthVars, NEW s \in Services,
         grants[s] = NoTokens, grants'[s] # NoTokens
  PROVE  \E c \in Calls : call[c].does = "exchange" /\ call'[c].does = "done"
  <1> USE DEF OAuthInv
  <1>1. ASSUME NEW c \in Calls, TokensArrive(c)
        PROVE  \E d \in Calls : call[d].does = "exchange" /\ call'[d].does = "done"
    <2>1. call[c] # Idle
      BY <1>1 DEF TokensArrive, Idle
    <2>2. call'[c].does = "done" /\ call[c].for \in Services
      BY <1>1, <2>1, DoneKeeps DEF TokensArrive, OAuthRecord
    <2>3. CASE call[c].does = "exchange"
      BY <2>2, <2>3
    <2>4. CASE call[c].does # "exchange"
      <3>1. \E refresh : grants' = [grants EXCEPT ![call[c].for] =
                         Refreshed(grants[call[c].for], granted + 1, refresh)]
        BY <1>1, <2>4 DEF TokensArrive
      <3>2. \A refresh : grants[s] = NoTokens =>
                           Refreshed(grants[s], granted + 1, refresh) = NoTokens
        BY DEF Refreshed
      <3>3. grants \in [Services -> [Kinds -> Nat]]
        BY DEF OAuthTypeOK
      <3> QED BY <2>2, <3>1, <3>2, <3>3
    <2> QED BY <2>3, <2>4
  <1>2. ASSUME NEW c \in Calls, RevocationConfirmed(c)
        PROVE  FALSE
    <2>1. NoTokens[call[c].type] # call[c].id =>
            Revoked(NoTokens, call[c].id, call[c].type) = NoTokens
      BY DEF Revoked, RevokedByToken
    <2>2. call[c].id \in 1..granted /\ call[c].type \in Kinds
      BY <1>2 DEF RevocationConfirmed, Issued
    <2>3. Revoked(NoTokens, call[c].id, call[c].type) = NoTokens
      BY <2>1, <2>2 DEF NoTokens
    <2>4. grants \in [Services -> [Kinds -> Nat]]
      BY DEF OAuthTypeOK
    <2> QED BY <1>2, <2>3, <2>4 DEF RevocationConfirmed
  <1>3. ASSUME NEW S, ClearTokens(S)
        PROVE  FALSE
    BY <1>3 DEF ClearTokens
  <1>4. grants' # grants
    OBVIOUS
  <1> QED BY <1>1, <1>2, <1>3, <1>4
          DEF OAuthNext, oauthVars, Configure, AuthorizationUrl, ExchangeCode, RefreshToken,
              RevokeToken, Ask, UrlReady, NothingStored

\* A token whose revocation was confirmed is not stored again, and the tokens
\* of a service that were cleared or revoked come back by a new exchange only
\* (_tool_revokeToken, _tool_refreshToken, _tool_clearTokens).
THEOREM GoneForGood == OAuthSpec => GoneStaysGone
  <1>1. OAuthInv /\ [OAuthNext]_oauthVars =>
          [\A s \in Services :
             grants[s] = NoTokens /\ grants'[s] # NoTokens =>
                \E c \in Calls : call[c].does = "exchange" /\ call'[c].does = "done"]_oauthVars
    BY OnlyExchangeFills
  <1>2. OAuthInv => RevokedStaysGone
    BY DEF OAuthInv
  <1> QED BY <1>1, <1>2, OAuthInvariant, PTL DEF OAuthSpec, GoneStaysGone, ClearedStaysEmpty

-----------------------------------------------------------------------------
(* The HTTP server.                                                        *)

\* What is known of a request, whatever stage it is at: the route is that of
\* its path, and what the node sees was put there for a verified token.
Vouched(q) ==
  /\ q.route # "none" => q.route = Http!RouteOf(q.path)
  /\ q.route \notin {"none", "health"} =>
       /\ q.auth \in {"none", "verified"}
       /\ q.auth = "verified" => mode = "jwt" /\ q.token = "valid"
       /\ mode = "jwt" => q.token = "valid"

\* A request that the middleware of its mode has not refused yet.
RequestFields == {"stage", "path", "route", "token", "auth", "told"}

RequestsVouched ==
  \A r \in Requests :
     /\ DOMAIN request[r] = RequestFields
     /\ Vouched(request[r])
     /\ request[r].stage = "authenticating" => mode = "authenticate" /\ request[r].auth = "none"

ServerInv ==
  /\ mode \in {"jwt", "authenticate", "open"}
  /\ DOMAIN request = Requests
  /\ RequestsVouched

\* Only the health check is reached without a look at the token.
LEMMA HealthRoute == Http!RouteOf("health") = "health"
<1> DEFINE First(i) == /\ Http!Matches(Http!Routes[i], "health")
                       /\ \A j \in 1..(i - 1) : ~Http!Matches(Http!Routes[j], "health")
<1>1. DOMAIN Http!Routes = 1..4 /\ Http!Routes[1] = "health" /\ Http!Routes[2] = "use"
      /\ Http!Routes[3] = "address/method" /\ Http!Routes[4] = "use/stream"
  BY DEF Http!Routes
<1>2. First(1)
  BY <1>1 DEF Http!Matches
<1>3. \A i \in 1..4 : First(i) => i = 1
  BY <1>1 DEF Http!Matches
<1>4. (CHOOSE i \in 1..4 : First(i)) = 1
  BY <1>2, <1>3
<1> QED BY <1>1, <1>4 DEF Http!RouteOf

\* A request that the middleware let through is vouched for on every route.
LEMMA DispatchVouched ==
  ASSUME mode \in {"jwt", "authenticate", "open"},
         NEW q, DOMAIN q = RequestFields, q.auth = "none", 
         mode = "jwt" => q.path = "health" \/ q.token = "valid",
         NEW given, NEW claims \in BOOLEAN
  PROVE  LET d == Http!Dispatch(q, given, claims)
         IN  DOMAIN d = RequestFields /\ Vouched(d) /\ d.stage # "authenticating"
<1> DEFINE route == Http!RouteOf(q.path)
           d == Http!Dispatch(q, given, claims)
<1>1. q.path = "health" => route = "health"
  BY HealthRoute
<1> HIDE DEF route
<1>2. CASE route = "health"
  <2>1. d = [q EXCEPT !.stage = "answered", !.route = route, !.told = <<200, "data">>]
    BY <1>2 DEF Http!Dispatch, route
  <2>2. d.route = "health" /\ d.path = q.path /\ d.stage = "answered"
        /\ DOMAIN d = RequestFields
    BY <2>1, <1>2 DEF RequestFields
  <2> QED BY <2>2, <1>2 DEF Vouched, route
<1>3. CASE route # "health" /\ given # "fine"
  <2> DEFINE told == Http!Invalid(route, Http!BodyRefusal[given])
  <2>1. d = [q EXCEPT !.stage = "answered", !.route = route, !.told = told]
    BY <1>3 DEF Http!Dispatch, route
  <2> HIDE DEF told
  <2>2. d.route = route /\ d.path = q.path /\ d.stage = "answered"
        /\ DOMAIN d = RequestFields /\ d.auth = q.auth /\ d.token = q.token
    BY <2>1, <1>3 DEF RequestFields
  <2> QED BY <2>2, <1>1, <1>3 DEF Vouched, route
<1>4. CASE route # "health" /\ given = "fine"
  <2>1. d = [q EXCEPT !.stage = "using", !.route = route,
                      !.auth = Http!AuthOf(q.token, claims)]
    BY <1>4 DEF Http!Dispatch, route
  <2>2. d.route = route /\ d.path = q.path /\ d.stage = "using" /\ d.token = q.token
        /\ d.auth = Http!AuthOf(q.token, claims) /\ DOMAIN d = RequestFields
    BY <2>1 DEF RequestFields
  <2> QED BY <2>2, <1>1, <1>4 DEF Vouched, route, Http!AuthOf
<1> QED BY <1>2, <1>3, <1>4

\* Every step of the server keeps the invariant.
LEMMA ServerMoves == ServerInv /\ Http!Next => ServerInv'
<1> SUFFICES ASSUME ServerInv, Http!Next PROVE ServerInv'
  OBVIOUS
<1>1. mode' = mode
  BY ZenonT(40) DEF Http!Next, Http!Arrive, Http!Authenticated, Http!Used, Http!Start, Http!Stop
<1>2. ASSUME NEW r \in Requests, NEW q,
             request' = [request EXCEPT ![r] = q],
             DOMAIN q = RequestFields, Vouched(q),
             q.stage = "authenticating" => mode = "authenticate" /\ q.auth = "none"
      PROVE  ServerInv'
  BY <1>1, <1>2 DEF ServerInv, RequestsVouched, Vouched
<1>3. ASSUME NEW r \in Requests, NEW path \in Http!Paths, NEW token \in Http!Tokens,
             NEW given \in Http!Bodies, NEW claims \in BOOLEAN,
             Http!Arrive(r, path, token, given, claims)
      PROVE  ServerInv'
  <2> DEFINE q == [Http!Unsent EXCEPT !.path = path, !.token = token]
  <2>1. DOMAIN q = RequestFields /\ q.auth = "none" /\ q.route = "none" /\ q.path = path
        /\ q.token = token
    BY DEF Http!Unsent, RequestFields
  <2> HIDE DEF q
  <2>2. CASE mode = "jwt" /\ path # "health" /\ token # "valid"
    <3> DEFINE p == [q EXCEPT !.stage = "answered", !.told = <<401, Http!TokenRefusal[token]>>]
    <3>1. request' = [request EXCEPT ![r] = p]
      BY <1>3, <2>2 DEF Http!Arrive, q
    <3>2. DOMAIN p = RequestFields /\ p.stage = "answered" /\ p.route = "none"
      BY <2>1 DEF RequestFields
    <3> HIDE DEF p
    <3> QED BY <1>2, <3>1, <3>2 DEF Vouched
  <2>3. CASE mode = "authenticate"
    <3> DEFINE p == [q EXCEPT !.stage = "authenticating"]
    <3>1. request' = [request EXCEPT ![r] = p]
      BY <1>3, <2>3 DEF Http!Arrive, q
    <3>2. DOMAIN p = RequestFields /\ p.stage = "authenticating" /\ p.route = "none"
          /\ p.auth = "none"
      BY <2>1 DEF RequestFields
    <3> HIDE DEF p
    <3> QED BY <1>2, <2>3, <3>1, <3>2 DEF Vouched
  <2>4. CASE /\ ~(mode = "jwt" /\ path # "health" /\ token # "valid")
             /\ mode # "authenticate"
    <3> DEFINE p == Http!Dispatch(q, given, claims)
    <3>1. request' = [request EXCEPT ![r] = p]
      BY <1>3, <2>4 DEF Http!Arrive, q
    <3>2. DOMAIN p = RequestFields /\ Vouched(p) /\ p.stage # "authenticating"
      BY <2>1, <2>4, DispatchVouched DEF ServerInv
    <3> HIDE DEF p
    <3> QED BY <1>2, <3>1, <3>2
  <2> QED BY <2>2, <2>3, <2>4
<1>4. ASSUME NEW r \in Requests, NEW ok \in BOOLEAN, NEW claims \in BOOLEAN,
             NEW given \in Http!Bodies, Http!Authenticated(r, ok, given, claims)
      PROVE  ServerInv'
  <2>1. /\ DOMAIN request[r] = RequestFields /\ Vouched(request[r])
        /\ request[r].stage = "authenticating" /\ request[r].auth = "none"
        /\ mode = "authenticate"
    BY <1>4 DEF ServerInv, RequestsVouched, Http!Authenticated
  <2>2. CASE ok
    <3> DEFINE p == Http!Dispatch(request[r], given, claims)
    <3>1. request' = [request EXCEPT ![r] = p]
      BY <1>4, <2>2 DEF Http!Authenticated
    <3>2. DOMAIN p = RequestFields /\ Vouched(p) /\ p.stage # "authenticating"
      BY <2>1, DispatchVouched DEF ServerInv
    <3> HIDE DEF p
    <3> QED BY <1>2, <3>1, <3>2
  <2>3. CASE ~ok
    <3> DEFINE p == Http!Respond(r, <<401, "UNAUTHORIZED">>)
    <3>1. request' = [request EXCEPT ![r] = p]
      BY <1>4, <2>3 DEF Http!Authenticated
    <3>2. DOMAIN p = RequestFields /\ Vouched(p) /\ p.stage # "authenticating"
      BY <2>1 DEF Http!Respond, RequestFields, Vouched
    <3> HIDE DEF p
    <3> QED BY <1>2, <3>1, <3>2
  <2> QED BY <2>2, <2>3
<1>5. ASSUME NEW r \in Requests, NEW outcome, Http!Used(r, outcome) PROVE ServerInv'
  <2> DEFINE told == Http!Answer(request[r].route, outcome)
             p    == Http!Respond(r, told)
  <2>1. request' = [request EXCEPT ![r] = p]
    BY <1>5 DEF Http!Used
  <2> HIDE DEF told
  <2>2. DOMAIN p = RequestFields /\ Vouched(p) /\ p.stage # "authenticating"
    BY DEF ServerInv, RequestsVouched, Http!Respond, RequestFields, Vouched
  <2> HIDE DEF p
  <2> QED BY <1>2, <2>1, <2>2
<1>6. CASE Http!Start \/ Http!Stop
  BY <1>6, <1>1 DEF Http!Start, Http!Stop, ServerInv, RequestsVouched, Vouched
<1> QED BY <1>3, <1>4, <1>5, <1>6 DEF Http!Next

\* What the node is told of a request's authentication was verified, in every
\* mode and on every route, whatever the client writes into its given.
THEOREM SpecNodeSeesVerifiedAuth == Http!Spec => []NodeSeesVerifiedAuth
<1>1. Http!Init => ServerInv
  BY DEF Http!Init, ServerInv, RequestsVouched, Vouched, Http!Unsent, RequestFields
<1>2. ServerInv /\ [Http!Next]_serverVars => ServerInv'
  BY ServerMoves DEF serverVars, ServerInv, RequestsVouched, Vouched
<1>3. ServerInv => NodeSeesVerifiedAuth
  BY DEF ServerInv, RequestsVouched, Vouched, NodeSeesVerifiedAuth, Http!NodeSeesVerifiedAuth
<1> QED BY <1>1, <1>2, <1>3, PTL DEF Http!Spec, Http!vars, serverVars

-----------------------------------------------------------------------------
(* The choice of a provider.                                               *)

Named(s) == s \in {"savingProvider", "modelling", "keying", "askingKey", "savingKey", "completing"}
Keyed(s) == s \in {"savingKey", "completing"}

\* Prompts that carry the key of the provider they have chosen, from the
\* moment they have one.
OwnKeyed ==
  {q \in [stage : Choice!Stages, provider : Choice!Maybe(Providers),
          key : Choice!Maybe(Providers), model : Choice!Maybe(Providers)] :
     /\ Named(q.stage) => q.provider \in Providers
     /\ Keyed(q.stage) => q.key = q.provider}

\* The slots of the storage hold the keys of the providers they are named
\* after.
KeysAreOwn ==
  /\ preference \in Choice!Maybe(Providers)
  /\ keys \in [Providers -> Choice!Maybe(Providers)]
  /\ \A p \in Providers : keys[p] \in {p, "none"}
  /\ model \in Choice!Maybe(Providers)
  /\ prompt \in [Prompts -> OwnKeyed]
  /\ DOMAIN setting = {"slots", "provider"} /\ setting.provider \in Choice!Maybe(Providers)

\* The row of a variable holds the key of the provider it is looked up for.
LEMMA EnvKeyIsOwn ==
  ASSUME "perplexity" \notin EnvVars \/ "sonar" \notin Providers,
         NEW p \in Providers
  PROVE  Choice!EnvKeyOf(p) \in {p, "none"}
<1>1. ASSUME NEW v \in EnvVars, Choice!RowOf(v) = p PROVE v = p
  BY <1>1 DEF Choice!RowOf
<1> QED BY <1>1 DEF Choice!EnvKeyOf

\* The initial states satisfy the invariant.
LEMMA InitKeys == Choice!Init => KeysAreOwn
BY DEF Choice!Init, KeysAreOwn, OwnKeyed, Choice!Maybe, Choice!Stages, Choice!NoSetting, Named,
       Keyed

\* A prompt that goes on with its own key keeps the invariant.
LEMMA PromptMoves ==
  ASSUME KeysAreOwn, NEW r \in Prompts, NEW q \in OwnKeyed,
         prompt' = [prompt EXCEPT ![r] = q], UNCHANGED Choice!Stored
  PROVE  KeysAreOwn'
BY DEF KeysAreOwn, Choice!Stored

\* Every step of a prompt keeps the invariant.
LEMMA StepKeys ==
  ASSUME "perplexity" \notin EnvVars \/ "sonar" \notin Providers,
         KeysAreOwn, NEW r \in Prompts, Choice!Step(r)
  PROVE  KeysAreOwn'
<1> DEFINE q == prompt[r]
<1> USE ChoiceAssumption DEF Choice!At
<1>q. /\ q \in OwnKeyed /\ prompt \in [Prompts -> OwnKeyed]
      /\ q \in [stage : Choice!Stages, provider : Choice!Maybe(Providers),
                key : Choice!Maybe(Providers), model : Choice!Maybe(Providers)]
  BY DEF KeysAreOwn, OwnKeyed
<1> USE DEF OwnKeyed, Choice!Maybe, Choice!Stages, Named, Keyed
<1>stays. ASSUME NEW s \in {"choosing", "askingProvider", "done", "failed"},
                 Choice!Goes(r, s), UNCHANGED Choice!Stored
          PROVE  KeysAreOwn'
  <2>1. [q EXCEPT !.stage = s] \in OwnKeyed
    BY <1>q
  <2>2. prompt' = [prompt EXCEPT ![r] = [q EXCEPT !.stage = s]]
    BY <1>stays DEF Choice!Goes
  <2> QED BY <1>stays, <2>1, <2>2, PromptMoves
<1>chooses. ASSUME NEW p \in Providers, Choice!Chooses(r, p), UNCHANGED Choice!Stored
            PROVE  KeysAreOwn'
  <2>1. [q EXCEPT !.stage = "modelling", !.provider = p] \in OwnKeyed
    BY <1>q
  <2>2. prompt' = [prompt EXCEPT ![r] = [q EXCEPT !.stage = "modelling", !.provider = p]]
    BY <1>chooses, <1>q DEF Choice!Chooses
  <2> QED BY <1>chooses, <2>1, <2>2, PromptMoves
<1>1. ASSUME NEW p \in Choice!Maybe(Providers), Choice!Prompt(r, p) PROVE KeysAreOwn'
  <2>1. \/ Choice!Goes(r, "choosing") \/ Choice!Goes(r, "failed")
        \/ \E k \in Providers : Choice!Chooses(r, k)
    BY <1>1 DEF Choice!Prompt
  <2>2. UNCHANGED Choice!Stored
    BY <1>1 DEF Choice!Prompt
  <2> QED BY <1>stays, <1>chooses, <2>1, <2>2
<1>2. ASSUME NEW ok \in BOOLEAN, Choice!ReadPreference(r, ok) PROVE KeysAreOwn'
  <2>1. Choice!Goes(r, "askingProvider") \/ \E k \in Providers : Choice!Chooses(r, k)
    BY <1>2 DEF Choice!ReadPreference, KeysAreOwn
  <2>2. UNCHANGED Choice!Stored
    BY <1>2 DEF Choice!ReadPreference
  <2> QED BY <1>stays, <1>chooses, <2>1, <2>2
<1>3. ASSUME NEW ok \in BOOLEAN, Choice!ReadKey(r, ok) PROVE KeysAreOwn'
  <2>1. q.stage = "keying" /\ q.provider \in Providers /\ UNCHANGED Choice!Stored
    BY <1>3, <1>q DEF Choice!ReadKey
  <2>2. Choice!Takes(r, q.provider) \/ Choice!Goes(r, "askingKey")
    <3>1. CASE Choice!EnvKeyOf(q.provider) # "none"
      BY <1>3, <2>1, <3>1, EnvKeyIsOwn DEF Choice!ReadKey
    <3>2. CASE /\ Choice!EnvKeyOf(q.provider) = "none"
               /\ ok /\ keys[Choice!KeySlot(q.provider)] # "none"
      BY <1>3, <2>1, <3>2 DEF Choice!ReadKey, Choice!KeySlot, KeysAreOwn
    <3>3. CASE /\ Choice!EnvKeyOf(q.provider) = "none"
               /\ ~(ok /\ keys[Choice!KeySlot(q.provider)] # "none")
      BY <1>3, <3>3 DEF Choice!ReadKey
    <3> QED BY <3>1, <3>2, <3>3
  <2>3. [q EXCEPT !.stage = "completing", !.key = q.provider] \in OwnKeyed
    BY <1>q, <2>1
  <2>4. [q EXCEPT !.stage = "askingKey"] \in OwnKeyed
    BY <1>q, <2>1
  <2>5. \/ prompt' = [prompt EXCEPT ![r] = [q EXCEPT !.stage = "completing", !.key = q.provider]]
        \/ prompt' = [prompt EXCEPT ![r] = [q EXCEPT !.stage = "askingKey"]]
    BY <1>q, <2>2 DEF Choice!Takes, Choice!Goes
  <2> QED BY <2>1, <2>3, <2>4, <2>5, PromptMoves, ZenonT(40)
<1>4. ASSUME NEW ok \in BOOLEAN, Choice!Completed(r, ok) PROVE KeysAreOwn'
  BY <1>4, <1>stays DEF Choice!Completed
<1>5. ASSUME NEW own \in BOOLEAN, NEW ok \in BOOLEAN, Choice!ReadModel(r, own, ok)
      PROVE  KeysAreOwn'
  <2> DEFINE m == IF own THEN q.provider ELSE IF ok THEN model ELSE "none"
  <2>1. q.stage = "modelling" /\ UNCHANGED Choice!Stored
    BY <1>5 DEF Choice!ReadModel
  <2>2. m \in Choice!Maybe(Providers)
    BY <1>q DEF KeysAreOwn
  <2>3. prompt' = [prompt EXCEPT ![r] = [q EXCEPT !.stage = "keying", !.model = m]]
    BY <1>5, <1>q DEF Choice!ReadModel
  <2> HIDE DEF m
  <2>4. [q EXCEPT !.stage = "keying", !.model = m] \in OwnKeyed
    BY <1>q, <2>1, <2>2
  <2> QED BY <2>1, <2>3, <2>4, PromptMoves
<1>6. ASSUME NEW p \in Providers, Choice!HumanChoosesProvider(r, p) PROVE KeysAreOwn'
  <2>1. [q EXCEPT !.stage = "savingProvider", !.provider = p] \in OwnKeyed
    BY <1>q
  <2>2. prompt' = [prompt EXCEPT ![r] = [q EXCEPT !.stage = "savingProvider", !.provider = p]]
        /\ UNCHANGED Choice!Stored
    BY <1>6, <1>q DEF Choice!HumanChoosesProvider
  <2> QED BY <2>1, <2>2, PromptMoves
<1>7. CASE Choice!ProviderDefaulted(r)
  BY <1>7, <1>chooses DEF Choice!ProviderDefaulted
<1>8. CASE Choice!ProviderSaved(r)
  <2>1. q.provider \in Providers /\ [q EXCEPT !.stage = "modelling"] \in OwnKeyed
    BY <1>8, <1>q DEF Choice!ProviderSaved
  <2>2. prompt' = [prompt EXCEPT ![r] = [q EXCEPT !.stage = "modelling"]]
        /\ preference' = q.provider /\ UNCHANGED <<keys, model, olane, setting>>
    BY <1>8 DEF Choice!ProviderSaved, Choice!Goes
  <2> QED BY <2>1, <2>2 DEF KeysAreOwn
<1>9. CASE Choice!HumanGivesKey(r)
  <2>1. [q EXCEPT !.stage = "savingKey", !.key = q.provider] \in OwnKeyed
    BY <1>9, <1>q DEF Choice!HumanGivesKey
  <2>2. prompt' = [prompt EXCEPT ![r] = [q EXCEPT !.stage = "savingKey", !.key = q.provider]]
        /\ UNCHANGED Choice!Stored
    BY <1>9, <1>q DEF Choice!HumanGivesKey
  <2> QED BY <2>1, <2>2, PromptMoves
<1>10. CASE Choice!KeySaved(r)
  <2>1. /\ q.provider \in Providers /\ q.key = q.provider
        /\ [q EXCEPT !.stage = "completing"] \in OwnKeyed
    BY <1>10, <1>q DEF Choice!KeySaved
  <2>2. /\ prompt' = [prompt EXCEPT ![r] = [q EXCEPT !.stage = "completing"]]
        /\ keys' = [keys EXCEPT ![q.provider] = q.provider]
        /\ UNCHANGED <<preference, model, olane, setting>>
    BY <1>10, <2>1 DEF Choice!KeySaved, Choice!Goes, Choice!KeySlot
  <2> QED BY <2>1, <2>2 DEF KeysAreOwn
<1>11. CASE Choice!KeyFails(r)
  BY <1>11, <1>stays DEF Choice!KeyFails
<1> QED BY <1>1, <1>2, <1>3, <1>4, <1>5, <1>6, <1>7, <1>8, <1>9, <1>10, <1>11 DEF Choice!Step

\* Every step keeps the invariant.
LEMMA NextKeys ==
  ASSUME "perplexity" \notin EnvVars \/ "sonar" \notin Providers,
         KeysAreOwn, [Choice!Next]_Choice!vars
  PROVE  KeysAreOwn'
<1>1. ASSUME NEW slots \in Settings, NEW p \in Providers, Choice!Configure(slots, p)
      PROVE  KeysAreOwn'
  BY <1>1 DEF Choice!Configure, KeysAreOwn, Choice!Maybe
<1>2. CASE Choice!Put \/ Choice!PutFails
  BY <1>2 DEF Choice!Put, Choice!PutFails, KeysAreOwn, Choice!Maybe, Choice!NoSetting
<1>3. CASE UNCHANGED Choice!vars
  BY <1>3 DEF Choice!vars, KeysAreOwn
<1> QED BY <1>1, <1>2, <1>3, StepKeys DEF Choice!Next

\* Whatever prompts, answers of humans and settings interleave, a provider is
\* only sent the API key it issued - unless the key of Perplexity is in the
\* environment and a human names "sonar", the row it is kept in, a provider.
THEOREM SpecKeyGoesToItsProvider ==
  ASSUME "perplexity" \notin EnvVars \/ "sonar" \notin Providers
  PROVE  Choice!Spec => []KeyGoesToItsProvider
<1>1. KeysAreOwn /\ [Choice!Next]_Choice!vars => KeysAreOwn'
  BY NextKeys
<1>2. KeysAreOwn => KeyGoesToItsProvider
  BY DEF KeysAreOwn, OwnKeyed, Keyed, KeyGoesToItsProvider, Choice!KeyGoesToItsProvider, Choice!At
<1> QED BY InitKeys, <1>1, <1>2, PTL DEF Choice!Spec

-----------------------------------------------------------------------------
(* The providers of models.                                                *)

\* What Providers takes from the libraries is what this module takes from them.
LEMMA ModelsLibrary ==
  /\ \A q : Models!Last(q) = Last(q) /\ Models!Range(q) = Range(q)
  /\ \A q : Models!FlattenSeq(q) = FlattenSeq(q)
  /\ \A q, S : Models!Filter(q, S) = Filter(q, S)
  /\ \A q, r : Models!IsPrefix(q, r) = IsPrefix(q, r)
<1>1. \A q : Models!Last(q) = Last(q) /\ Models!Range(q) = Range(q)
  BY DEF Models!Last, Last, Models!Range, Range
<1>2. \A q, S : Models!Filter(q, S) = Filter(q, S)
  BY Zenon DEF Models!Filter, Filter
<1>3. \A q : Models!FlattenSeq(q) = FlattenSeq(q)
  BY Zenon DEF Models!FlattenSeq, FlattenSeq
<1>4. \A q, r : Models!IsPrefix(q, r) = IsPrefix(q, r)
  BY Zenon DEF Models!IsPrefix, IsPrefix
<1> QED BY <1>1, <1>2, <1>3, <1>4

\* What may be sent as a chunk: the fields of the events, and errors.
Words == {"delta", "message_start", "message_delta", "finish_reason", "usage", "done",
          "citations", "images", "related_questions", "error"}

\* What a handler passes on are such words.
LEMMA HandlersYieldWords ==
  /\ Models!AnthropicStatus \in Models!Handlers
  /\ \A h \in Models!Handlers : h.yields \in Seq(Words)
<1>1. {Models!AnthropicEvent, Models!OpenAIEvent, Models!GeminiEvent, Models!OllamaEvent,
       Models!PerplexityEvent, Models!GrokEvent, <<>>} \subseteq Seq(Words)
  BY DEF Models!AnthropicEvent, Models!OpenAIEvent, Models!GeminiEvent, Models!OllamaEvent,
         Models!PerplexityEvent, Models!GrokEvent, Words
<1>2. /\ Models!AnthropicCompletion.yields = <<>>
      /\ Models!AnthropicGenerate.yields = <<>>
      /\ Models!AnthropicListModels.yields = <<>>
      /\ Models!AnthropicModelInfo.yields = <<>>
      /\ Models!AnthropicStatus.yields = <<>>
      /\ Models!AnthropicStreamCompletion.yields = Models!AnthropicEvent
      /\ Models!AnthropicStreamGenerate.yields = Models!AnthropicEvent
  BY DEF Models!Handler, Models!Streaming,
         Models!AnthropicCompletion, Models!AnthropicGenerate,
         Models!AnthropicListModels, Models!AnthropicModelInfo, Models!AnthropicStatus,
         Models!AnthropicStreamCompletion, Models!AnthropicStreamGenerate
<1>3. /\ Models!OpenAICompletion.yields = <<>>
      /\ Models!OpenAIGenerate.yields = <<>>
      /\ Models!OpenAIListModels.yields = <<>>
      /\ Models!OpenAIModelInfo.yields = <<>>
      /\ Models!OpenAIStatus.yields = <<>>
      /\ Models!OpenAIEmbedDocuments.yields = <<>>
      /\ Models!OpenAIEmbedQuery.yields = <<>>
      /\ Models!OpenAIGenerateImage.yields = <<>>
      /\ Models!OpenAIStreamCompletion.yields = Models!OpenAIEvent
      /\ Models!OpenAIStreamGenerate.yields = Models!OpenAIEvent
  BY DEF Models!Handler, Models!Streaming,
         Models!OpenAICompletion, Models!OpenAIGenerate, Models!OpenAIListModels,
         Models!OpenAIModelInfo, Models!OpenAIStatus, Models!OpenAIEmbedDocuments,
         Models!OpenAIEmbedQuery, Models!OpenAIGenerateImage,
         Models!OpenAIStreamCompletion, Models!OpenAIStreamGenerate
<1>4. /\ Models!GeminiCompletion.yields = <<>>
      /\ Models!GeminiGenerate.yields = <<>>
      /\ Models!GeminiListModels.yields = <<>>
      /\ Models!GeminiModelInfo.yields = <<>>
      /\ Models!GeminiStatus.yields = <<>>
      /\ Models!GeminiGenerateImage.yields = <<>>
      /\ Models!GeminiEditImage.yields = <<>>
      /\ Models!GeminiStreamCompletion.yields = Models!GeminiEvent
      /\ Models!GeminiStreamGenerate.yields = Models!GeminiEvent
  BY DEF Models!Handler, Models!Streaming,
         Models!GeminiCompletion, Models!GeminiGenerate, Models!GeminiListModels,
         Models!GeminiModelInfo, Models!GeminiStatus, Models!GeminiGenerateImage,
         Models!GeminiEditImage, Models!GeminiStreamCompletion,
         Models!GeminiStreamGenerate
<1>5. /\ Models!OllamaCompletion.yields = <<>>
      /\ Models!OllamaGenerate.yields = <<>>
      /\ Models!OllamaListModels.yields = <<>>
      /\ Models!OllamaPullModel.yields = <<>>
      /\ Models!OllamaDeleteModel.yields = <<>>
      /\ Models!OllamaModelInfo.yields = <<>>
      /\ Models!OllamaStatus.yields = <<>>
      /\ Models!OllamaStreamCompletion.yields = Models!OllamaEvent
      /\ Models!OllamaStreamGenerate.yields = Models!OllamaEvent
  BY DEF Models!Handler, Models!Streaming,
         Models!OllamaCompletion, Models!OllamaGenerate, Models!OllamaListModels,
         Models!OllamaPullModel, Models!OllamaDeleteModel, Models!OllamaModelInfo,
         Models!OllamaStatus, Models!OllamaStreamCompletion,
         Models!OllamaStreamGenerate
<1>6. /\ Models!PerplexityCompletion.yields = <<>>
      /\ Models!PerplexityGenerate.yields = <<>>
      /\ Models!PerplexityListModels.yields = <<>>
      /\ Models!PerplexitySearch.yields = <<>>
      /\ Models!PerplexityStatus.yields = <<>>
      /\ Models!PerplexityStreamCompletion.yields = Models!PerplexityEvent
      /\ Models!PerplexityStreamGenerate.yields = Models!PerplexityEvent
  BY DEF Models!Handler, Models!Streaming,
         Models!PerplexityCompletion, Models!PerplexityGenerate,
         Models!PerplexityListModels, Models!PerplexitySearch, Models!PerplexityStatus,
         Models!PerplexityStreamCompletion, Models!PerplexityStreamGenerate
<1>7. /\ Models!GrokCompletion.yields = <<>>
      /\ Models!GrokGenerate.yields = <<>>
      /\ Models!GrokListModels.yields = <<>>
      /\ Models!GrokModelInfo.yields = <<>>
      /\ Models!GrokStatus.yields = <<>>
      /\ Models!GrokStreamCompletion.yields = Models!GrokEvent
      /\ Models!GrokStreamGenerate.yields = Models!GrokEvent
  BY DEF Models!Handler, Models!Streaming,
         Models!GrokCompletion, Models!GrokGenerate, Models!GrokListModels,
         Models!GrokModelInfo, Models!GrokStatus, Models!GrokStreamCompletion,
         Models!GrokStreamGenerate
<1>8. ASSUME NEW h \in Models!Handlers PROVE h.yields \in Seq(Words)
  BY <1>1, <1>2, <1>3, <1>4, <1>5, <1>6, <1>7, ZenonT(40) DEF Models!Handlers
<1>9. Models!AnthropicStatus \in Models!Handlers
  BY DEF Models!Handlers
<1> QED BY <1>8, <1>9

\* However the fields of an event are chosen, its chunks are words.
LEMMA YieldsAreWords ==
  ASSUME NEW h \in Models!Handlers, NEW e
  PROVE  Models!Yields(h, e) \in Seq(Words)
<1> DEFINE ys == Filter(h.yields, e)
<1>1. ys \in Seq(Words)
  BY HandlersYieldWords, FilterType
<1>2. Models!Yields(h, e) = IF h.single /\ ys # <<>> THEN <<Head(ys)>> ELSE ys
  BY ModelsLibrary DEF Models!Yields
<1> HIDE DEF ys
<1>3. ys # <<>> => <<Head(ys)>> \in Seq(Words)
  BY <1>1, HeadTailProperties
<1> QED BY <1>1, <1>2, <1>3

-----------------------------------------------------------------------------
(* The pieces of a body.                                                   *)

\* The pieces that are there when those of the first k lines are done with
\* and m more were read.
Pieces(k, m) == [i \in 1..m |-> 2 * k + i]

\* The lines k + 1 to k + m.
LinesAfter(k, m) == [i \in 1..m |-> k + i]

\* Lines and pieces are numbered through.
LEMMA LinesAreNumbers ==
  ASSUME NEW k \in Nat, NEW m \in Nat
  PROVE  /\ LinesAfter(k, m) \in Seq(Nat) /\ Len(LinesAfter(k, m)) = m
         /\ Pieces(k, m) \in Seq(Nat) /\ Len(Pieces(k, m)) = m
         /\ \A i \in 1..m : LinesAfter(k, m)[i] = k + i /\ Pieces(k, m)[i] = 2 * k + i
BY DEF LinesAfter, Pieces

\* Every second piece ends a line.
LEMMA EndsOfPieces ==
  ASSUME NEW k \in Nat, NEW m \in Nat
  PROVE  Models!Ends(Pieces(k, m)) = [i \in 1..(m \div 2) |-> 2 * (k + i)]
<1> DEFINE Even    == {p \in Nat : p % 2 = 0}
           Are(n)  == [i \in 1..(n \div 2) |-> 2 * (k + i)]
           Bad     == {n \in Nat : Filter(Pieces(k, n), Even) # Are(n)}
<1>1. Bad = {}
  <2> SUFFICES ASSUME Bad # {} PROVE FALSE
    OBVIOUS
  <2>1. PICK n \in Bad : \A j \in Bad : n <= j
    <3>1. Bad \in SUBSET Nat
      OBVIOUS
    <3> HIDE DEF Bad
    <3> QED BY <3>1, Smallest
  <2>2. CASE n = 0
    <3>1. Pieces(k, 0) = <<>> /\ Are(0) = <<>>
      BY DEF Pieces
    <3> QED BY <2>1, <2>2, <3>1, FilterEmpty
  <2>3. CASE n # 0
    <3> DEFINE p == n - 1
               q == Pieces(k, p)
    <3>1. p \in Nat /\ n = p + 1 /\ n \in Nat /\ p < n
      BY <2>1, <2>3
    <3>2. Filter(q, Even) = Are(p)
      <4>1. p \notin Bad
        <5> HIDE DEF Bad
        <5>1. p \in Bad => n <= p
          BY <2>1
        <5> HIDE DEF p
        <5> QED BY <3>1, <5>1
      <4> HIDE DEF p, Are
      <4> QED BY <3>1, <4>1
    <3> HIDE DEF Even, Bad, p
    <3>3. q \in Seq(Nat) /\ 2 * k + n \in Nat
      BY <3>1, LinesAreNumbers
    <3>4. Pieces(k, n) = Append(q, 2 * k + n)
      BY <3>1 DEF Pieces
    <3> HIDE DEF q, Are
    <3>5. Filter(Pieces(k, n), Even) =
            IF 2 * k + n \in Even THEN Append(Are(p), 2 * k + n) ELSE Are(p)
      <4>1. \A e \in Nat : Filter(Append(q, e), Even)
                            = IF e \in Even THEN Append(Filter(q, Even), e) ELSE Filter(q, Even)
        BY <3>3, FilterAppend
      <4> QED BY <3>2, <3>3, <3>4, <4>1, Zenon
    <3>6. 2 * k + n \in Even <=> n % 2 = 0
      BY <3>1, <3>3 DEF Even
    <3>7. CASE n % 2 = 0
      <4>1. n \div 2 = (p \div 2) + 1 /\ 2 * (k + n \div 2) = 2 * k + n
        BY <3>1, <3>7
      <4>2. p \div 2 \in Nat
        BY <3>1
      <4>3. Append(Are(p), 2 * k + n) = Are(n)
        BY <4>1, <4>2 DEF Are
      <4> QED BY <2>1, <3>5, <3>6, <3>7, <4>3 DEF Bad
    <3>8. CASE n % 2 # 0
      <4>1. n \div 2 = p \div 2
        BY <3>1, <3>8
      <4>2. Are(n) = Are(p)
        BY <4>1 DEF Are
      <4> QED BY <2>1, <3>5, <3>6, <3>8, <4>2 DEF Bad
    <3> QED BY <3>7, <3>8
  <2> QED BY <2>2, <2>3
<1>2. Filter(Pieces(k, m), Even) = Are(m)
  BY <1>1
<1> QED BY <1>2, ModelsLibrary DEF Models!Ends

\* No line loses a piece, so all of them parse.
LEMMA ParsedPieces ==
  ASSUME NEW k \in Nat, NEW m \in Nat
  PROVE  Models!Parsed(Pieces(k, m)) = LinesAfter(k, m \div 2)
<1> DEFINE s == Pieces(k, m)
           j == m \div 2
           S == {l \in Nat : 2 * l - 1 \in Range(s)}
<1>1. j \in Nat /\ 2 * j <= m
  OBVIOUS
<1>2. Models!Lines(s) = LinesAfter(k, j)
  <2>1. Models!Ends(s) = [i \in 1..j |-> 2 * (k + i)]
    BY EndsOfPieces
  <2> HIDE DEF j, s
  <2>2. \A i \in 1..j : (2 * (k + i)) \div 2 = k + i
    BY <1>1
  <2> QED BY <1>1, <2>1, <2>2 DEF Models!Lines, LinesAfter
<1>3. LinesAfter(k, j) \in Seq(S)
  <2>1. ASSUME NEW i \in 1..j PROVE k + i \in S
    <3>1. 2 * i - 1 \in 1..m /\ 2 * k + (2 * i - 1) = 2 * (k + i) - 1
      BY <1>1
    <3>2. s[2 * i - 1] = 2 * (k + i) - 1 /\ 2 * i - 1 \in DOMAIN s
      BY <3>1 DEF Pieces
    <3>3. 2 * (k + i) - 1 \in Range(s)
      BY <3>2 DEF Range
    <3> QED BY <3>3
  <2> HIDE DEF S, j
  <2> QED BY <1>1, <2>1 DEF LinesAfter
<1>4. Filter(LinesAfter(k, j), S) = LinesAfter(k, j)
  BY <1>3, FilterAll
<1> QED BY <1>2, <1>4, ModelsLibrary DEF Models!Parsed

\* What awaits its newline when r pieces were read.
Waiting(r) == IF r % 2 = 1 THEN <<r>> ELSE <<>>

\* A read of n pieces completes the lines whose second piece is among them,
\* and leaves what the next read needs.
LEMMA ReadPieces ==
  ASSUME NEW r \in Nat, NEW n \in Nat \ {0}
  PROVE  LET s == Waiting(r) \o [i \in 1..n |-> r + i]
         IN  /\ Models!Parsed(s) = LinesAfter(r \div 2, (r + n) \div 2 - r \div 2)
             /\ Models!Rest(s) = Waiting(r + n)
<1> DEFINE s == Waiting(r) \o [i \in 1..n |-> r + i]
           k == r \div 2
           m == (r % 2) + n
<1>1. /\ k \in Nat /\ m \in Nat /\ m # 0 /\ r = 2 * k + (r % 2) /\ r % 2 \in {0, 1}
      /\ m \div 2 = (r + n) \div 2 - k /\ 2 * k + m = r + n
  OBVIOUS
<1>2. s = Pieces(k, m)
  <2> DEFINE a == [i \in 1..n |-> r + i]
  <2>a. a \in Seq(Nat) /\ Len(a) = n /\ \A i \in 1..n : a[i] = r + i
    OBVIOUS
  <2>b. Pieces(k, m) \in Seq(Nat) /\ Len(Pieces(k, m)) = m
        /\ \A i \in 1..m : Pieces(k, m)[i] = 2 * k + i
    BY <1>1, LinesAreNumbers
  <2>1. CASE r % 2 = 1
    <3>1. 2 * k + 1 = r /\ m = n + 1
      BY <1>1, <2>1
    <3>2. s = <<r>> \o a
      BY <2>1 DEF Waiting
    <3>3. <<r>> \in Seq(Nat) /\ Len(<<r>>) = 1 /\ <<r>>[1] = r
      OBVIOUS
    <3> HIDE DEF k, m, s, a
    <3>4. s \in Seq(Nat) /\ Len(s) = m /\ \A i \in 1..m : s[i] = 2 * k + i
      <4>1. /\ s \in Seq(Nat) /\ Len(s) = 1 + n
            /\ \A i \in 1..(1 + n) : s[i] = IF i <= 1 THEN <<r>>[i] ELSE a[i - 1]
        BY <2>a, <3>2, <3>3, ConcatProperties
      <4>2. ASSUME NEW i \in 1..m PROVE s[i] = 2 * k + i
        <5>1. CASE i = 1
          BY <3>1, <3>3, <4>1, <5>1
        <5>2. CASE i # 1
          <6>1. i - 1 \in 1..n /\ ~(i <= 1) /\ i \in 1..(1 + n)
            BY <1>1, <3>1, <5>2
          <6>2. s[i] = a[i - 1] /\ a[i - 1] = r + (i - 1)
            BY <2>a, <4>1, <6>1
          <6> QED BY <1>1, <3>1, <6>1, <6>2
        <5> QED BY <5>1, <5>2
      <4> QED BY <1>1, <3>1, <4>1, <4>2
    <3> QED BY <2>b, <3>4, SeqEqual
  <2>2. CASE r % 2 = 0
    <3>1. 2 * k = r /\ m = n
      BY <1>1, <2>2
    <3>2. s = <<>> \o a
      BY <2>2 DEF Waiting
    <3> HIDE DEF k, m, s, a
    <3>3. s = a
      BY <2>a, <3>2, ConcatEmptySeq
    <3> QED BY <1>1, <2>a, <2>b, <3>1, <3>3, SeqEqual, SMTT(40)
  <2> QED BY <1>1, <2>1, <2>2
<1>3. Models!Parsed(s) = LinesAfter(k, m \div 2)
  BY <1>1, <1>2, ParsedPieces
<1>4. Models!Rest(s) = Waiting(r + n)
  <2> HIDE DEF k, m, s
  <2>1. /\ s \in Seq(Nat) /\ Len(s) = m /\ s[m] = r + n
    <3>1. m \in 1..m
      BY <1>1
    <3> QED BY <1>1, <1>2, <3>1, LinesAreNumbers
  <2>2. s # <<>> /\ Last(s) = r + n
    BY <1>1, <2>1 DEF Last
  <2> QED BY <2>2, ModelsLibrary DEF Models!Rest, Waiting
<1> QED BY <1>1, <1>3, <1>4

-----------------------------------------------------------------------------
(* One call.                                                               *)

\* What the first l lines of the body yield.
Whole(l) == [i \in 1..l |-> Models!Yields(handler, body[i])]

Ended == {"success", "error"}

\* What a call has done so far, besides what it told.
CallInv ==
  /\ handler \in Models!Handlers
  /\ Len(body) \in Nat /\ DOMAIN body = 1..Len(body)
  /\ read \in 0..2 * Len(body)
  /\ buffer = Waiting(read)
  /\ chunks \in Seq(Words) /\ lost \in BOOLEAN
  /\ stage \in {"idle", "fetching"} => read = 0 /\ chunks = <<>> /\ text = <<>> /\ ~lost

\* The chunks are those of the lines read, up to the first that was lost, and
\* after the end perhaps one more; the text is of all the lines read.
Told ==
  /\ lost => \E u \in Seq(Words) : FlattenSeq(Whole(read \div 2)) = chunks \o u
  /\ ~lost => \/ chunks = FlattenSeq(Whole(read \div 2))
              \/ stage \in Ended /\ chunks = Append(FlattenSeq(Whole(read \div 2)), "error")
  /\ text = Filter(LinesAfter(0, read \div 2), Models!Deltas)

ProvidersInv == CallInv /\ (Models!EndIsLast => Told)

\* What lines yield is words.
LEMMA WholeIsWords ==
  ASSUME NEW l \in Nat, handler \in Models!Handlers
  PROVE  /\ Whole(l) \in Seq(Seq(Words)) /\ Len(Whole(l)) = l
         /\ FlattenSeq(Whole(l)) \in Seq(Words)
<1>1. Whole(l) \in Seq(Seq(Words)) /\ Len(Whole(l)) = l
  BY YieldsAreWords DEF Whole
<1> QED BY <1>1, FlattenType

\* Before anything was read.
LEMMA NothingRead ==
  /\ Whole(0) = <<>> /\ LinesAfter(0, 0) = <<>> /\ Waiting(0) = <<>> /\ 0 \div 2 = 0
  /\ FlattenSeq(Whole(0)) = <<>>
  /\ \A S : Filter(LinesAfter(0, 0), S) = <<>>
<1>1. Whole(0) = <<>> /\ LinesAfter(0, 0) = <<>>
  BY DEF Whole, LinesAfter
<1> QED BY <1>1, FlattenEmpty, FilterEmpty DEF Waiting

\* The initial states satisfy the invariant.
LEMMA ProvidersInitInv == Models!Init => ProvidersInv
<1> SUFFICES ASSUME Models!Init PROVE ProvidersInv
  OBVIOUS
<1>1. /\ read = 0 /\ buffer = <<>> /\ chunks = <<>> /\ text = <<>> /\ Len(body) = 0
      /\ DOMAIN body = 1..Len(body) /\ stage = "idle" /\ lost = FALSE /\ handler = Models!AnthropicStatus
  BY DEF Models!Init
<1>2. <<>> \in Seq(Words)
  OBVIOUS
<1>3. CallInv
  <2>1. handler \in Models!Handlers
    BY <1>1, HandlersYieldWords
  <2>2. 0 \in Nat /\ 0 \in 0..2 * 0
    OBVIOUS
  <2> QED BY <1>1, <1>2, <2>1, <2>2, NothingRead, Zenon DEF CallInv
<1>4. Told
  BY <1>1, NothingRead, Zenon DEF Told
<1> QED BY <1>3, <1>4 DEF ProvidersInv

-----------------------------------------------------------------------------
(* Chunks are sent.                                                        *)

\* Chunks are sent one part after the other.
LEMMA WordsAssociate == \A s, t, u \in Seq(Words) : (s \o t) \o u = s \o (t \o u)
BY ConcatAssociative

\* What is sent is the new chunks up to the first that is lost.
LEMMA SendKeeps ==
  ASSUME chunks \in Seq(Words), lost \in BOOLEAN, NEW new \in Seq(Words), Models!Send(new)
  PROVE  /\ chunks' \in Seq(Words) /\ lost' \in BOOLEAN
         /\ lost => lost' /\ chunks' = chunks
         /\ lost' => \E u \in Seq(Words) : chunks \o new = chunks' \o u
         /\ ~lost' => chunks' = chunks \o new
<1>1. Len(new) \in Nat
  BY LenProperties
<1>2. PICK k \in 0..Len(new) : /\ lost => k = 0
                               /\ chunks' = chunks \o SubSeq(new, 1, k)
                               /\ lost' = (lost \/ k < Len(new))
  BY DEF Models!Send
<1> DEFINE a == SubSeq(new, 1, k)
           b == SubSeq(new, k + 1, Len(new))
<1>3. a \in Seq(Words) /\ b \in Seq(Words)
  <2>1. 1 \in Int /\ k \in Int /\ k + 1 \in Int /\ Len(new) \in Int
    BY <1>1
  <2>2. \A i \in 1..Len(new) : new[i] \in Words
    OBVIOUS
  <2>3. (\A i \in 1..k : new[i] \in Words) /\ (\A i \in (k + 1)..Len(new) : new[i] \in Words)
    BY <1>1, <2>2
  <2> QED BY <2>1, <2>3, SubSeqProperties
<1>4. a \o b = new
  <2>1. 1 \in 1..(Len(new) + 1) /\ k \in (1 - 1)..Len(new) /\ Len(new) \in k..Len(new)
    BY <1>1
  <2>2. a \o b = SubSeq(new, 1, Len(new))
    BY <2>1, ConcatAdjacentSubSeq
  <2> QED BY <2>2, SubSeqFull
<1>5. k = 0 => a = <<>>
  BY SubSeqEmpty
<1>6. k = Len(new) => a = new
  BY SubSeqFull
<1> HIDE DEF a, b
<1>7. chunks' = chunks \o a /\ chunks' \in Seq(Words) /\ lost' \in BOOLEAN
  BY <1>2, <1>3, ConcatProperties DEF a
<1>8. chunks \o new = chunks' \o b
  <2>1. (chunks \o a) \o b = chunks \o (a \o b)
    BY <1>3, WordsAssociate
  <2> QED BY <1>4, <1>7, <2>1
<1>9. ASSUME lost PROVE lost' /\ chunks' = chunks
  BY <1>2, <1>5, <1>7, <1>9, ConcatEmptySeq
<1>10. ASSUME ~lost' PROVE chunks' = chunks \o new
  <2>1. ~(k < Len(new))
    BY <1>2, <1>10, Zenon
  <2>2. k = Len(new)
    BY <1>1, <2>1
  <2> QED BY <1>6, <1>7, <2>2
<1> QED BY <1>3, <1>7, <1>8, <1>9, <1>10

\* An error is one chunk: it is sent or not.
LEMMA ErrorSent ==
  ASSUME chunks \in Seq(Words), lost \in BOOLEAN, Models!Send(<<"error">>)
  PROVE  /\ chunks' \in Seq(Words) /\ lost' \in BOOLEAN
         /\ lost => lost'
         /\ lost' => chunks' = chunks
         /\ ~lost' => chunks' = Append(chunks, "error")
<1>1. "error" \in Words /\ <<"error">> \in Seq(Words) /\ Len(<<"error">>) = 1
  BY DEF Words
<1>2. /\ chunks' \in Seq(Words) /\ lost' \in BOOLEAN /\ (lost => lost')
      /\ ~lost' => chunks' = chunks \o <<"error">>
  BY <1>1, SendKeeps
<1>3. chunks \o <<"error">> = Append(chunks, "error")
  BY <1>1, AppendIsConcat
<1>4. ASSUME lost' PROVE chunks' = chunks
  <2>1. PICK k \in 0..1 : /\ lost => k = 0
                          /\ chunks' = chunks \o SubSeq(<<"error">>, 1, k)
                          /\ lost' = (lost \/ k < 1)
    BY <1>1 DEF Models!Send
  <2>2. k = 0
    BY <1>4, <2>1
  <2>3. SubSeq(<<"error">>, 1, 0) = <<>>
    BY SubSeqEmpty
  <2> QED BY <2>1, <2>2, <2>3, ConcatEmptySeq
<1>5. chunks' \in Seq(Words) /\ lost' \in BOOLEAN /\ (lost => lost')
  BY <1>2, Zenon
<1>6. ~lost' => chunks' = Append(chunks, "error")
  BY <1>2, <1>3
<1> QED BY <1>4, <1>5, <1>6, Zenon

-----------------------------------------------------------------------------
(* Ends of a call.                                                         *)

\* What a call ends with, and nothing else, changes.
LEMMA EndKeepsCall ==
  ASSUME CallInv, UNCHANGED <<handler, body, read, buffer, text>>,
         chunks' \in Seq(Words), lost' \in BOOLEAN, stage' \notin {"idle", "fetching"}
  PROVE  /\ CallInv' /\ Whole(read \div 2)' = Whole(read \div 2)
         /\ Models!EndIsLast' = Models!EndIsLast /\ Models!Deltas' = Models!Deltas
BY DEF CallInv, Whole, Models!Deltas, Models!Yields, Models!EndIsLast

\* A refusal keeps the invariant.
LEMMA RefuseKept ==
  ASSUME ProvidersInv, Models!Refuse, stage \notin Ended
  PROVE  ProvidersInv'
<1> DEFINE said == FlattenSeq(Whole(read \div 2))
<1>0. chunks \in Seq(Words) /\ lost \in BOOLEAN
  BY DEF ProvidersInv, CallInv
<1>1. UNCHANGED <<handler, body, read, buffer, text>>
  BY DEF Models!Refuse
<1>2. /\ stage' \in Ended /\ chunks' \in Seq(Words) /\ lost' \in BOOLEAN /\ (lost => lost')
      /\ lost' => chunks' = chunks
      /\ ~lost' => chunks' = chunks \/ chunks' = Append(chunks, "error")
  <2>1. CASE Models!Streams(handler)
    BY <1>0, <2>1, ErrorSent DEF Models!Refuse, Models!Refusal, Ended
  <2>2. CASE ~Models!Streams(handler)
    BY <1>0, <2>2 DEF Models!Refuse, Models!Refusal, Ended
  <2> QED BY <2>1, <2>2
<1>3. /\ CallInv' /\ said' = said /\ Models!EndIsLast' = Models!EndIsLast
      /\ Models!Deltas' = Models!Deltas
  BY <1>1, <1>2, EndKeepsCall DEF ProvidersInv, Ended
<1>4. ASSUME Models!EndIsLast PROVE Told'
  <2>1. /\ lost => \E u \in Seq(Words) : said = chunks \o u
        /\ ~lost => chunks = said
        /\ text = Filter(LinesAfter(0, read \div 2), Models!Deltas)
    BY <1>4 DEF ProvidersInv, Told
  <2>2. <<>> \in Seq(Words) /\ chunks \o <<>> = chunks
    BY <1>0, ConcatEmptySeq
  <2> HIDE DEF said
  <2>3. \E u \in Seq(Words) : said = chunks \o u
    BY <1>0, <2>1, <2>2
  <2>4. lost' => \E u \in Seq(Words) : said = chunks' \o u
    BY <1>2, <2>3
  <2>5. ~lost' => chunks' = said \/ chunks' = Append(said, "error")
    BY <1>0, <1>2, <2>1
  <2> QED BY <1>1, <1>2, <1>3, <2>1, <2>4, <2>5 DEF Told, said
<1> QED BY <1>3, <1>4 DEF ProvidersInv

\* So does an end without another chunk.
LEMMA FinishKept ==
  ASSUME ProvidersInv, NEW how \in Ended, Models!Finish(how), UNCHANGED <<chunks, lost>>,
         stage \notin Ended
  PROVE  ProvidersInv'
<1>1. UNCHANGED <<handler, body, read, buffer, text>> /\ stage' = how
  BY DEF Models!Finish
<1>2. /\ CallInv' /\ Whole(read \div 2)' = Whole(read \div 2)
      /\ Models!EndIsLast' = Models!EndIsLast /\ Models!Deltas' = Models!Deltas
  <2>1. chunks' \in Seq(Words) /\ lost' \in BOOLEAN
    BY DEF ProvidersInv, CallInv
  <2> QED BY <1>1, <2>1, EndKeepsCall DEF ProvidersInv, Ended
<1>3. Models!EndIsLast => Told'
  BY <1>1, <1>2 DEF ProvidersInv, Told
<1> QED BY <1>2, <1>3 DEF ProvidersInv

-----------------------------------------------------------------------------
(* The body is read.                                                       *)

\* What j more lines yield comes after what the first k yielded.
LEMMA WholeGrows ==
  ASSUME NEW k \in Nat, NEW j \in Nat, handler \in Models!Handlers
  PROVE  LET more == [i \in 1..j |-> Models!Yields(handler, body[k + i])]
         IN  more \in Seq(Seq(Words)) /\ Whole(k + j) = Whole(k) \o more
<1> DEFINE more == [i \in 1..j |-> Models!Yields(handler, body[k + i])]
<1>1. /\ more \in Seq(Seq(Words)) /\ Len(more) = j
      /\ \A i \in 1..j : more[i] = Models!Yields(handler, body[k + i])
  BY YieldsAreWords
<1>2. /\ Whole(k) \in Seq(Seq(Words)) /\ Len(Whole(k)) = k
      /\ Whole(k + j) \in Seq(Seq(Words)) /\ Len(Whole(k + j)) = k + j
      /\ \A i \in 1..k : Whole(k)[i] = Models!Yields(handler, body[i])
      /\ \A i \in 1..(k + j) : Whole(k + j)[i] = Models!Yields(handler, body[i])
  <2>1. k + j \in Nat
    OBVIOUS
  <2>2. /\ Whole(k) \in Seq(Seq(Words)) /\ Len(Whole(k)) = k
        /\ Whole(k + j) \in Seq(Seq(Words)) /\ Len(Whole(k + j)) = k + j
    BY <2>1, WholeIsWords
  <2> QED BY <2>1, <2>2 DEF Whole
<1> HIDE DEF more
<1>3. /\ Whole(k) \o more \in Seq(Seq(Words)) /\ Len(Whole(k) \o more) = k + j
      /\ \A i \in 1..(k + j) :
           (Whole(k) \o more)[i] = IF i <= k THEN Whole(k)[i] ELSE more[i - k]
  <2> DEFINE w == Whole(k)
  <2>1. w \in Seq(Seq(Words)) /\ Len(w) = k
    BY <1>2
  <2> HIDE DEF w
  <2>2. /\ w \o more \in Seq(Seq(Words)) /\ Len(w \o more) = k + j
        /\ \A i \in 1..(k + j) : (w \o more)[i] = IF i <= k THEN w[i] ELSE more[i - k]
    BY <1>1, <2>1, ConcatProperties
  <2> QED BY <2>2 DEF w
<1>4. ASSUME NEW i \in 1..(k + j) PROVE Whole(k + j)[i] = (Whole(k) \o more)[i]
  <2>1. CASE i <= k
    BY <1>2, <1>3, <2>1
  <2>2. CASE ~(i <= k)
    <3>1. i - k \in 1..j /\ k + (i - k) = i
      BY <2>2
    <3>2. more[i - k] = Models!Yields(handler, body[i])
      BY <1>1, <3>1
    <3> QED BY <1>2, <1>3, <2>2, <3>2
  <2> QED BY <2>1, <2>2
<1>5. Whole(k + j) = Whole(k) \o more
  BY <1>2, <1>3, <1>4, SeqEqual
<1> QED BY <1>1, <1>5 DEF more

\* More lines are the lines before and the new ones.
LEMMA LinesGrow ==
  ASSUME NEW k \in Nat, NEW j \in Nat
  PROVE  LinesAfter(0, k + j) = LinesAfter(0, k) \o LinesAfter(k, j)
<1> DEFINE a == LinesAfter(0, k)
           b == LinesAfter(k, j)
           c == LinesAfter(0, k + j)
<1>1. /\ a \in Seq(Nat) /\ Len(a) = k /\ \A i \in 1..k : a[i] = i
      /\ b \in Seq(Nat) /\ Len(b) = j /\ \A i \in 1..j : b[i] = k + i
      /\ c \in Seq(Nat) /\ Len(c) = k + j /\ \A i \in 1..(k + j) : c[i] = i
  <2>1. /\ 0 \in Nat /\ k + j \in Nat
        /\ \A i \in 1..k : 0 + i = i
        /\ \A i \in 1..(k + j) : 0 + i = i
    OBVIOUS
  <2>2. a \in Seq(Nat) /\ Len(a) = k /\ \A i \in 1..k : a[i] = 0 + i
    BY <2>1, LinesAreNumbers
  <2>3. b \in Seq(Nat) /\ Len(b) = j /\ \A i \in 1..j : b[i] = k + i
    BY LinesAreNumbers
  <2>4. c \in Seq(Nat) /\ Len(c) = k + j /\ \A i \in 1..(k + j) : c[i] = 0 + i
    BY <2>1, LinesAreNumbers
  <2> HIDE DEF a, b, c
  <2> QED BY <2>1, <2>2, <2>3, <2>4
<1> HIDE DEF a, b, c
<1>2. /\ a \o b \in Seq(Nat) /\ Len(a \o b) = k + j
      /\ \A i \in 1..(k + j) : (a \o b)[i] = IF i <= k THEN a[i] ELSE b[i - k]
  BY <1>1, ConcatProperties, SMTT(40)
<1>3. ASSUME NEW i \in 1..(k + j) PROVE c[i] = (a \o b)[i]
  <2>1. CASE i <= k
    BY <1>1, <1>2, <2>1
  <2>2. CASE ~(i <= k)
    <3>1. i - k \in 1..j /\ k + (i - k) = i
      BY <2>2
    <3>2. b[i - k] = i
      BY <1>1, <3>1
    <3> QED BY <1>1, <1>2, <2>2, <3>2
  <2> QED BY <2>1, <2>2
<1>4. c = a \o b
  BY <1>1, <1>2, <1>3, SeqEqual
<1> QED BY <1>4 DEF a, b, c

\* When nothing that says something follows an end mark, the break there drops
\* nothing.
LEMMA BreakDropsNothing ==
  ASSUME NEW k \in Nat, NEW j \in Nat, k + j <= Len(body), Len(body) \in Nat,
         DOMAIN body = 1..Len(body), Models!EndIsLast
  PROVE  LET ls == LinesAfter(k, j)
         IN  /\ \A i \in 1..j : ls[i] \notin Models!Reached(ls) =>
                                 Models!Yields(handler, body[ls[i]]) = <<>>
             /\ Models!Deltas \cap Models!Reached(ls) = Models!Deltas
<1> DEFINE ls == LinesAfter(k, j)
<1>1. /\ ls \in Seq(Nat) /\ Len(ls) = j /\ \A i \in 1..j : ls[i] = k + i
      /\ DOMAIN ls = 1..j
  BY LinesAreNumbers DEF LinesAfter
<1>2. \A m \in Range(ls) : m \in DOMAIN body
  BY <1>1 DEF Range
<1> HIDE DEF ls
<1>3. ASSUME NEW l \in DOMAIN body, l \notin Models!Reached(ls)
      PROVE  Models!Yields(handler, body[l]) = <<>>
  <2>1. PICK m \in Range(ls) : body[m] = Models!EndMark /\ ~(l <= m)
    BY <1>3, ModelsLibrary DEF Models!Reached
  <2>2. m \in DOMAIN body /\ m < l
    BY <1>2, <2>1
  <2> QED BY <2>1, <2>2 DEF Models!EndIsLast
<1>4. \A i \in 1..j : ls[i] \in DOMAIN body
  BY <1>1
<1>5. ASSUME NEW l \in Models!Deltas PROVE l \in Models!Reached(ls)
  <2>1. l \in DOMAIN body /\ "delta" \in Range(Models!Yields(handler, body[l]))
    BY <1>5, ModelsLibrary DEF Models!Deltas
  <2>2. Range(<<>>) = {}
    BY DEF Range
  <2> QED BY <1>3, <2>1, <2>2
<1> QED BY <1>3, <1>4, <1>5 DEF ls

\* A read of any length keeps the invariant.
LEMMA ReadKept ==
  ASSUME ProvidersInv, NEW n \in Nat \ {0}, Models!Read(n)
  PROVE  ProvidersInv'
<1> DEFINE k    == read \div 2
           j    == (read + n) \div 2 - k
           s    == buffer \o [i \in 1..n |-> read + i]
           ls   == LinesAfter(k, j)
           more == [i \in 1..j |-> Models!Yields(handler, body[k + i])]
           says == [i \in 1..j |-> IF k + i \in Models!Reached(ls)
                                   THEN Models!Yields(handler, body[k + i]) ELSE <<>>]
<1>1. /\ stage = "streaming" /\ UNCHANGED <<handler, stage, body>>
      /\ read \in Nat /\ Len(body) \in Nat /\ read + n <= 2 * Len(body)
      /\ DOMAIN body = 1..Len(body) /\ read' = read + n /\ buffer = Waiting(read) /\ handler \in Models!Handlers
      /\ chunks \in Seq(Words) /\ lost \in BOOLEAN
  BY DEF Models!Read, ProvidersInv, CallInv
<1>2. k \in Nat /\ j \in Nat /\ k + j = (read + n) \div 2 /\ k + j <= Len(body)
  BY <1>1
<1>3. Models!Parsed(s) = ls /\ Models!Rest(s) = Waiting(read + n)
  BY <1>1, ReadPieces
<1>4. /\ buffer' = Models!Rest(s)
      /\ Models!Send(FlattenSeq([i \in DOMAIN ls |->
                                  IF ls[i] \in Models!Reached(ls)
                                  THEN Models!Yields(handler, body[ls[i]]) ELSE <<>>]))
      /\ text' = text \o Filter(ls, Models!Deltas \cap Models!Reached(ls))
  <2> HIDE DEF k, j, ls
  <2> QED BY <1>3, ModelsLibrary, Zenon DEF Models!Read
<1> HIDE DEF s, k, j
<1>5. [i \in DOMAIN ls |-> IF ls[i] \in Models!Reached(ls)
                           THEN Models!Yields(handler, body[ls[i]]) ELSE <<>>] = says
  <2> DEFINE In == Models!Reached(ls)
  <2>1. DOMAIN ls = 1..j /\ \A i \in 1..j : ls[i] = k + i
    BY DEF LinesAfter
  <2> HIDE DEF In, ls
  <2>2. [i \in DOMAIN ls |-> IF ls[i] \in In THEN Models!Yields(handler, body[ls[i]]) ELSE <<>>]
          = [i \in 1..j |-> IF k + i \in In THEN Models!Yields(handler, body[k + i]) ELSE <<>>]
    BY <2>1
  <2> QED BY <2>2 DEF In
<1>6. more \in Seq(Seq(Words)) /\ Whole(k + j) = Whole(k) \o more
  BY <1>1, <1>2, WholeGrows
<1>7. FlattenSeq(says) \in Seq(Words)
  <2>1. \A i \in 1..j : Models!Yields(handler, body[k + i]) \in Seq(Words)
    BY <1>1, YieldsAreWords
  <2> HIDE DEF ls
  <2>2. <<>> \in Seq(Words)
    OBVIOUS
  <2>3. says \in [1..j -> Seq(Words)]
    BY <2>1, <2>2
  <2> HIDE DEF says
  <2>4. says \in Seq(Seq(Words))
    BY <1>2, <2>3
  <2> QED BY <2>4, FlattenType
<1> DEFINE new == FlattenSeq(says)
<1>8. /\ chunks' \in Seq(Words) /\ lost' \in BOOLEAN
      /\ lost => lost' /\ chunks' = chunks
      /\ lost' => \E u \in Seq(Words) : chunks \o new = chunks' \o u
      /\ ~lost' => chunks' = chunks \o new
  <2>1. Models!Send(new)
    BY <1>4, <1>5
  <2> HIDE DEF new, says
  <2> QED BY <1>1, <1>7, <2>1, SendKeeps DEF new
<1>9. /\ read' \div 2 = k + j
      /\ Whole(read \div 2)' = Whole(k + j) /\ Models!Deltas' = Models!Deltas
      /\ Models!EndIsLast' = Models!EndIsLast
  <2>1. read' \div 2 = k + j
    BY <1>1, <1>2
  <2> QED BY <1>1, <2>1 DEF Whole, Models!Deltas, Models!Yields, Models!EndIsLast
<1>10. CallInv'
  BY <1>1, <1>3, <1>4, <1>8 DEF CallInv
<1>11. ASSUME Models!EndIsLast, Told PROVE Told'
  <2> DEFINE before == FlattenSeq(Whole(k))
  <2>1. says = more /\ Models!Deltas \cap Models!Reached(ls) = Models!Deltas
    <3>1. /\ \A i \in 1..j : ls[i] \notin Models!Reached(ls) =>
                             Models!Yields(handler, body[ls[i]]) = <<>>
          /\ Models!Deltas \cap Models!Reached(ls) = Models!Deltas
      BY <1>1, <1>2, <1>11, BreakDropsNothing
    <3>2. \A i \in 1..j : ls[i] = k + i
      BY DEF LinesAfter
    <3> HIDE DEF ls
    <3> QED BY <3>1, <3>2
  <2>2. /\ before \in Seq(Words) /\ FlattenSeq(more) \in Seq(Words)
        /\ FlattenSeq(Whole(k + j)) = before \o FlattenSeq(more)
    <3>1. Whole(k) \in Seq(Seq(Words)) /\ before \in Seq(Words)
      BY <1>1, <1>2, WholeIsWords
    <3> HIDE DEF more
    <3> QED BY <1>6, <3>1, FlattenConcat, FlattenType
  <2>3. new = FlattenSeq(more)
    BY <2>1
  <2>4. /\ lost => \E u \in Seq(Words) : before = chunks \o u
        /\ ~lost => chunks = before
    BY <1>1, <1>11 DEF Told, Ended, k
  <2> HIDE DEF new, more, says, ls
  <2>5. FlattenSeq(Whole(k + j)) = before \o new /\ new \in Seq(Words) /\ before \in Seq(Words)
    BY <2>2, <2>3
  <2> HIDE DEF before
  <2>6. ASSUME lost'
        PROVE  \E u \in Seq(Words) : before \o new = chunks' \o u
    <3>1. CASE lost
      <4>1. PICK u \in Seq(Words) : before = chunks \o u
        BY <2>4, <3>1
      <4>2. u \o new \in Seq(Words) /\ (chunks \o u) \o new = chunks \o (u \o new)
          <5>1. chunks \in Seq(Words) /\ u \in Seq(Words) /\ new \in Seq(Words)
            BY <1>1, <2>5, <4>1
          <5>2. u \o new \in Seq(Words)
            BY <5>1, ConcatProperties
          <5>3. (chunks \o u) \o new = chunks \o (u \o new)
            BY <5>1, WordsAssociate
          <5> QED BY <5>2, <5>3
      <4> QED BY <1>8, <3>1, <4>1, <4>2
    <3>2. CASE ~lost
      BY <1>8, <2>4, <2>6, <3>2
    <3> QED BY <3>1, <3>2
  <2>7. ~lost' => chunks' = before \o new
    BY <1>1, <1>8, <2>4
  <2>8. text' = Filter(LinesAfter(0, k + j), Models!Deltas)
    <3>1. text = Filter(LinesAfter(0, k), Models!Deltas)
      BY <1>11 DEF Told, k
    <3>2. LinesAfter(0, k) \in Seq(Nat) /\ LinesAfter(k, j) \in Seq(Nat)
      BY <1>2, LinesAreNumbers
    <3>3. Filter(LinesAfter(0, k) \o LinesAfter(k, j), Models!Deltas)
            = Filter(LinesAfter(0, k), Models!Deltas) \o Filter(LinesAfter(k, j), Models!Deltas)
      BY <3>2, FilterConcat
    <3> QED BY <1>2, <1>4, <2>1, <3>1, <3>3, LinesGrow DEF ls
  <2> QED BY <1>9, <2>5, <2>6, <2>7, <2>8 DEF Told
<1> QED BY <1>9, <1>10, <1>11 DEF ProvidersInv

-----------------------------------------------------------------------------
(* A call begins, opens its body and is forgotten.                         *)

\* Nothing was read of a call that has only begun.
LEMMA FreshKept ==
  ASSUME handler' \in Models!Handlers, Len(body') \in Nat, DOMAIN body' = 1..Len(body'),
         read' = 0, buffer' = <<>>,
         text' = <<>>, lost' \in BOOLEAN,
         \/ chunks' = <<>> /\ (lost' => stage' \notin {"idle", "fetching"})
         \/ stage' = "success" /\ chunks' = Append(<<>>, "error") /\ ~lost'
  PROVE  ProvidersInv'
<1>1. Whole(read \div 2)' = <<>> /\ FlattenSeq(Whole(read \div 2)') = <<>>
  BY NothingRead, FlattenEmpty DEF Whole
<1>2. <<>> \in Seq(Words) /\ <<>> \o <<>> = <<>> /\ Append(<<>>, "error") \in Seq(Words)
  BY DEF Words
<1>3. CallInv'
  <2>1. chunks' \in Seq(Words)
    BY <1>2
  <2>2. stage' \in {"idle", "fetching"} => chunks' = <<>> /\ ~lost'
    OBVIOUS
  <2> QED BY <2>1, <2>2, NothingRead DEF CallInv
<1>4. Told'
  <2>1. text' = Filter(LinesAfter(0, read' \div 2), Models!Deltas')
    BY NothingRead
  <2>2. lost' => \E u \in Seq(Words) : FlattenSeq(Whole(read \div 2)') = chunks' \o u
    BY <1>1, <1>2
  <2> QED BY <1>1, <2>1, <2>2 DEF Told, Ended
<1> QED BY <1>3, <1>4 DEF ProvidersInv

\* A call begins.
LEMMA CallKept ==
  ASSUME ProvidersInv, NEW h \in Models!Handlers, NEW given, NEW param, NEW own,
         Models!Call(h, given, param, own)
  PROVE  ProvidersInv'
<1>0. chunks = <<>> /\ chunks \in Seq(Words) /\ lost \in BOOLEAN /\ ~lost
  BY DEF Models!Call, ProvidersInv, CallInv
<1>1. /\ handler' \in Models!Handlers /\ body' = <<>> /\ read' = 0 /\ buffer' = <<>>
      /\ text' = <<>> /\ Len(body') = 0 /\ DOMAIN body' = 1..Len(body')
  BY DEF Models!Call
<1>2. CASE UNCHANGED <<chunks, lost>>
  BY <1>0, <1>1, <1>2, FreshKept
<1>3. CASE stage' = "success" /\ Models!Send(<<"error">>)
  <2>1. lost' \in BOOLEAN /\ (lost' => chunks' = <<>>) /\ (~lost' => chunks' = Append(<<>>, "error"))
    BY <1>0, <1>3, ErrorSent
  <2> QED BY <1>1, <1>3, <2>1, FreshKept
<1> QED BY <1>2, <1>3 DEF Models!Call, Models!Refusal

\* A call is forgotten.
LEMMA ForgetKept == Models!Forget => ProvidersInv'
<1> SUFFICES ASSUME Models!Forget PROVE ProvidersInv'
  OBVIOUS
<1>1. /\ handler' = Models!AnthropicStatus /\ body' = <<>> /\ read' = 0
      /\ Len(body') = 0 /\ DOMAIN body' = 1..Len(body')
      /\ buffer' = <<>> /\ text' = <<>> /\ chunks' = <<>> /\ lost' = FALSE
  BY DEF Models!Forget
<1> QED BY <1>1, HandlersYieldWords, FreshKept

\* The body is open, with nothing read.
LEMMA BodyOpensKept ==
  ASSUME ProvidersInv, NEW b \in Models!Bodies(handler), Models!BodyOpens(b)
  PROVE  ProvidersInv'
<1>1. /\ stage = "fetching" /\ stage' = "streaming" /\ body' = b
      /\ UNCHANGED <<handler, read, buffer, chunks, text, lost>>
  BY DEF Models!BodyOpens
<1>2. Len(b) \in Nat /\ DOMAIN b = 1..Len(b)
  <2>1. PICK m \in 0..MaxLines : DOMAIN b = 1..m /\ b = [i \in 1..m |-> b[i]]
    BY DEF Models!Bodies, Models!SeqOf
  <2> QED BY <2>1
<1>3. read = 0 /\ chunks = <<>> /\ lost = FALSE /\ text = <<>> /\ buffer = <<>>
      /\ handler \in Models!Handlers
  BY <1>1, NothingRead DEF ProvidersInv, CallInv
<1> QED BY <1>1, <1>2, <1>3, FreshKept

\* Every step keeps the invariant.
LEMMA ProvidersNextInv == ProvidersInv /\ [Models!Next]_Models!vars => ProvidersInv'
<1> SUFFICES ASSUME ProvidersInv, [Models!Next]_Models!vars PROVE ProvidersInv'
  OBVIOUS
<1>1. ASSUME NEW h \in Models!Handlers, NEW given, NEW param, NEW own,
             Models!Call(h, given, param, own)
      PROVE  ProvidersInv'
  BY <1>1, CallKept
<1>2. ASSUME NEW holds, Models!Answered(holds) PROVE ProvidersInv'
  <2>1. CASE Models!Refuse
    BY <1>2, <2>1, RefuseKept DEF Models!Answered, Ended
  <2>2. CASE Models!Finish("success") /\ UNCHANGED <<chunks, lost>>
    BY <1>2, <2>2, FinishKept DEF Models!Answered, Ended
  <2> QED BY <1>2, <2>1, <2>2 DEF Models!Answered
<1>3. ASSUME NEW b \in Models!Bodies(handler), Models!BodyOpens(b) PROVE ProvidersInv'
  BY <1>3, BodyOpensKept
<1>4. ASSUME NEW n \in 1..2 * MaxLines, Models!Read(n) PROVE ProvidersInv'
  BY <1>4, ReadKept
<1>5. CASE Models!FetchFails \/ Models!NoBody \/ Models!ReadFails
  BY <1>5, RefuseKept DEF Models!FetchFails, Models!NoBody, Models!ReadFails, Ended
<1>6. CASE Models!BodyEnds
  BY <1>6, FinishKept DEF Models!BodyEnds, Ended
<1>7. CASE Models!Forget
  BY <1>7, ForgetKept
<1>8. CASE UNCHANGED Models!vars
  BY <1>8 DEF Models!vars, ProvidersInv, CallInv, Told, Whole, Models!Deltas, Models!Yields,
              Models!EndIsLast
<1> QED BY <1>1, <1>2, <1>3, <1>4, <1>5, <1>6, <1>7, <1>8 DEF Models!Next

-----------------------------------------------------------------------------

\* Of two sequences, the longer begins with the shorter.
LEMMA ConcatIsPrefix ==
  ASSUME NEW a \in Seq(Words), NEW u \in Seq(Words)
  PROVE  IsPrefix(a, a \o u)
<1>1. /\ Len(a) \in Nat /\ Len(u) \in Nat /\ a \o u \in Seq(Words)
      /\ Len(a \o u) = Len(a) + Len(u)
  BY ConcatProperties, LenProperties
<1>2. SubSeq(a, 1, Len(a)) = SubSeq(a \o u, 1, Len(a))
  <2>1. CASE Len(a) = 0
    <3>1. \A t : SubSeq(t, 1, Len(a)) = <<>>
      BY <2>1, SubSeqEmpty
    <3> QED BY <3>1
  <2>2. CASE Len(a) # 0
    <3>1. 1 \in 1..Len(a) /\ Len(a) \in 1..Len(a)
      BY <1>1, <2>2
    <3>2. SubSeq(a \o u, 1, Len(a)) = SubSeq(a, 1, Len(a))
      BY <3>1, SubSeqOfConcat1
    <3> QED BY <3>2
  <2> QED BY <2>1, <2>2
<1>3. Len(a) <= Len(a \o u)
  BY <1>1
<1> QED BY <1>2, <1>3, Zenon DEF IsPrefix

\* However the network cuts the body, the caller is sent what its complete
\* lines say, each once and in order, as long as its stream takes the chunks,
\* and the text of the call is made of all their deltas: for bodies and reads
\* of every length in which nothing follows the end mark, and every handler.
THEOREM SpecCutsDoNotMatter == Models!Spec => []CutsDoNotMatter
<1>1. ASSUME ProvidersInv PROVE CutsDoNotMatter
  <2> DEFINE said == FlattenSeq(Whole(read \div 2))
  <2>1. [i \in 1..(read \div 2) |-> i] = LinesAfter(0, read \div 2)
    BY <1>1 DEF LinesAfter, ProvidersInv, CallInv
  <2>2. read \div 2 \in Nat /\ chunks \in Seq(Words) /\ handler \in Models!Handlers
    BY <1>1 DEF ProvidersInv, CallInv
  <2>3. said \in Seq(Words)
    BY <2>2, WholeIsWords
  <2>4. ASSUME Models!EndIsLast
        PROVE  /\ lost  => IsPrefix(chunks, said)
               /\ ~lost => IsPrefix(said, chunks) /\ (stage = "streaming" => chunks = said)
               /\ text = Filter([i \in 1..(read \div 2) |-> i], Models!Deltas)
    <3>1. Told
      BY <1>1, <2>4 DEF ProvidersInv
    <3>2. /\ lost => \E u \in Seq(Words) : said = chunks \o u
          /\ ~lost => \/ chunks = said
                      \/ stage \in Ended /\ chunks = Append(said, "error")
          /\ text = Filter(LinesAfter(0, read \div 2), Models!Deltas)
      BY <3>1 DEF Told
    <3> HIDE DEF said
    <3>3. lost => IsPrefix(chunks, said)
      BY <2>2, <3>2, ConcatIsPrefix
    <3>4. "error" \in Words /\ <<>> \in Seq(Words) /\ <<"error">> \in Seq(Words)
      BY DEF Words
    <3>5. said = said \o <<>> /\ Append(said, "error") = said \o <<"error">>
      BY <2>3, <3>4, ConcatEmptySeq, AppendIsConcat
    <3>6. ~lost => IsPrefix(said, chunks)
      <4>1. IsPrefix(said, said \o <<>>) /\ IsPrefix(said, said \o <<"error">>)
        BY <2>3, <3>4, ConcatIsPrefix
      <4> QED BY <3>2, <3>5, <4>1
    <3>7. ~lost => (stage = "streaming" => chunks = said)
      BY <3>2 DEF Ended
    <3> QED BY <2>1, <3>2, <3>3, <3>6, <3>7
  <2> QED BY <2>4, ModelsLibrary, Zenon DEF CutsDoNotMatter, Models!CutsDoNotMatter, Whole
<1>2. Models!Spec => []ProvidersInv
  BY ProvidersInitInv, ProvidersNextInv, PTL DEF Models!Spec
<1> QED BY <1>1, <1>2, PTL

-----------------------------------------------------------------------------
(* The parts together.                                                     *)

\* What holds of a part, holds of the system: its variables change by its own
\* steps only.
LEMMA PartsAreKept ==
  PartsSpec => Spec /\ OAuthSpec /\ Http!Spec /\ Models!Spec /\ Choice!Spec
<1>1. PartsInit => Init /\ OAuthInit /\ Http!Init /\ Models!Init /\ Choice!Init
  BY Zenon DEF PartsInit
<1> DEFINE all == <<part, vars, oauthVars, serverVars, providerVars, choiceVars>>
<1>2. [PartsNext]_all => /\ [Next]_vars /\ [OAuthNext]_oauthVars
                         /\ [Http!Next]_(Http!vars) /\ [Models!Next]_(Models!vars)
                         /\ [Choice!Next]_(Choice!vars)
  <2>1. /\ UNCHANGED serverVars => UNCHANGED Http!vars
        /\ UNCHANGED providerVars => UNCHANGED Models!vars
        /\ UNCHANGED choiceVars => UNCHANGED Choice!vars
    BY DEF serverVars, providerVars, choiceVars, Http!vars, Models!vars, Choice!vars
  <2> QED BY <2>1, Zenon DEF PartsNext
<1> QED BY <1>1, <1>2, PTL DEF PartsSpec, Spec, OAuthSpec, Http!Spec, Models!Spec, Choice!Spec

\* In the system of all parts: the node sees verified sessions only, cuts of a
\* stream do not matter, and what was revoked or cleared stays gone.
THEOREM ServiceAccessCorrect ==
  PartsSpec => [](NodeSeesVerifiedAuth /\ CutsDoNotMatter) /\ GoneStaysGone
BY PartsAreKept, SpecNodeSeesVerifiedAuth, SpecCutsDoNotMatter, GoneForGood, PTL
=============================================================================
