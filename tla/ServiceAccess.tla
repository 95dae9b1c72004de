---------------------------- MODULE ServiceAccess ----------------------------
(***************************************************************************)
(* Access to other services, as one system: the token manager, the grants  *)
(* of the OAuth tool, the HTTP server (Server), the providers of models    *)
(* (Providers) and the choice among them (Intelligence).  A behaviour is   *)
(* one of one part, chosen at the start; the other parts stay in an        *)
(* initial state.                                                          *)
(***************************************************************************)
EXTENDS TokenManager, OAuth

CONSTANTS
  Requests, MaxServers,                        \* see Server
  MaxLines,                                    \* see Providers
  Prompts, Providers, Known, Default, EnvVars, EnvChoice, Settings  \* see Intelligence

ASSUME ChoiceAssumption ==
  /\ "none" \notin Providers
  /\ Known \subseteq Providers /\ EnvVars \subseteq Providers /\ Default \in Known

VARIABLES
  part,
  mode, request, listening, server, started,
  handler, stage, body, read, buffer, chunks, text, lost,
  preference, keys, model, olane, prompt, setting

serverVars   == <<mode, request, listening, server, started>>
providerVars == <<handler, stage, body, read, buffer, chunks, text, lost>>
choiceVars   == <<preference, keys, model, olane, prompt, setting>>

-----------------------------------------------------------------------------
(* The parts.                                                              *)

Http == INSTANCE Server

Models == INSTANCE Providers WITH call <- handler

Choice == INSTANCE Intelligence

-----------------------------------------------------------------------------

PartsInit ==
  /\ part \in {"tokens", "oauth", "server", "providers", "choice"}
  /\ Init /\ (part # "tokens" => ~HasStore)
  /\ OAuthInit /\ Models!Init /\ Choice!Init
  /\ Http!Init /\ (part # "server" => mode = "open")

PartsNext ==
  /\ UNCHANGED part
  /\ \/ /\ part = "tokens" /\ Next
        /\ UNCHANGED <<oauthVars, serverVars, providerVars, choiceVars>>
     \/ /\ part = "oauth" /\ OAuthNext
        /\ UNCHANGED <<vars, serverVars, providerVars, choiceVars>>
     \/ /\ part = "server" /\ Http!Next
        /\ UNCHANGED <<vars, oauthVars, providerVars, choiceVars>>
     \/ /\ part = "providers" /\ Models!Next
        /\ UNCHANGED <<vars, oauthVars, serverVars, choiceVars>>
     \/ /\ part = "choice" /\ Choice!Next
        /\ UNCHANGED <<vars, oauthVars, serverVars, providerVars>>

\* The fairness of TokenManager.
PartsSpec ==
  /\ PartsInit
  /\ [][PartsNext]_<<part, vars, oauthVars, serverVars, providerVars, choiceVars>>
  /\ \A c \in Callers : WF_vars(part = "tokens" /\ CallerStep(c))
  /\ \A r \in Runs : WF_vars(part = "tokens" /\ RunStep(r))

-----------------------------------------------------------------------------
(* The properties, each stated in its module.                              *)

\* What reaches the node as _auth was verified.
NodeSeesVerifiedAuth == Http!NodeSeesVerifiedAuth

\* However the network cuts a streamed body, its complete lines are told.
CutsDoNotMatter == Models!CutsDoNotMatter

\* A provider is only sent its own API key.
KeyGoesToItsProvider == Choice!KeyGoesToItsProvider
=============================================================================
