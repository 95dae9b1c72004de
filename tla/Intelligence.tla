---------------------------- MODULE Intelligence ----------------------------
(***************************************************************************)
(* IntelligenceTool (o://intelligence): a prompt is sent to a provider's   *)
(* tool with that provider's API key.  Provider and key come from the      *)
(* prompt, the environment, the secure storage or a human, in this order,  *)
(* and what the human says is stored.  Several prompts are served at once, *)
(* and every step between two of them waits for another node.              *)
(*                                                                         *)
(* A key stands for the provider that issued it, a model for the provider  *)
(* that offers it.                                                         *)
(***************************************************************************)
EXTENDS Naturals, Sequences

CONSTANTS
  Prompts,    \* prompts served
  Providers,  \* what a human may answer
  Known,      \* those of them in LLMProviders
  Default,    \* LLMProviders.ANTHROPIC
  EnvVars,    \* providers whose environment variable holds a key
  EnvChoice,  \* MODEL_PROVIDER_CHOICE, or "none"
  Settings    \* sets of values a configure call may give

VARIABLES
  preference,  \* the secure storage: the provider to use
  keys,        \* the API key of each provider
  model,       \* the model to use
  olane,       \* the values that concern hosting by Olane
  prompt,      \* where each prompt is, and what it has found out
  setting      \* the values a configure call has still to store

vars == <<preference, keys, model, olane, prompt, setting>>

Stages == {"idle", "choosing", "askingProvider", "savingProvider", "modelling", "keying",
           "askingKey", "savingKey", "completing", "done", "failed"}
Maybe(S) == S \cup {"none"}
Slots    == <<"hosting", "token", "address", "preference", "model">>
NoSetting == [slots |-> <<>>, provider |-> "none"]

TypeOK ==
  /\ preference \in Maybe(Providers)
  /\ keys \in [Providers -> Maybe(Providers)]
  /\ model \in Maybe(Providers)
  /\ olane \subseteq {"hosting", "token", "address"}
  /\ prompt \in [Prompts -> [stage : Stages, provider : Maybe(Providers),
                             key : Maybe(Providers), model : Maybe(Providers)]]
  /\ setting.provider \in Maybe(Providers) /\ Len(setting.slots) <= Len(Slots)

Init ==
  /\ preference = "none"
  /\ keys = [p \in Providers |-> "none"]
  /\ model = "none"
  /\ olane = {}
  /\ prompt = [r \in Prompts |->
                 [stage |-> "idle", provider |-> "none", key |-> "none", model |-> "none"]]
  /\ setting = NoSetting

Stored == <<preference, keys, model, olane, setting>>

Goes(r, stage)    == prompt' = [prompt EXCEPT ![r].stage = stage]
Chooses(r, p)     == prompt' = [prompt EXCEPT ![r].stage = "modelling", ![r].provider = p]
Takes(r, k)       == prompt' = [prompt EXCEPT ![r].stage = "completing", ![r].key = k]
At(r, stage)      == prompt[r].stage = stage

-----------------------------------------------------------------------------
(* A prompt.                                                               *)

\* _tool_prompt: the provider it names, or getModelProvider().
Prompt(r, p) ==
  /\ At(r, "idle")
  /\ LET said == IF p # "none" THEN p ELSE EnvChoice
     IN  IF said = "none" THEN Goes(r, "choosing")
         ELSE IF said \in Known THEN Chooses(r, said) ELSE Goes(r, "failed")
  /\ UNCHANGED Stored

\* The stored preference is read; a read that fails finds nothing.
ReadPreference(r, ok) ==
  /\ At(r, "choosing")
  /\ IF ok /\ preference # "none" THEN Chooses(r, preference) ELSE Goes(r, "askingProvider")
  /\ UNCHANGED Stored

HumanChoosesProvider(r, p) ==
  /\ At(r, "askingProvider")
  /\ prompt' = [prompt EXCEPT ![r].stage = "savingProvider", ![r].provider = p]
  /\ UNCHANGED Stored

\* Without an answer, or when it cannot be stored, the default is used.
ProviderDefaulted(r) ==
  /\ At(r, "askingProvider") \/ At(r, "savingProvider")
  /\ Chooses(r, Default)
  /\ UNCHANGED Stored

ProviderSaved(r) ==
  /\ At(r, "savingProvider")
  /\ preference' = prompt[r].provider
  /\ Goes(r, "modelling")
  /\ UNCHANGED <<keys, model, olane, setting>>

\* getModelChoice(); the prompt may name a model itself.
ReadModel(r, own, ok) ==
  /\ At(r, "modelling")
  /\ prompt' = [prompt EXCEPT ![r].stage = "keying",
                  ![r].model = IF own THEN prompt[r].provider ELSE IF ok THEN model ELSE "none"]
  /\ UNCHANGED Stored

\* Mutant: one name for every provider's key.
OneKeySlot(p) == Default

\* The name of a provider's key in the secure storage.
KeySlot(p) == p

\* ENV_KEYS names its rows after the providers, but that of SONAR_API_KEY, the
\* variable of Perplexity; the row of the provider's name is looked up.
RowOf(variable) == IF variable = "perplexity" THEN "sonar" ELSE variable
EnvKeyOf(p) == IF \E v \in EnvVars : RowOf(v) = p
               THEN CHOOSE v \in EnvVars : RowOf(v) = p ELSE "none"

\* getProviderApiKey(), up to the question.
ReadKey(r, ok) ==
  LET p == prompt[r].provider
      k == keys[KeySlot(p)]
  IN  /\ At(r, "keying")
      /\ CASE EnvKeyOf(p) # "none"                     -> Takes(r, EnvKeyOf(p))
           [] EnvKeyOf(p) = "none" /\ ok /\ k # "none" -> Takes(r, k)
           [] OTHER                                    -> Goes(r, "askingKey")
      /\ UNCHANGED Stored

HumanGivesKey(r) ==
  /\ At(r, "askingKey")
  /\ prompt' = [prompt EXCEPT ![r].stage = "savingKey", ![r].key = prompt[r].provider]
  /\ UNCHANGED Stored

KeySaved(r) ==
  /\ At(r, "savingKey")
  /\ keys' = [keys EXCEPT ![KeySlot(prompt[r].provider)] = prompt[r].key]
  /\ Goes(r, "completing")
  /\ UNCHANGED <<preference, model, olane, setting>>

\* No answer, or no storage: the prompt fails.
KeyFails(r) ==
  /\ At(r, "askingKey") \/ At(r, "savingKey")
  /\ Goes(r, "failed")
  /\ UNCHANGED Stored

\* useChild() of the provider's tool, a child of this node or not.
Completed(r, ok) ==
  /\ At(r, "completing")
  /\ Goes(r, IF ok THEN "done" ELSE "failed")
  /\ UNCHANGED Stored

-----------------------------------------------------------------------------
(* Configuration.                                                          *)

\* _tool_configure stores the values it is given one after another.
Configure(slots, p) ==
  /\ setting.slots = <<>>
  /\ setting' = [slots |-> SelectSeq(Slots, LAMBDA slot : slot \in slots), provider |-> p]
  /\ UNCHANGED <<preference, keys, model, olane, prompt>>

Put ==
  LET slot == Head(setting.slots)
  IN  /\ setting.slots # <<>>
      /\ setting' = IF Len(setting.slots) = 1 THEN NoSetting
                    ELSE [setting EXCEPT !.slots = Tail(@)]
      /\ preference' = IF slot = "preference" THEN setting.provider ELSE preference
      /\ model' = IF slot = "model" THEN setting.provider ELSE model
      /\ olane' = IF slot \in {"preference", "model"} THEN olane ELSE olane \cup {slot}
      /\ UNCHANGED <<keys, prompt>>

PutFails ==
  /\ setting.slots # <<>>
  /\ setting' = NoSetting
  /\ UNCHANGED <<preference, keys, model, olane, prompt>>

-----------------------------------------------------------------------------
Step(r) ==
  \/ \E p \in Maybe(Providers) : Prompt(r, p)
  \/ \E ok \in BOOLEAN : ReadPreference(r, ok) \/ ReadKey(r, ok) \/ Completed(r, ok)
  \/ \E own, ok \in BOOLEAN : ReadModel(r, own, ok)
  \/ \E p \in Providers : HumanChoosesProvider(r, p)
  \/ ProviderDefaulted(r) \/ ProviderSaved(r)
  \/ HumanGivesKey(r) \/ KeySaved(r) \/ KeyFails(r)

Next ==
  \/ \E r \in Prompts : Step(r)
  \/ \E slots \in Settings, p \in Providers : Configure(slots, p)
  \/ Put \/ PutFails

Spec == Init /\ [][Next]_vars

-----------------------------------------------------------------------------
(* Properties.                                                             *)

\* Whatever prompts, answers and settings interleave, a provider is only ever
\* sent its own API key.
KeyGoesToItsProvider ==
  \A r \in Prompts : At(r, "completing") => prompt[r].key = prompt[r].provider
=============================================================================
