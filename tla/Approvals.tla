----------------------------- MODULE Approvals ------------------------------
(***************************************************************************)
(* The execute capability and the approval service it asks: a task chosen  *)
(* by the model runs when the service approves it, which may depend on its *)
(* mode, on two lists of remembered preferences, or on a human who has     *)
(* three minutes to answer.                                                *)
(*                                                                         *)
(* A task is the tool and method it calls.  The handshake and the choice   *)
(* of the task are the model's; here a capability begins with its task.    *)
(* The reply of the service is not lost (see Messaging).                   *)
(***************************************************************************)
EXTENDS Naturals, FiniteSets

CONSTANTS
  Runs,   \* executions of the capability
  Tasks   \* tool methods

VARIABLES
  mode,       \* of the service
  whitelist, blacklist,
  run,        \* where each execution is, and with which task
  decision,   \* what the service decided for it
  outlawed    \* executions whose task was on the blacklist when they asked

vars == <<mode, whitelist, blacklist, run, decision, outlawed>>

Stages == {"idle", "requesting", "asking", "saving", "executing",
           "result", "error", "refused"}
Run    == [stage : Stages, task : Tasks]
Idle   == [stage |-> "idle", task |-> "none"]

TypeOK ==
  /\ mode \in {"allow", "review", "auto"}
  /\ whitelist \subseteq Tasks /\ blacklist \subseteq Tasks
  /\ run \in [Runs -> Run \cup {Idle}]
  /\ decision \in [Runs -> {"none", "approve", "always", "deny", "never", "unasked"}]
  /\ outlawed \subseteq Runs

Init ==
  /\ mode \in {"allow", "review", "auto"}
  /\ whitelist = {} /\ blacklist = {}
  /\ run = [r \in Runs |-> Idle]
  /\ decision = [r \in Runs |-> "none"]
  /\ outlawed = {}

Goes(r, stage) == run' = [run EXCEPT ![r].stage = stage]
Decides(r, d)  == decision' = [decision EXCEPT ![r] = d]

-----------------------------------------------------------------------------
(* The capability.                                                         *)

\* run(), up to requestApproval().
Begin(r, t) ==
  /\ run[r].stage = "idle"
  /\ run' = [run EXCEPT ![r] = [stage |-> "requesting", task |-> t]]
  /\ outlawed' = IF t \in blacklist THEN outlawed \cup {r} ELSE outlawed
  /\ UNCHANGED <<mode, whitelist, blacklist, decision>>

\* run() of a stored execution goes to the task at once.
Replay(r, t) ==
  /\ run[r].stage = "idle"
  /\ run' = [run EXCEPT ![r] = [stage |-> "executing", task |-> t]]
  /\ Decides(r, "unasked")
  /\ UNCHANGED <<mode, whitelist, blacklist, outlawed>>

\* The call of the service fails.  "No route found" is taken for a network
\* without a service, and the task runs; the service's own call of the human
\* can fail with the same words.
ApprovalFails(r, noRoute) ==
  /\ run[r].stage \in {"requesting", "asking"}
  /\ Goes(r, IF noRoute THEN "executing" ELSE "refused")
  /\ Decides(r, IF noRoute THEN "unasked" ELSE "none")
  /\ UNCHANGED <<mode, whitelist, blacklist, outlawed>>

\* executeTask(), with its result or its error.
ExecuteTask(r, ok) ==
  /\ run[r].stage = "executing"
  /\ Goes(r, IF ok THEN "result" ELSE "error")
  /\ UNCHANGED <<mode, whitelist, blacklist, decision, outlawed>>

-----------------------------------------------------------------------------
(* The service.                                                            *)

\* In auto mode the caller is expected to ask only when it must.
NeedsApproval == mode # "allow"

\* Mutant: the whitelist is looked at first.
VerdictByWhitelist(t) ==
  IF t \in whitelist THEN "approve" ELSE IF t \in blacklist THEN "deny"
  ELSE IF NeedsApproval THEN "ask" ELSE "approve"

\* _tool_request_approval, up to the question.
Verdict(t) ==
  IF t \in blacklist THEN "deny"
  ELSE IF t \in whitelist \/ ~NeedsApproval THEN "approve" ELSE "ask"

RequestApproval(r) ==
  /\ run[r].stage = "requesting"
  /\ CASE Verdict(run[r].task) = "deny"    -> Goes(r, "refused") /\ Decides(r, "deny")
       [] Verdict(run[r].task) = "approve" -> Goes(r, "executing") /\ Decides(r, "approve")
       [] Verdict(run[r].task) = "ask"     -> Goes(r, "asking") /\ UNCHANGED decision
  /\ UNCHANGED <<mode, whitelist, blacklist, outlawed>>

\* The answer is searched for words in this order, so that "always allow" and
\* "never allow" are both read as an approval of this one action.
ParseApprovalResponse(words) ==
  IF words \cap {"approve", "yes", "allow"} # {} THEN "approve"
  ELSE IF "always" \in words THEN "always"
  ELSE IF "never" \in words THEN "never" ELSE "deny"

Approves(d) == d \in {"approve", "always"}

\* The human answers in time.  A new preference is saved with the leader
\* before the answer goes back.
HumanAnswers(r, words) ==
  LET t == run[r].task
      d == ParseApprovalResponse(words)
      new == (d = "always" /\ t \notin whitelist) \/ (d = "never" /\ t \notin blacklist)
  IN  /\ run[r].stage = "asking"
      /\ Decides(r, d)
      /\ whitelist' = IF d = "always" THEN whitelist \cup {t} ELSE whitelist
      /\ blacklist' = IF d = "never" THEN blacklist \cup {t} ELSE blacklist
      /\ Goes(r, IF new THEN "saving" ELSE IF Approves(d) THEN "executing" ELSE "refused")
      /\ UNCHANGED <<mode, outlawed>>

\* savePreferences() is over; its failure is ignored.
PreferencesSaved(r) ==
  /\ run[r].stage = "saving"
  /\ Goes(r, IF Approves(decision[r]) THEN "executing" ELSE "refused")
  /\ UNCHANGED <<mode, whitelist, blacklist, decision, outlawed>>

\* Three minutes pass.  An answer that comes later is not looked at.
ApprovalTimeout(r) ==
  /\ run[r].stage = "asking"
  /\ Goes(r, "refused")
  /\ UNCHANGED <<mode, whitelist, blacklist, decision, outlawed>>

\* _tool_set_preference adds to one list and leaves the other as it is.
SetPreference(t, preference) ==
  /\ whitelist' = IF preference = "allow" THEN whitelist \cup {t} ELSE whitelist
  /\ blacklist' = IF preference = "deny" THEN blacklist \cup {t} ELSE blacklist
  /\ UNCHANGED <<mode, run, decision, outlawed>>

SetMode(m) ==
  /\ mode' = m
  /\ UNCHANGED <<whitelist, blacklist, run, decision, outlawed>>

-----------------------------------------------------------------------------
Words == SUBSET {"allow", "always", "never"}

Executes(r) == \E ok \in BOOLEAN : ExecuteTask(r, ok)

Next ==
  \/ \E r \in Runs : \/ \E t \in Tasks : Begin(r, t) \/ Replay(r, t)
                     \/ RequestApproval(r) \/ ApprovalTimeout(r)
                     \/ PreferencesSaved(r) \/ Executes(r)
                     \/ \E noRoute \in BOOLEAN : ApprovalFails(r, noRoute)
                     \/ \E words \in Words : HumanAnswers(r, words)
  \/ \E t \in Tasks : \E preference \in {"allow", "deny"} : SetPreference(t, preference)
  \/ \E m \in {"allow", "review", "auto"} : SetMode(m)

Spec == Init /\ [][Next]_vars

-----------------------------------------------------------------------------
(* Properties.                                                             *)

\* "Check blacklist first - always deny" (o-approval.tool.ts:43): whatever
\* two humans answered at once, and whatever was set by hand, an execution
\* that asks for a task on the blacklist does not run it, as long as the
\* service can be asked.
NeverIsFinal ==
  \A r \in outlawed :
    run[r].stage \in {"executing", "result", "error"} => decision[r] = "unasked"
=============================================================================
