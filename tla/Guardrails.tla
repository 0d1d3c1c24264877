------------------------------ MODULE Guardrails ------------------------------
(***************************************************************************)
(* What the guardrails let through while a run is planned and its step is   *)
(* carried out: what is retrieved for it, what the model is asked, what it  *)
(* answers, what a tool is given (guardrails/service.py, agent/runtime.py   *)
(* _create_plan, tool_gateway/service.py).  A content is the set of the      *)
(* terms in it.  A rule or a detector's finding names a term and what is     *)
(* done about it; the remote detector may be out of reach.  A person         *)
(* approves or rejects what is held, the process may die, and a run in       *)
(* workflow mode only previews its plan (_execute_workflow_preview).         *)
(***************************************************************************)
EXTENDS Naturals, FiniteSets

CONSTANTS Mode,           \* "graph" or "workflow"
          Rules,          \* [stage, term, action]: the rules of the tenant
          Detectors,      \* [stage, term, action]: what the built-in detectors find
          Remote,         \* the same, of the HTTP detector
          FailureAction,  \* what is done when the HTTP detector does not answer
          Goal,           \* the content of the task
          Docs,           \* the contents of the knowledge bases
          Memories,       \* the contents of memory records
          Answers,        \* what the model may answer
          MaxTrouble      \* deaths and attempts of the job after one that raised

None == "none"

VARIABLES pc,
          context,   \* retrieved_context; a workflow saves it at the end only
          plan,      \* the step in hand
          keys,      \* approved_guardrail_keys, saved
          held,      \* the key that waits for a person, or "step"
          approved,  \* the step is in approved_step_ids
          policy,    \* what the tool's policy says of this user
          workflow,  \* of a preview: none, made, or with its approval request
          passed,    \* history: [stage, content, out] of what was let through
          money,     \* history: calls of the planning model, those billed, those whose answer was
                     \* not used: held, blocked, never given
          trouble

vars == <<pc, context, plan, keys, held, approved, policy, workflow, passed, money, trouble>>

Init == /\ pc = "observe" /\ context = {} /\ plan = {} /\ keys = {} /\ held = None
        /\ approved = FALSE /\ workflow = None /\ passed = {} /\ trouble = 0
        /\ policy \in [enabled : BOOLEAN, scoped : BOOLEAN, approval : BOOLEAN]
        /\ money = [calls |-> 0, billed |-> 0, wasted |-> 0]

-----------------------------------------------------------------------------
\* ACTION_PRIORITY
Priority == [allow |-> 0, warn |-> 1, redact |-> 2, require_approval |-> 3, block |-> 4,
             quarantine_run |-> 5]

\* _matches: the rules of this stage whose term the content has.
Matches(stage, content, S) == {r \in S : r.stage = stage /\ r.term \in content}

\* The findings of the detectors; the HTTP detector reports at its stages that it does
\* not answer, unless that is allowed.
Findings(stage, content, up) ==
    Matches(stage, content, Detectors \cup (IF up THEN Remote ELSE {}))
      \cup (IF up \/ FailureAction = "allow" \/ stage \notin {r.stage : r \in Remote} THEN {}
            ELSE {[stage |-> stage, term |-> "unavailable", action |-> FailureAction]})

\* evaluate and _selected_outcome: the strongest action of all that matched.
Evaluate(stage, content, up) ==
    LET rules == Matches(stage, content, Rules)
        found == Findings(stage, content, up)
        all == rules \cup found
    IN [action |-> IF all = {} THEN "allow"
                   ELSE (CHOOSE r \in all : \A q \in all : Priority[r.action] >= Priority[q.action]).action,
        rules |-> rules, found |-> found, redact |-> {r.term : r \in {q \in all : q.action = "redact"}}]

Blocked(d) == d.action \in {"block", "quarantine_run"}
NeedsApproval(d) == d.action = "require_approval"

\* Only the strongest action is taken: a warning or an approval goes before nothing,
\* but what is approved is let through as it is.
Redacted(content, d) == IF d.action = "redact" THEN content \ d.redact ELSE content

\* _guardrail_approval_key: the rules that matched, whatever the detectors found.
Key(stage, d) == <<stage, IF d.rules # {} THEN d.rules ELSE d.found>>

-----------------------------------------------------------------------------
\* _apply_retrieval_guardrails: what is blocked or would need an approval is left out.
Accepted(found, up) ==
    {Redacted(c, Evaluate("retrieval", c, up)) :
        c \in {d \in found : ~Blocked(Evaluate("retrieval", d, up)) /\ ~NeedsApproval(Evaluate("retrieval", d, up))}}

\* Which documents are found, with embeddings or without, is open.
Found == SUBSET Docs

\* Which memories matter, and are not expired, is open too; they are not guarded.
Remembered == SUBSET Memories

\* observe: the context is loaded while there is none, and kept.
LoadContext ==
    /\ pc = "observe" /\ workflow = None /\ pc' = "plan"
    /\ IF context # {} THEN UNCHANGED context
       ELSE \E found \in Found, ms \in Remembered, up \in BOOLEAN : context' = Accepted(found, up) \cup ms
    /\ UNCHANGED <<plan, keys, held, approved, policy, workflow, passed, money, trouble>>

Pass(stage, content, d) == passed' = passed \cup {[stage |-> stage, content |-> content, out |-> Redacted(content, d)]}

\* The graph fails its run; the job of a workflow raises.
Refused == IF Mode = "graph" THEN "failed" ELSE "raised"

\* A run waits for a person with what the guardrail held; a workflow's job raises.
Hold(key) == IF Mode = "graph" THEN pc' = "held" /\ held' = key ELSE pc' = Refused /\ held' = held

\* _apply_model_request_guardrails and the call of create_plan.
Request == Goal \cup UNION context

RequestPlan ==
    /\ pc = "plan"
    /\ \E up \in BOOLEAN : LET d == Evaluate("model_request", Request, up) IN
         \/ /\ Blocked(d) /\ pc' = Refused /\ UNCHANGED <<held, passed, money>>
         \/ /\ NeedsApproval(d) /\ Key("model_request", d) \notin keys
            /\ Hold(Key("model_request", d)) /\ UNCHANGED <<passed, money>>
         \/ /\ ~Blocked(d) /\ (NeedsApproval(d) => Key("model_request", d) \in keys)
            /\ \/ pc' = Refused /\ UNCHANGED <<passed, money>>   \* the model policy, the budget
               \/ /\ Pass("model_request", Request, d) /\ pc' = "answer"
                  /\ money' = [money EXCEPT !.calls = @ + 1]
            /\ UNCHANGED held
    /\ UNCHANGED <<context, plan, keys, approved, policy, workflow, trouble>>

\* _apply_model_response_guardrails, then _record_model_plan: an answer that is held
\* or blocked is dropped before it is billed.
Answered ==
    /\ pc = "answer"
    /\ \E content \in Answers, up \in BOOLEAN : LET d == Evaluate("model_response", content, up) IN
         \/ /\ Blocked(d) /\ pc' = Refused
            /\ money' = [money EXCEPT !.wasted = @ + 1] /\ UNCHANGED <<held, passed, plan>>
         \/ /\ NeedsApproval(d) /\ Key("model_response", d) \notin keys
            /\ money' = [money EXCEPT !.wasted = @ + 1]
            /\ Hold(Key("model_response", d)) /\ UNCHANGED <<passed, plan>>
         \/ /\ ~Blocked(d) /\ (NeedsApproval(d) => Key("model_response", d) \in keys)
            /\ Pass("model_response", content, d) /\ plan' = Redacted(content, d)
            /\ money' = [money EXCEPT !.billed = @ + 1]
            /\ pc' = "save" /\ UNCHANGED held
    /\ UNCHANGED <<context, keys, approved, policy, workflow, trouble>>

\* create_plan raises; the graph fails a run whose request was refused as unsafe.
GatewayFails == /\ pc = "answer" /\ pc' \in {"raised", Refused}
                /\ money' = [money EXCEPT !.wasted = @ + 1]
                /\ UNCHANGED <<context, plan, keys, held, approved, policy, workflow, passed, trouble>>

\* The plan is saved and its step comes up, or a workflow is made of it.
SavePlan == /\ pc = "save" /\ Mode = "graph" /\ pc' = "tool"
            /\ UNCHANGED <<context, plan, keys, held, approved, policy, workflow, passed, money, trouble>>

CreateWorkflow == /\ pc = "save" /\ Mode = "workflow" /\ pc' = "preview" /\ workflow' = "made"
                  /\ UNCHANGED <<context, plan, keys, held, approved, policy, passed, money, trouble>>

AskApproval == /\ pc = "preview" /\ pc' = "awaiting" /\ workflow' = "asked"
               /\ UNCHANGED <<context, plan, keys, held, approved, policy, passed, money, trouble>>

\* An execution that finds a workflow reports its state and does nothing else.
FindWorkflow == /\ pc = "observe" /\ workflow # None /\ pc' = "awaiting"
                /\ UNCHANGED <<context, plan, keys, held, approved, policy, workflow, passed, money, trouble>>

-----------------------------------------------------------------------------
\* check_policy
Permitted == policy.enabled /\ policy.scoped

\* execute_request: the policy, its approval, the guardrail on the input, then the
\* secrets, the schema and the tool; a step that was approved passes both approvals.
CallTool ==
    /\ pc = "tool"
    /\ \E up \in BOOLEAN : LET d == Evaluate("tool_request", plan, up) IN
         \/ /\ ~Permitted \/ ((policy.approval => approved) /\ Blocked(d))
            /\ pc' = "failed" /\ UNCHANGED <<held, passed>>
         \/ /\ Permitted /\ ~approved
            /\ policy.approval \/ NeedsApproval(d)
            /\ Hold("step") /\ UNCHANGED passed
         \/ /\ Permitted /\ (policy.approval => approved) /\ ~Blocked(d)
            /\ (NeedsApproval(d) => approved)
            /\ \/ pc' = "failed" /\ UNCHANGED passed   \* no lease of a secret, or the schema
               \/ pc' = "done" /\ Pass("tool_request", plan, d)
            /\ UNCHANGED held
    /\ UNCHANGED <<context, plan, keys, approved, policy, workflow, money, trouble>>

\* resume_after_approval: the key or the step is remembered, and the run goes on.
Approve == /\ pc = "held" /\ held' = None
           /\ IF held = "step" THEN approved' = TRUE /\ pc' = "tool" /\ UNCHANGED keys
              ELSE keys' = keys \cup {held} /\ pc' = "observe" /\ UNCHANGED approved
           /\ UNCHANGED <<context, plan, policy, workflow, passed, money, trouble>>

Reject == /\ pc = "held" /\ held' = None /\ pc' = "cancelled"
          /\ UNCHANGED <<context, plan, keys, approved, policy, workflow, passed, money, trouble>>

\* The process dies, or the job that raised is tried again: from what was saved.
Again == /\ pc \in {"observe", "plan", "answer", "save", "preview", "tool", "raised"}
         /\ trouble < MaxTrouble /\ trouble' = trouble + 1
         /\ IF pc = "tool" THEN UNCHANGED <<pc, plan, money>>
            ELSE /\ pc' = "observe" /\ plan' = {}
                 /\ money' = IF pc = "answer" THEN [money EXCEPT !.wasted = @ + 1] ELSE money
         /\ context' = IF Mode = "workflow" THEN {} ELSE context
         /\ UNCHANGED <<keys, held, approved, policy, workflow, passed>>

Next == \/ LoadContext \/ RequestPlan \/ Answered \/ GatewayFails \/ SavePlan \/ CreateWorkflow \/ AskApproval
        \/ FindWorkflow \/ CallTool \/ Approve \/ Reject \/ Again

Spec == Init /\ [][Next]_vars

-----------------------------------------------------------------------------
\* Whatever is restarted, tried again or answered anew, nothing passes a stage that
\* a rule of the stage blocks; what a rule holds passes only when a person of this
\* run has approved that very rule or the step; and what a rule redacts passes in
\* clear only where something has to be approved too (evaluate, _guardrail_approval_key).
NothingSlipsThrough ==
    \A p \in passed : \A r \in Matches(p.stage, p.content, Rules) :
        /\ r.action \notin {"block", "quarantine_run"}
        /\ r.action = "require_approval" =>
              \/ \E k \in keys : k[1] = p.stage /\ r \in k[2]
              \/ p.stage = "tool_request" /\ approved
        /\ (r.action = "redact" /\ r.term \in p.out) => (keys # {} \/ approved)

\* What a document says of a term that retrieval blocks, holds or redacts does not
\* reach the model by way of the kept context, other than through a memory.
ContextStaysClean ==
    \A c \in context : \/ c \in Memories
                       \/ \A r \in Matches("retrieval", c, Rules) : r.action \in {"allow", "warn"}

\* A tool runs only for a user it is enabled for, with its approval (check_policy);
\* a workflow, which nobody is asked about, never passes what has to be approved.
ToolsArePermitted ==
    /\ \A p \in passed : p.stage = "tool_request" => (Permitted /\ (policy.approval => approved))
    /\ Mode = "workflow" => (keys = {} /\ held = None)

\* Every call of the planning model was billed, or its answer was thrown away, or is
\* on its way; a plan that is used was billed (_record_model_plan).
CallsAccounted ==
    /\ money.calls = money.billed + money.wasted + (IF pc = "answer" THEN 1 ELSE 0)
    /\ pc \in {"save", "tool", "preview", "awaiting", "done"} => money.billed >= 1
=============================================================================
