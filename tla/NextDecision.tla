----------------------------- MODULE NextDecision -----------------------------
(***************************************************************************)
(* How the agent decides its next step (agent/loop.py _decide and what it   *)
(* calls, model_gateway/gateway.py decide_next_action).  The model may       *)
(* answer anything: a tool call, offered or not, a response, a question, a   *)
(* new plan, nonsense.  The controller asks again a bounded number of times, *)
(* stops a call that keeps failing and never repeats one that succeeded.  A  *)
(* chat answers its first turn by itself and enters the graph only with an    *)
(* action at hand (execute_chat); a run without a deciding model follows a    *)
(* plan made once; a compiled playbook begins with its one command            *)
(* (_load_compiled_playbook).  What an action came to decides how the run     *)
(* goes on (observe_result).  The process may die between two steps and goes  *)
(* on from the state it saved.                                               *)
(***************************************************************************)
EXTENDS Naturals, Sequences, FiniteSets

CONSTANTS Mode,        \* "agent", "direct" (an agent without tools), "chat"
                       \* (streamed), "plan" (static), "playbook" (compiled)
          Calls,       \* tool calls, told apart by their whole input
          Signature,   \* of each call: tool and required input
          Drafts,      \* calls of authoring tools: a success ends the run
          Renders,     \* calls of ui.render
          Commands,    \* calls of sandbox.command
          Saves,       \* calls of memory.save
          Fetches,     \* calls of web.fetch
          Plan,        \* the steps of the static plan, or the playbook's command
          Errors,      \* what a failed call may report
          Transient,   \* those of Errors that are a tool_execution_error
          Exits,       \* those that are a command_failed: a command's own exit status
          MaxRetries,  \* max_step_retries
          MaxActions,  \* actions chosen
          MaxTrouble   \* deaths

None == "none"

VARIABLES acts,    \* the agent_actions rows: call, outcome, what chose it (by)
          mem,     \* the state in memory: plan or playbook loaded (for a chat: the graph
                   \* entered), plan left, retries of a step, the decision made ahead
                   \* (pending_actions, prefetched), the question asked, its answer
          saved,   \* the state as saved
          pc,
          reply,   \* what the model answered
          asked,   \* model calls of this decision
          died

vars == <<acts, mem, saved, pc, reply, asked, died>>

Blank == [loaded |-> FALSE, left |-> <<>>, retries |-> [c \in Calls |-> 0],
          ahead |-> [kind |-> None], question |-> None, answered |-> FALSE]

\* execute_run: where an execution begins.
Start(m) == IF Mode = "playbook" THEN "load"
            ELSE IF Mode = "chat" /\ ~m.loaded THEN "first" ELSE "decide"

Init == /\ acts = <<>> /\ mem = Blank /\ saved = Blank /\ pc = Start(Blank)
        /\ reply = [kind |-> None] /\ asked = 0 /\ died = 0

Outcomes(c) == {"ok"} \cup IF c \in Commands THEN Errors ELSE Errors \ Exits
Succeeded(S) == \E i \in DOMAIN acts : acts[i].call \in S /\ acts[i].out = "ok"
Failed(S) == \E i \in DOMAIN acts : acts[i].call \in S /\ acts[i].out \in Errors

\* What decide_next_action may return: the answer is parsed, and what does not
\* parse even after one correction is an error.
Replies == {[kind |-> "action", call |-> c] : c \in Calls}
             \cup {[kind |-> "input", call |-> q] : q \in {"q1", "q2"}}
             \cup {[kind |-> k] : k \in {"respond", "replan", "error"}}

\* What stream_next_action may: one tool call, which may be the question to the
\* user, or text.
Streamed == Replies \ {[kind |-> "replan"]}

Respond == [kind |-> "respond"]

\* _stream_final_response: one more call, for an answer only; it may fail.
StreamFinalResponse ==
    /\ asked' = asked + 1 /\ UNCHANGED <<acts, mem, saved, died>>
    /\ \/ reply' = Respond /\ pc' = "decided"
       \/ reply' = reply /\ pc' = "failed"

-----------------------------------------------------------------------------
\* _load_compiled_playbook: the first execution puts the command ahead, unless
\* the run has actions already; then the graph goes on where the run stands.
LoadPlaybook ==
    /\ pc = "load"
    /\ IF mem.loaded THEN UNCHANGED <<mem, saved>>
       ELSE /\ mem' = [mem EXCEPT !.loaded = TRUE,
                         !.ahead = IF acts # <<>> THEN @ ELSE [kind |-> "playbook", call |-> Head(Plan)]]
            /\ saved' = mem'
    /\ pc' = IF acts # <<>> /\ acts[Len(acts)].out = None THEN "act" ELSE "decide"
    /\ UNCHANGED <<acts, reply, asked, died>>

\* execute_chat: the first turn is answered outside the graph and nothing of it
\* is saved, unless the model wants more than an answer: the decision is saved
\* ahead, the run is marked, and the graph is entered with it.
FirstTurn ==
    /\ pc = "first" /\ pc' = "decide"
    /\ \E r \in Streamed : /\ r.kind # "error"
                          /\ mem' = [mem EXCEPT !.loaded = TRUE, !.ahead = r]
    /\ saved' = mem' /\ UNCHANGED <<acts, reply, asked, died>>

FirstAnswer == pc = "first" /\ pc' \in {"done", "failed"} /\ UNCHANGED <<acts, mem, saved, reply, asked, died>>

\* The decision made ahead is taken off and that is saved, before it has a row.
TakeAhead == /\ pc = "decide" /\ mem.ahead.kind # None
             /\ reply' = mem.ahead /\ pc' = "decided" /\ asked' = 0
             /\ mem' = [mem EXCEPT !.ahead = [kind |-> None]] /\ saved' = mem'
             /\ UNCHANGED <<acts, died>>

-----------------------------------------------------------------------------
\* A draft that is ready ends the run, and in a chat a rendered card too.
Finished == Succeeded(IF Mode = "chat" THEN Drafts \cup Renders ELSE Drafts)

\* A chat writes its answer without being asked what to do when a card failed or
\* it has fetched two pages.
WritesAnswer == /\ Mode = "chat"
                /\ \/ Failed(Renders)
                   \/ Cardinality({i \in DOMAIN acts : acts[i].call \in Fetches /\ acts[i].out = "ok"}) >= 2

\* What the run may still use, and that nothing of it is needed, is found out first.
Decide == /\ pc = "decide" /\ mem.ahead.kind = None
          /\ IF Mode = "plan" THEN pc' = "plan" /\ UNCHANGED <<acts, mem, saved, reply, asked, died>>
             ELSE IF Finished THEN pc' = "decided" /\ reply' = Respond /\ UNCHANGED <<acts, mem, saved, asked, died>>
             ELSE IF WritesAnswer THEN StreamFinalResponse
             ELSE pc' = "ask" /\ UNCHANGED <<acts, mem, saved, reply, asked, died>>

\* _decide_from_static_plan: the plan is made once and saved; each decision
\* takes its next step off and saves what is left.
LoadPlan == /\ pc = "plan" /\ ~mem.loaded
            /\ mem' = [mem EXCEPT !.loaded = TRUE, !.left = Plan] /\ saved' = mem'
            /\ asked' = 1 /\ UNCHANGED <<acts, pc, reply, died>>

MutLeft == [mem EXCEPT !.left = IF Len(@) = 1 THEN @ ELSE Tail(@)]
Left == [mem EXCEPT !.left = Tail(@)]

PopPlan == /\ pc = "plan" /\ mem.loaded /\ pc' = "decided"
           /\ IF mem.left = <<>> THEN reply' = Respond /\ UNCHANGED <<mem, saved>>
              ELSE /\ reply' = [kind |-> "action", call |-> Head(mem.left)]
                   /\ mem' = Left /\ saved' = mem'
           /\ UNCHANGED <<acts, asked, died>>

-----------------------------------------------------------------------------
Ask(kinds, next) == \E r \in kinds : /\ reply' = r /\ asked' = asked + 1
                                      /\ pc' = (IF r.kind = "error" THEN "failed" ELSE next)
                                      /\ UNCHANGED <<acts, mem, saved, died>>

AskModel == pc = "ask" /\ Ask(IF Mode = "chat" THEN Streamed ELSE Replies, "question")

\* An agent without tools is asked for its answer, unless the gateway cannot
\* stream: then it is asked like any other.
AnswerDirectly == pc = "ask" /\ Mode = "direct" /\ StreamFinalResponse

\* The question asked last, when the user has answered it.
PendingUserInput == IF mem.answered THEN mem.question ELSE None

\* The question is the one the user has just answered: one correction.
Repeated == reply.kind = "input" /\ reply.call = PendingUserInput

CheckQuestion == /\ pc = "question"
                 /\ IF Repeated THEN Ask(Replies, "replan")
                    ELSE pc' = "replan" /\ UNCHANGED <<acts, mem, saved, reply, asked, died>>

\* A new plan is not the model's to ask for: one correction.
MutAfterReplan == "replan"
AfterReplan == "failure"

CheckReplan == /\ pc = "replan"
               /\ IF reply.kind = "replan" THEN Ask(Replies, AfterReplan)
                  ELSE pc' = "failure" /\ UNCHANGED <<acts, mem, saved, reply, asked, died>>

Tries(n) == SubSeq(acts, Len(acts) - n + 1, Len(acts))

\* _repeated_failed_action: the last action was this command and its exit status
\* was the failure, or the last two actions were this call and failed alike.  A
\* command that failed otherwise may be run once more.
MutKeepsFailing(c) == /\ Len(acts) >= 3 /\ \A i \in 1..3 : Tries(3)[i].call = c /\ Tries(3)[i].out \in Errors
                      /\ Tries(3)[1].out = Tries(3)[2].out /\ Tries(3)[2].out = Tries(3)[3].out
KeepsFailing(c) ==
    \/ /\ c \in Commands /\ acts # <<>>
       /\ acts[Len(acts)].call = c /\ acts[Len(acts)].out \in Exits
    \/ /\ Len(acts) >= 2 /\ \A i \in 1..2 : Tries(2)[i].call = c /\ Tries(2)[i].out \in Errors
       /\ Tries(2)[1].out = Tries(2)[2].out

\* A chat answers instead, with one more call; another run fails.
CheckFailure ==
    /\ pc = "failure"
    /\ IF reply.kind = "action" /\ KeepsFailing(reply.call)
         THEN IF Mode = "chat" THEN StreamFinalResponse
              ELSE pc' = "failed" /\ UNCHANGED <<acts, mem, saved, reply, asked, died>>
         ELSE pc' = "success" /\ UNCHANGED <<acts, mem, saved, reply, asked, died>>

\* _repeats_successful_action: some action with the same tool and required
\* input has succeeded in this run, or some memory.save whatever its input.
MutRepeatsSuccess(c) == acts # <<>> /\ acts[Len(acts)].out = "ok"
                          /\ Signature[acts[Len(acts)].call] = Signature[c]
RepeatsSuccess(c) ==
    Succeeded(IF c \in Saves THEN Saves ELSE {d \in Calls : Signature[d] = Signature[c]})

CheckSuccess ==
    /\ pc = "success"
    /\ IF reply.kind = "action" /\ RepeatsSuccess(reply.call)
         THEN IF Mode = "chat" THEN StreamFinalResponse ELSE Ask(Replies, "corrected")
         ELSE pc' = "decided" /\ UNCHANGED <<acts, mem, saved, reply, asked, died>>

\* The correction is asked without tools; an action that repeats a success even
\* so becomes a response, but whether it keeps failing is not asked again.
CheckCorrected ==
    /\ pc = "corrected" /\ pc' = "decided"
    /\ reply' = IF reply.kind # "action" THEN reply
                ELSE IF RepeatsSuccess(reply.call) THEN Respond
                ELSE [kind |-> "corrected", call |-> reply.call]
    /\ UNCHANGED <<acts, mem, saved, asked, died>>

-----------------------------------------------------------------------------
Chosen == {"action", "corrected", "playbook"}

\* The decide node: an action gets its row, a question waits for the user, a
\* new plan comes back here, a response ends the run or is verified and comes
\* back; the ways back write a checkpoint (repair, replan), and so does waiting.
Route ==
    /\ pc = "decided" /\ reply' = [kind |-> None] /\ asked' = 0 /\ UNCHANGED died
    /\ \/ /\ reply.kind \in Chosen /\ Len(acts) < MaxActions
          /\ acts' = Append(acts, [call |-> reply.call, out |-> None, by |-> reply.kind])
          /\ mem' = [mem EXCEPT !.question = None, !.answered = FALSE]
          /\ pc' = "act" /\ UNCHANGED saved
       \/ /\ reply.kind \in Chosen /\ Len(acts) = MaxActions
          /\ pc' = "failed" /\ UNCHANGED <<acts, mem, saved>>
       \/ /\ reply.kind = "input" /\ pc' = "wait" /\ UNCHANGED acts
          /\ mem' = [mem EXCEPT !.question = reply.call, !.answered = FALSE] /\ saved' = mem'
       \/ /\ reply.kind = "respond" /\ pc' = "done" /\ UNCHANGED <<acts, mem, saved>>
       \/ /\ reply.kind \in {"respond", "replan"} /\ pc' = "decide" /\ UNCHANGED acts
          /\ mem' = [mem EXCEPT !.question = None, !.answered = FALSE] /\ saved' = mem'

Last == acts[Len(acts)]

\* The action is carried out, its observation stored, and a checkpoint written.
Act == /\ pc = "act" /\ pc' = "observe"
       /\ \E o \in Outcomes(Last.call) : acts' = [acts EXCEPT ![Len(acts)].out = o]
       /\ saved' = mem /\ UNCHANGED <<mem, reply, asked, died>>

\* A command whose output is the answer: the playbook's, or one in a chat.
AnswersItself == \/ Last.by = "playbook"
                 \/ Mode = "chat" /\ Last.call \in Commands

\* _retry_static_action: the step is put before what is left of the plan.
Retried == [mem EXCEPT !.left = <<Last.call>> \o @, !.retries[Last.call] = @ + 1]

\* observe_result: what a success does not answer and what failed goes back to the
\* decision, a failure with a checkpoint (repair); a step of a plan or a playbook
\* that failed ends the run, unless it may be tried again.
ObserveResult ==
    /\ pc = "observe" /\ UNCHANGED <<acts, reply, asked, died>>
    /\ \/ Last.out = "ok" /\ AnswersItself /\ pc' = "done" /\ UNCHANGED <<mem, saved>>
       \/ Last.out = "ok" /\ pc' = "decide" /\ UNCHANGED <<mem, saved>>
       \/ /\ Last.out \in Errors /\ Mode # "plan" /\ Last.by # "playbook"
          /\ pc' = "decide" /\ saved' = mem /\ UNCHANGED mem
       \/ /\ Last.out \in Transient /\ Mode = "plan" /\ mem.retries[Last.call] < MaxRetries
          /\ pc' = "decide" /\ mem' = Retried /\ saved' = mem'
       \/ /\ Last.out \in Errors
          /\ \/ Last.by = "playbook"
             \/ Mode = "plan" /\ (Last.out \notin Transient \/ mem.retries[Last.call] = MaxRetries)
          /\ pc' = "failed" /\ UNCHANGED <<mem, saved>>

UserAnswers == /\ pc = "wait" /\ pc' = "decide" /\ mem' = [mem EXCEPT !.answered = TRUE]
               /\ saved' = mem' /\ UNCHANGED <<acts, reply, asked, died>>

\* The process dies; the next one goes on from the saved state, an action
\* without an outcome first.  Whether an outcome was looked at is not asked.
Die == /\ pc \notin {"wait", "done", "failed"} /\ died < MaxTrouble /\ died' = died + 1
       /\ LET pending == acts # <<>> /\ Last.out = None
          IN /\ mem' = IF pending THEN [saved EXCEPT !.question = None, !.answered = FALSE] ELSE saved
             /\ pc' = IF pending /\ Mode # "playbook" THEN "act" ELSE Start(saved)
       /\ reply' = [kind |-> None] /\ asked' = 0 /\ UNCHANGED <<acts, saved>>

Next == \/ LoadPlaybook \/ FirstTurn \/ FirstAnswer \/ TakeAhead \/ Decide \/ LoadPlan \/ PopPlan
        \/ AskModel \/ AnswerDirectly \/ CheckQuestion \/ CheckReplan \/ CheckFailure \/ CheckSuccess
        \/ CheckCorrected \/ Route \/ Act \/ ObserveResult \/ UserAnswers \/ Die

Spec == Init /\ [][Next]_vars

-----------------------------------------------------------------------------
\* Whatever the model answers and wherever the process dies, no action is
\* taken whose tool and required input have succeeded before in the run, no
\* second memory is saved, and nothing is done once a draft is ready.
SuccessNotRepeated == Mode # "plan" => \A i, j \in DOMAIN acts : i < j /\ acts[i].out = "ok" =>
    /\ Signature[acts[i].call] # Signature[acts[j].call] /\ acts[i].call \notin Drafts
    /\ ~ {acts[i].call, acts[j].call} \subseteq Saves

\* A call that failed twice alike is not tried a third time in a row, nor a
\* command again at once whose exit status was a failure, unless the model names
\* it when asked to correct a repeated success.
NoThirdFailure == Mode # "plan" => \A i \in 1..(Len(acts) - 1) :
    LET again(k) == acts[k].call = acts[i].call /\ acts[k].by # "corrected"
    IN /\ ~(acts[i].out \in Exits /\ again(i + 1))
       /\ i + 2 \in DOMAIN acts =>
            ~ /\ acts[i].out \in Errors /\ acts[i].out = acts[i + 1].out
              /\ acts[i + 1].call = acts[i].call /\ again(i + 2)

\* One decision asks the model gateway at most four times, whatever it answers.
CallsBounded == asked <= 4

\* A static plan is carried out step by step, in order, and no step is begun after
\* one that did not succeed: a step is repeated only when it may be tried again,
\* and only so often, and the run answers only when every step has succeeded.
PlanInOrder == Mode = "plan" /\ died = 0 =>
    LET done == {i \in DOMAIN acts : acts[i].out = "ok"} IN
    /\ \A i \in DOMAIN acts : LET k == Cardinality({j \in done : j < i}) + 1
                             IN k \in DOMAIN Plan /\ acts[i].call = Plan[k]
    /\ \A c \in Calls : Cardinality({i \in DOMAIN acts : acts[i].call = c}) <= MaxRetries + 1
    /\ pc = "done" => Cardinality(done) = Len(Plan)

\* Whatever dies in between, no step of the plan is carried out before an earlier
\* one and none succeeds twice.  (A step may be left out: it was taken off the plan
\* and had no row yet, or it had failed and nobody had looked at it.)
PlanNotReversed == Mode = "plan" => \A i, j \in DOMAIN acts : i < j => \E a, b \in DOMAIN Plan :
    /\ acts[i].call = Plan[a] /\ acts[j].call = Plan[b]
    /\ a <= b /\ (a = b => acts[i].out \in Errors)

\* The command of a compiled playbook runs at most once and before anything else,
\* and the run does not go on to other means when it failed, unless a death has
\* kept the process from looking at the failure.
PlaybookOnce == Mode = "playbook" => \A i \in DOMAIN acts : acts[i].by = "playbook" =>
    /\ i = 1
    /\ acts[i].out \in Errors /\ Len(acts) > 1 => died > 0
=============================================================================
