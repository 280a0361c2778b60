------------------------------ MODULE AgentTurn ------------------------------
(***************************************************************************)
(* The turn loop of the native agent runtime over one session: runTurn,    *)
(* step, resolveTools, runObligations and the done-gate, the chat client   *)
(* and the headless command that drive it, and the session commands that   *)
(* write the log from another process (fork, compact) meanwhile.  A turn   *)
(* reads the chain once per step and appends to what it read; it may die   *)
(* between any two writes.  One process at a time drives the session.      *)
(* What the model answers, which content a tool writes, whether the budget *)
(* monitor pauses and whether a step's footprint calls for compaction are  *)
(* left open.                                                              *)
(***************************************************************************)
EXTENDS SessionLog

CONSTANTS
  Good,           \* contents of a governed file its clause's test accepts
  StaticRule,     \* permissions.json: tool -> "allow", "ask", "deny", "none"
  ToolCalls,      \* the calls the model may request
  Grants,         \* tool sets a headless run may be started with (--allow)
  Routed,         \* whether the session has a RoutingContext
  StepLimit,      \* stepLimit of runTurn
  MaxBatch,       \* bound of the model: calls in one assistant message
  MaxCalls,       \* bound of the model: calls in the whole session
  MaxTurns,       \* bound of the model: turns started
  MaxCrashes,     \* bound of the model: turns that die
  MaxForks,       \* bound of the model: session fork commands
  MaxCompactions, \* bound of the model: compactions, manual and automatic
  MaxSwitches,    \* bound of the model: /model commands
  MaxDisturbances \* bound of the model: the last four together

Tools == {"read", "write", "bash"}

ASSUME ConstantsAssumption ==
  /\ Good \subseteq Contents
  /\ StaticRule \in [Tools -> {"allow", "ask", "deny", "none"}]
  /\ ToolCalls \subseteq [tool : Tools, clause : Clauses, relative : BOOLEAN]
  /\ Grants \subseteq SUBSET Tools
  /\ Routed \in BOOLEAN
  /\ {StepLimit, MaxBatch, MaxCalls, MaxTurns, MaxCrashes, MaxForks,
      MaxCompactions, MaxSwitches, MaxDisturbances} \subseteq Nat

VARIABLES
  log,            \* session_event
  calls,          \* the tool calls requested so far; a call id is a position
  content,        \* the governed files
  budgetPaused,   \* the budget_event stream ends in a pause or a block
  tracked,        \* the open chat's idea of the head; 0 if no chat is open
  ask,            \* the permission request the open chat shows; 0 if none
  pc,             \* next step of the running turn
  chain,          \* the chain the running turn works on
  todo,           \* pending calls of the batch
  toCheck,        \* clauses whose obligations the batch has to run
  steps,          \* steps the turn has taken
  fromModel,      \* the step made a model call
  interactive,    \* the turn can pause on an ask
  grants,         \* tools a headless turn allows when asked
  outcome,        \* how the last turn ended
  runs,           \* how often each call has run
  granted,        \* calls that ran on a headless grant
  touched,        \* clauses whose file a tool wrote
  owed,           \* touched clauses not looked at since by an obligation pass
  turns, crashes, forks, compactions, switches

storeVars == <<log, calls, content, budgetPaused>>
chatVars == <<tracked, ask>>
batchVars == <<todo, toCheck>>
turnVars == <<steps, fromModel, interactive, grants>>
effectVars == <<runs, granted, touched, owed>>
boundVars == <<turns, crashes, forks, compactions, switches>>
vars == <<storeVars, chatVars, pc, chain, batchVars, turnVars, outcome, effectVars,
          boundVars>>

Steps == {"idle", "rule", "step", "model", "tools", "ran", "gate", "escalate"}

Outcomes == {"none", "done", "permission", "budget", "step_limit", "error",
             "crash", "fatal"}

TypeOK ==
  /\ log \in Seq(Rows)
  /\ calls \in Seq(ToolCalls)
  /\ content \in [Clauses -> Contents]
  /\ budgetPaused \in BOOLEAN
  /\ {tracked, ask} \subseteq 0..Len(log)
  /\ pc \in Steps
  /\ chain \subseteq DOMAIN log
  /\ todo \subseteq DOMAIN calls
  /\ toCheck \subseteq Clauses
  /\ steps \in 0..StepLimit
  /\ fromModel \in BOOLEAN
  /\ interactive \in BOOLEAN
  /\ grants \subseteq Tools
  /\ outcome \in Outcomes
  /\ runs \in [DOMAIN calls -> Nat]
  /\ granted \subseteq DOMAIN calls
  /\ touched \subseteq Clauses
  /\ owed \subseteq Clauses
  /\ {turns, crashes, forks, compactions, switches} \subseteq Nat

-----------------------------------------------------------------------------
Undisturbed == crashes + forks + compactions + switches < MaxDisturbances

\* The newest row: every append moves the head.
CurrentHead == Len(log)

\* Mutant: the head is not moved along with the batch's own writes.
HeadOf_Stale ==
  LET messages == OfKind(log, chain, "assistant")
  IN IF messages = {} THEN Max(chain) ELSE Max(messages)

\* The last event of the chain the turn works on; its writes extend it.
HeadOf == Max(chain)

\* The turn appends to the chain it has read, wherever the head is by now.
Extend(row) ==
  /\ log' = Append(log, row)
  /\ chain' = chain \cup {Len(log) + 1}

\* The request the chat shows: the last one on the chain.
LastRequest(newLog) ==
  LET requests == OfKind(newLog, Reconstruct(newLog, Len(newLog)), "request")
  IN IF requests = {} THEN 0 ELSE Max(requests)

\* A turn ends and leaves the log as newLog.  The chat that drove it looks up
\* the head again when the turn returns, but not when it throws.
Stop(how, newLog) ==
  /\ pc' = "idle"
  /\ chain' = {}
  /\ todo' = {}
  /\ toCheck' = {}
  /\ steps' = 0
  /\ fromModel' = FALSE
  /\ interactive' = TRUE
  /\ grants' = {}
  /\ outcome' = how
  /\ log' = newLog
  /\ tracked' = CASE how \in {"crash", "fatal"} -> 0
                  [] how = "error" \/ tracked = 0 -> tracked
                  [] OTHER -> Len(newLog)
  /\ ask' = IF how = "permission" /\ tracked # 0 THEN LastRequest(newLog) ELSE 0

\* runTurn on the log newLog: a durable budget pause ends the turn before its
\* first step.
Drive(canAsk, allowed, newLog) ==
  /\ turns' = turns + 1
  /\ IF budgetPaused
       THEN Stop("budget", newLog)
       ELSE /\ pc' = "step"
            /\ chain' = {}
            /\ interactive' = canAsk
            /\ grants' = allowed
            /\ outcome' = "none"
            /\ log' = newLog
            /\ ask' = 0
            /\ UNCHANGED <<tracked, batchVars, steps, fromModel>>

MayStart == pc = "idle" /\ turns < MaxTurns

\* chat --continue: the chat remembers the head it finds.
OpenChat ==
  /\ pc = "idle"
  /\ tracked = 0
  /\ tracked' = CurrentHead
  /\ UNCHANGED <<storeVars, ask, pc, chain, batchVars, turnVars, outcome>>
  /\ UNCHANGED <<effectVars, boundVars>>

\* The user leaves a chat at rest or with a question open.
CloseChat ==
  /\ pc = "idle"
  /\ tracked # 0
  /\ tracked' = 0
  /\ ask' = 0
  /\ UNCHANGED <<storeVars, pc, chain, batchVars, turnVars, outcome>>
  /\ UNCHANGED <<effectVars, boundVars>>

\* chat: a user message after the head the chat remembers, then a turn.  While
\* a question is open the chat is busy and takes no message.
SendUser ==
  /\ MayStart
  /\ tracked # 0
  /\ ask = 0
  /\ Drive(TRUE, {}, Append(log, Row(log, "user", tracked)))
  /\ UNCHANGED <<calls, content, budgetPaused, effectVars>>
  /\ UNCHANGED <<crashes, forks, compactions, switches>>

\* run -p, run --continue: a user message at the head, then a headless turn.
RunContinue ==
  /\ MayStart
  /\ tracked = 0
  /\ \E allowed \in Grants :
       Drive(FALSE, allowed, Append(log, Row(log, "user", CurrentHead)))
  /\ UNCHANGED <<calls, content, budgetPaused, effectVars>>
  /\ UNCHANGED <<crashes, forks, compactions, switches>>

\* resume refuses unless the chain's last message requested tools.
Resume ==
  /\ MayStart
  /\ tracked = 0
  /\ Lifecycle(log, Reconstruct(log, CurrentHead)) = "paused"
  /\ Drive(TRUE, {}, log)
  /\ UNCHANGED <<calls, content, budgetPaused, effectVars>>
  /\ UNCHANGED <<crashes, forks, compactions, switches>>

Asked == ask \in OfKind(log, Reconstruct(log, CurrentHead), "request")

\* answerPermission: the decision; the scoped rule is a second write.
Answer(allow, always) ==
  /\ MayStart
  /\ ask # 0
  /\ Asked
  /\ LET decision == [Row(log, "decision", CurrentHead) EXCEPT !.ok = allow,
                                                               !.ref = ask]
     IN IF always /\ allow
          THEN /\ log' = Append(log, decision)
               /\ pc' = "rule"
               /\ chain' = Walk(log, CurrentHead) \cup {CurrentHead + 1}
               /\ ask' = 0
               /\ UNCHANGED <<tracked, batchVars, turnVars, outcome, turns>>
          ELSE Drive(TRUE, {}, Append(log, decision))
  /\ UNCHANGED <<calls, content, budgetPaused, effectVars>>
  /\ UNCHANGED <<crashes, forks, compactions, switches>>

\* The question has left the chain: nobody catches what answerPermission
\* throws, and the chat is gone.
AnswerThrows ==
  /\ pc = "idle"
  /\ ask # 0
  /\ ~ Asked
  /\ Stop("fatal", log)
  /\ UNCHANGED <<calls, content, budgetPaused, effectVars, boundVars>>

AlwaysAllow ==
  /\ pc = "rule"
  /\ LET decision == Max(chain)
         request == log[decision].ref
     IN Drive(TRUE, {}, Append(log, [Row(log, "rule", decision) EXCEPT
                                       !.calls = log[request].calls]))
  /\ UNCHANGED <<calls, content, budgetPaused, effectVars>>
  /\ UNCHANGED <<crashes, forks, compactions, switches>>

\* /model in a chat at rest: one row, unless the remembered head is stale;
\* then appendModelSwitch throws, nobody catches it, and the chat is gone.
SwitchModel ==
  /\ pc = "idle"
  /\ tracked # 0
  /\ ask = 0
  /\ switches < MaxSwitches /\ Undisturbed
  /\ switches' = switches + 1
  /\ IF tracked = CurrentHead
       THEN /\ log' = Append(log, Row(log, "switch", CurrentHead))
            /\ tracked' = CurrentHead + 1
            /\ UNCHANGED <<ask, pc, chain, batchVars, turnVars, outcome>>
       ELSE Stop("fatal", log)
  /\ UNCHANGED <<calls, content, budgetPaused, effectVars>>
  /\ UNCHANGED <<turns, crashes, forks, compactions>>

-----------------------------------------------------------------------------
LimitReached == steps = StepLimit

\* runTurn's loop and step's first lines: the step limit, one read of the
\* chain, and either what is left of an interrupted batch or a model call.
BeginStep ==
  /\ pc = "step"
  /\ IF LimitReached
       THEN Stop("step_limit", log)
       ELSE LET read == Reconstruct(log, CurrentHead)
                pending == PendingToolCalls(log, read)
            IN /\ chain' = read
               /\ todo' = pending
               /\ fromModel' = (pending = {})
               /\ pc' = IF pending = {} THEN "model" ELSE "tools"
               /\ UNCHANGED <<log, chatVars, toCheck, steps, interactive, grants, outcome>>
  /\ UNCHANGED <<calls, content, budgetPaused, effectVars, boundVars>>

NextStep ==
  /\ pc' = "step"
  /\ chain' = {}
  /\ todo' = {}
  /\ toCheck' = {}
  /\ steps' = steps + 1
  /\ UNCHANGED <<fromModel, interactive, grants, outcome>>

\* The model call ends: the assistant message, then the budget's verdict.
ModelAnswers(requested) ==
  /\ pc = "model"
  /\ Len(calls) + Len(requested) <= MaxCalls
  /\ LET ids == (Len(calls) + 1)..(Len(calls) + Len(requested))
         message == [Row(log, "assistant", HeadOf) EXCEPT !.calls = ids]
     IN /\ calls' = calls \o requested
        /\ runs' = [c \in DOMAIN calls \cup ids |->
                      IF c \in ids THEN 0 ELSE runs[c]]
        /\ \/ /\ Routed
              /\ budgetPaused' = TRUE
              /\ Stop("budget", Append(log, message))
           \/ /\ Extend(message)
              /\ todo' = ids
              /\ pc' = IF requested = <<>> THEN "gate" ELSE "tools"
              /\ UNCHANGED <<budgetPaused, chatVars, toCheck, turnVars, outcome>>
  /\ UNCHANGED <<content, granted, touched, owed, boundVars>>

\* The stream fails, or its retries are used up: nothing was appended.
ModelFails ==
  /\ pc = "model"
  /\ Stop("error", log)
  /\ UNCHANGED <<calls, content, budgetPaused, effectVars, boundVars>>

-----------------------------------------------------------------------------
\* evaluate() over the static rule and the session's scoped rules, which are
\* matched by tool: deny trumps, a static ask wins a tie with a scoped allow.
Evaluate(tool) ==
  LET scoped == \E c \in AlwaysAllowed(log, chain) : calls[c].tool = tool
  IN IF StaticRule[tool] # "none" THEN StaticRule[tool]
     ELSE IF scoped \/ tool = "read" THEN "allow" ELSE "ask"

\* Mutant: any decision on the chain answers, not the call's own.
Decision_OfAny(c) ==
  LET decisions == OfKind(log, chain, "decision")
  IN IF decisions = {} THEN "none"
     ELSE IF log[Max(decisions)].ok THEN "allow" ELSE "deny"

\* The latest decision on the call's own request.
Decision(c) ==
  LET requests == RequestsFor(log, chain, c)
      decisions == DecisionsOn(log, chain, Min(requests))
  IN IF requests = {} \/ decisions = {} THEN "none"
     ELSE IF log[Max(decisions)].ok THEN "allow" ELSE "deny"

\* Mutant: the turn waits for an answer to a request it finds on the chain.
Verdict_Waits(c) ==
  LET tool == calls[c].tool
      action == Evaluate(tool)
  IN IF action # "ask" THEN action
     ELSE IF ~ interactive THEN IF tool \in grants THEN "allow" ELSE "deny"
     ELSE IF Decision(c) # "none" THEN Decision(c)
     ELSE IF RequestsFor(log, chain, c) = {} THEN "pause" ELSE "wait"

\* What becomes of call c; "pause" when nobody has answered yet.
Verdict(c) ==
  LET tool == calls[c].tool
      action == Evaluate(tool)
  IN IF action # "ask" THEN action
     ELSE IF ~ interactive THEN IF tool \in grants THEN "allow" ELSE "deny"
     ELSE IF Decision(c) # "none" THEN Decision(c) ELSE "pause"

\* The clause a path-declaring tool is known to write.  Tool paths are joined
\* to the working directory, so an absolute path names a file no clause has.
DeclaredClauses(c) ==
  IF calls[c].tool = "write" /\ calls[c].relative THEN {calls[c].clause} ELSE {}

\* Calls run in the order of their ids.
Current == Min(todo)

\* The turn pauses; the request is written unless the chain has it already.
PauseForPermission ==
  /\ pc = "tools"
  /\ todo # {}
  /\ Verdict(Current) = "pause"
  /\ LET request == [Row(log, "request", HeadOf) EXCEPT !.calls = {Current}]
     IN Stop("permission", IF RequestsFor(log, chain, Current) = {}
                             THEN Append(log, request) ELSE log)
  /\ UNCHANGED <<calls, content, budgetPaused, effectVars, boundVars>>

AppendResult(ran) ==
  /\ Extend([Row(log, "result", HeadOf) EXCEPT !.calls = {Current},
                                                !.ok = ran])
  /\ todo' = todo \ {Current}
  /\ pc' = "tools"

\* Denied by a rule or an answer, or blocked by the write gate, whose verdict
\* rests on artifact rows that other processes maintain and is left open.
RefuseCall ==
  /\ pc = "tools"
  /\ todo # {}
  /\ \/ Verdict(Current) = "deny"
     \/ Verdict(Current) = "allow" /\ DeclaredClauses(Current) # {}
  /\ AppendResult(FALSE)
  /\ UNCHANGED <<calls, content, budgetPaused, chatVars, toCheck, turnVars, outcome>>
  /\ UNCHANGED <<effectVars, boundVars>>

\* The tool runs; its result is written by the next step.
RunTool ==
  /\ pc = "tools"
  /\ todo # {}
  /\ Verdict(Current) = "allow"
  /\ LET call == calls[Current]
     IN CASE call.tool = "read" ->
               UNCHANGED <<content, toCheck, touched, owed>>
          [] call.tool = "write" ->
               /\ \E v \in Contents : content' = [content EXCEPT ![call.clause] = v]
               /\ toCheck' = toCheck \cup DeclaredClauses(Current)
               /\ touched' = touched \cup {call.clause}
               /\ owed' = owed \cup {call.clause}
          [] call.tool = "bash" ->
               /\ content' \in [Clauses -> Contents]
               /\ toCheck' = Clauses
               /\ LET changed == {k \in Clauses : content'[k] # content[k]}
                  IN /\ touched' = touched \cup changed
                     /\ owed' = owed \cup changed
  /\ runs' = [runs EXCEPT ![Current] = @ + 1]
  /\ granted' = IF Evaluate(calls[Current].tool) = "ask" /\ ~ interactive
                  THEN granted \cup {Current} ELSE granted
  /\ pc' = "ran"
  /\ UNCHANGED <<log, calls, budgetPaused, chatVars, chain, todo, turnVars, outcome>>
  /\ UNCHANGED boundVars

\* The input is not what the tool takes, or the tool throws before it changes
\* anything; the error is the result.
ToolFails ==
  /\ pc = "tools"
  /\ todo # {}
  /\ Verdict(Current) = "allow"
  /\ AppendResult(FALSE)
  /\ UNCHANGED <<calls, content, budgetPaused, chatVars, toCheck, turnVars, outcome>>
  /\ UNCHANGED <<effectVars, boundVars>>

ToolReturns ==
  /\ pc = "ran"
  /\ AppendResult(TRUE)
  /\ UNCHANGED <<calls, content, budgetPaused, chatVars, toCheck, turnVars, outcome>>
  /\ UNCHANGED <<effectVars, boundVars>>

-----------------------------------------------------------------------------
\* Once the batch has its results: one obligation test per written clause,
\* unless the chain has a check of the same content.
RunObligation(k) ==
  /\ pc = "tools"
  /\ todo = {}
  /\ k \in toCheck
  /\ LET hash == <<k, content[k]>>
     IN IF ChecksOf(log, chain, hash) # {}
          THEN UNCHANGED <<log, chain>>
          ELSE Extend([Row(log, "check", HeadOf) EXCEPT
                         !.hash = hash, !.ok = content[k] \in Good])
  /\ toCheck' = toCheck \ {k}
  /\ owed' = owed \ {k}
  /\ UNCHANGED <<calls, content, budgetPaused, chatVars, pc, todo, turnVars, outcome>>
  /\ UNCHANGED <<runs, granted, touched, boundVars>>

\* compactSession: a marker at the head that covers what the head stands for.
CompactLog ==
  /\ compactions < MaxCompactions /\ Undisturbed
  /\ Reconstruct(log, CurrentHead) # {1}
  /\ log' = Append(log, [Row(log, "compaction", CurrentHead) EXCEPT
                           !.ref = CurrentHead])
  /\ compactions' = compactions + 1

\* The step ends with `continue'; one that called the model may compact.
EndStep ==
  /\ pc = "tools"
  /\ todo = {}
  /\ toCheck = {}
  /\ \/ UNCHANGED <<log, compactions>>
     \/ fromModel /\ CompactLog
  /\ NextStep
  /\ UNCHANGED <<calls, content, budgetPaused, chatVars, effectVars>>
  /\ UNCHANGED <<turns, crashes, forks, switches>>

Failing == FailingClauses(log, Reconstruct(log, CurrentHead), content)

\* The done-gate refuses: the failures go back to the model, after them the
\* one-shot escalation marker if the routing ladder has a next rung.
Demote ==
  /\ pc = "gate"
  /\ Failing # {}
  /\ log' = Append(log, Row(log, "user", HeadOf))
  /\ \/ NextStep
     \/ /\ Routed
        /\ pc' = "escalate"
        /\ chain' = chain \cup {Len(log) + 1}
        /\ UNCHANGED <<batchVars, turnVars, outcome>>
  /\ UNCHANGED <<calls, content, budgetPaused, chatVars, effectVars, boundVars>>

Escalate ==
  /\ pc = "escalate"
  /\ log' = Append(log, Row(log, "escalation", HeadOf))
  /\ NextStep
  /\ UNCHANGED <<calls, content, budgetPaused, chatVars, effectVars, boundVars>>

\* The verification report and the end of the session row change no state here.
Done ==
  /\ pc = "gate"
  /\ Failing = {}
  /\ Stop("done", log)
  /\ UNCHANGED <<calls, content, budgetPaused, effectVars, boundVars>>

-----------------------------------------------------------------------------
\* The process dies between two steps, or the user leaves the chat in the
\* middle of a turn; what was written stays.
Crash ==
  /\ pc # "idle"
  /\ crashes < MaxCrashes /\ Undisturbed
  /\ crashes' = crashes + 1
  /\ Stop("crash", log)
  /\ UNCHANGED <<calls, content, budgetPaused, effectVars>>
  /\ UNCHANGED <<turns, forks, compactions, switches>>

\* obligato session fork: a marker at any event becomes the head.
Fork(target) ==
  /\ forks < MaxForks /\ Undisturbed
  /\ forks' = forks + 1
  /\ log' = Append(log, Row(log, "fork", target))
  /\ UNCHANGED <<calls, content, budgetPaused, chatVars, pc, chain, batchVars>>
  /\ UNCHANGED <<turnVars, outcome, effectVars, turns, crashes, compactions, switches>>

\* obligato session compact, whatever the session is doing.
Compact ==
  /\ CompactLog
  /\ UNCHANGED <<calls, content, budgetPaused, chatVars, pc, chain, batchVars>>
  /\ UNCHANGED <<turnVars, outcome, effectVars, turns, crashes, forks, switches>>

\* A session just created, by a chat or for a headless run.  What the files
\* contain before the session touches them plays no part.
Init ==
  /\ log = <<Root>>
  /\ calls = <<>>
  /\ content \in [Clauses -> Good]
  /\ budgetPaused = FALSE
  /\ tracked \in 0..1
  /\ ask = 0
  /\ pc = "idle"
  /\ chain = {}
  /\ todo = {}
  /\ toCheck = {}
  /\ steps = 0
  /\ fromModel = FALSE
  /\ interactive = TRUE
  /\ grants = {}
  /\ outcome = "none"
  /\ runs = <<>>
  /\ granted = {}
  /\ touched = {}
  /\ owed = {}
  /\ turns = 0
  /\ crashes = 0
  /\ forks = 0
  /\ compactions = 0
  /\ switches = 0

\* The messages the model may send: at most MaxBatch calls.
Batches == UNION {[1..n -> ToolCalls] : n \in 0..MaxBatch}

Turn ==
  \/ AlwaysAllow \/ BeginStep
  \/ \E requested \in Batches : ModelAnswers(requested)
  \/ ModelFails
  \/ PauseForPermission \/ RefuseCall \/ RunTool \/ ToolFails \/ ToolReturns
  \/ \E k \in Clauses : RunObligation(k)
  \/ EndStep \/ Demote \/ Escalate \/ Done

Next ==
  \/ OpenChat \/ CloseChat
  \/ SendUser \/ RunContinue \/ Resume
  \/ \E allow, always \in BOOLEAN : Answer(allow, always)
  \/ AnswerThrows \/ SwitchModel
  \/ Turn
  \/ Crash
  \/ \E target \in DOMAIN log : Fork(target)
  \/ Compact

Spec == Init /\ [][Next]_vars

\* A turn that runs goes on: the model call returns or fails, tools return.
FairSpec == Spec /\ WF_vars(Turn)

-----------------------------------------------------------------------------
EventsOf(kind) == OfKind(log, DOMAIN log, kind)

\* The only call a request or a result is about.
CallOf(e) == CHOOSE c \in log[e].calls : TRUE

ToolOf(e) == calls[CallOf(e)].tool

(***************************************************************************)
(* The model is never called on a chain that still owes it a result: every *)
(* call of every earlier message is answered there, whatever pauses,       *)
(* crashes, forks and compactions came between.                            *)
(***************************************************************************)
CallsAnswered ==
  \A m \in EventsOf("assistant") :
    LET before == Reconstruct(log, Max(log[m].path))
    IN \A e \in OfKind(log, before, "assistant") :
         log[e].calls \subseteq Answered(log, before)

(***************************************************************************)
(* On every branch a call has at most one result, and it comes after the   *)
(* message that requested the call.                                        *)
(***************************************************************************)
AnsweredOnce ==
  \A e \in EventsOf("result") :
    /\ \E m \in OfKind(log, log[e].path, "assistant") : log[e].calls \subseteq log[m].calls
    /\ \A f \in OfKind(log, log[e].path, "result") : CallOf(f) # CallOf(e)

(***************************************************************************)
(* A tool ran only because a rule allows it, a headless turn was started   *)
(* with that tool granted, or the latest answer to the request for this    *)
(* very call, on this very branch, was yes.                                *)
(***************************************************************************)
Consent ==
  \A e \in EventsOf("result") :
    log[e].ok =>
      \/ StaticRule[ToolOf(e)] = "allow"
      \/ /\ StaticRule[ToolOf(e)] = "none"
         /\ \/ ToolOf(e) = "read"
            \/ \E r \in OfKind(log, log[e].path, "rule") : ToolOf(r) = ToolOf(e)
      \/ CallOf(e) \in granted
      \/ \E q \in RequestsFor(log, log[e].path, CallOf(e)) :
           LET answers == DecisionsOn(log, log[e].path, q)
           IN answers # {} /\ log[Max(answers)].ok

(***************************************************************************)
(* On one branch the human is asked once per call, and not at all about a  *)
(* tool that was answered `always' there (unless a static rule asks).      *)
(***************************************************************************)
AskedOnce ==
  \A q \in EventsOf("request") :
    /\ RequestsFor(log, log[q].path, CallOf(q)) = {}
    /\ StaticRule[ToolOf(q)] = "none" =>
         \A r \in OfKind(log, log[q].path, "rule") : ToolOf(r) # ToolOf(q)

\* Messages the chat put on an older head than the newest row.
Strays == {e \in EventsOf("user") : log[e].path # Walk(log, e - 1)}

(***************************************************************************)
(* Work is not redone: a call runs again only after a crash that may have  *)
(* cut off its result, or on a branch that left the chain before it.       *)
(***************************************************************************)
RunsBounded ==
  \A c \in DOMAIN calls : runs[c] <= 1 + crashes + forks + Cardinality(Strays)

(***************************************************************************)
(* A turn ends `done' only with every clause it does not still owe a look  *)
(* passing: what a complete batch wrote has been tested as it is now, also *)
(* when pauses, crashes and compactions came between.  (Unless a check was *)
(* recorded on another branch than the one that ends: branches share the   *)
(* files.)                                                                 *)
(***************************************************************************)
DoneIsChecked ==
  [][outcome' = "done" /\ outcome # "done"
       /\ EventsOf("check") \subseteq Walk(log, CurrentHead)
     => \A k \in touched \ owed : content[k] \in Good]_vars

\* A turn ends: it returns, throws or dies.
TurnEnds == pc # "idle" ~> pc = "idle"
=============================================================================
