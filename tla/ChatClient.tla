----------------------------- MODULE ChatClient -----------------------------
(***************************************************************************)
(* `obligato chat`: the reducer of model.ts, the shell of app.ts around it *)
(* (focus, the two menus, the remembered head) and the promise of a turn   *)
(* in flight.  Keys, timer ticks and what the turn reports interleave;     *)
(* between two of them the code runs without a pause, so each is one step  *)
(* with every effect it causes.  What a turn does is AgentTurn's subject:  *)
(* here it calls tools, asks, ends or throws.  The transcript's text,      *)
(* folds, costs and todos are left out.                                    *)
(***************************************************************************)
EXTENDS Naturals, Sequences, SequencesExt

CONSTANTS
  NoAsk,      \* model.ask is null, no ask-menu
  MaxAsks,    \* bound of the model: permission requests
  MaxTicks,   \* bound of the model: the tick count of one turn
  MaxStarts   \* bound of the model: processes

ASSUME ChatAssumption ==
  /\ NoAsk \notin Nat
  /\ MaxAsks \in Nat
  /\ MaxTicks \in Nat
  /\ MaxStarts \in Nat \ {0}

VARIABLES
  model,     \* the reducer's state
  askMenu,   \* the question of the mounted ask-menu
  cmdMenu,   \* the command menu is mounted
  typing,    \* the input line has the keyboard
  drives,    \* calls of drive() that have not returned
  session,   \* the session's chain in the store
  head,      \* the chain up to the event the chat remembers as its head
  behind,    \* the chain goes on after the remembered head
  asked,     \* permission requests in the store
  ended,     \* how the process ended
  restored,  \* the terminal is given back
  starts     \* processes so far

shellVars == <<askMenu, cmdMenu, typing>>
storeVars == <<session, asked>>
headVars == <<head, behind>>
lifeVars == <<ended, restored, starts>>
vars == <<model, shellVars, drives, storeVars, headVars, lifeVars>>

-----------------------------------------------------------------------------
Tabs == {"budget", "tree", "viz"}

\* What a submitted line can be, by the arm of the reducer it takes.
MenuCommands == {"/help", "/model", "/route", "/exit"} \cup Tabs
Lines == MenuCommands \cup
         {"task", "/unknown", "/model same", "/model other", "/model unknown"}

\* `open` holds the start ticks of the activity items without an end.
Models ==
  [busy : BOOLEAN, ask : (1..MaxAsks) \cup {NoAsk}, focus : {"input", "transcript"},
   rail : Tabs \cup {"closed"}, tickCount : 0..MaxTicks, open : Seq(0..MaxTicks)]

createChat ==
  [busy |-> FALSE, ask |-> NoAsk, focus |-> "input", rail |-> "closed",
   tickCount |-> 0, open |-> << >>]

\* The permission requests on a chain, and whether the last has no decision.
Chains == [asks : Seq(1..MaxAsks), pending : BOOLEAN]

TypeOK ==
  /\ model \in Models
  /\ askMenu \in (1..MaxAsks) \cup {NoAsk}
  /\ cmdMenu \in BOOLEAN /\ typing \in BOOLEAN
  /\ behind \in BOOLEAN /\ restored \in BOOLEAN
  /\ drives \in 0..2
  /\ session \in Chains /\ head \in Chains
  /\ asked \in 0..MaxAsks
  /\ ended \in {"running", "left", "fatal", "died"}
  /\ starts \in 1..MaxStarts
  \* The terminal is the user's again only when the process is over, and the
  \* chat always remembers a part of the chain.
  /\ restored => ended # "running"
  /\ behind \/ head = session
  /\ session.pending => session.asks # << >>

Running == ended = "running"

\* redraw: who gets the keyboard.
Focused_IgnoresAsk(m, ask, cmd) == m.focus = "input" /\ ~ cmd

Focused(m, ask, cmd) == m.focus = "input" /\ ask = NoAsk /\ ~ cmd

\* The model after a message, and the redraw that follows every dispatch.
Dispatch(m) ==
  /\ model' = m
  /\ typing' = Focused(m, askMenu', cmdMenu')

\* exitOnCtrlC is off: every regular way out destroys the renderer itself.
Leave ==
  /\ ended' = "left"
  /\ restored' = TRUE
  /\ UNCHANGED starts

\* fatalGuard: an unhandled rejection destroys the renderer, then exits.
Fatal ==
  /\ ended' = "fatal"
  /\ restored' = TRUE
  /\ UNCHANGED starts

\* die() of the typed command: process.exit with the renderer still mounted.
Die ==
  /\ ended' = "died"
  /\ UNCHANGED <<restored, starts>>

-----------------------------------------------------------------------------
\* Mutant: a line entered while a turn runs is taken.
TakesLine_Always(m) == TRUE

\* A line is refused with a notice while the model is busy.
TakesLine(m) == ~ m.busy

\* send_user puts the message after the remembered head: what follows that
\* head in the store leaves the chain.
SendUser ==
  /\ \/ /\ drives' = drives + 1
        /\ session' = head
        /\ behind' = TRUE
        /\ UNCHANGED lifeVars
     \/ /\ Fatal        \* appendEvent throws outside of the catch
        /\ UNCHANGED <<drives, session, behind>>
  /\ UNCHANGED <<head, asked>>

\* A known id: the switch goes after the chain's own head and refuses when
\* that is not the one remembered; nothing catches the refusal.
SwitchModel ==
  /\ IF behind THEN Fatal ELSE UNCHANGED lifeVars
  /\ UNCHANGED <<storeVars, headVars, drives>>

Nothing == UNCHANGED <<storeVars, headVars, lifeVars, drives>>

(***************************************************************************)
(* dispatch(submit), with the effects the reducer answers.  The lines that *)
(* only add to the transcript (/model, an id that is active or unknown)    *)
(* leave what is modelled as it was, and so does an error while idle.      *)
(***************************************************************************)
Submit(line) ==
  IF ~ TakesLine(model) THEN
       /\ cmdMenu' = FALSE /\ UNCHANGED askMenu /\ Dispatch(model) /\ Nothing
  ELSE
    /\ UNCHANGED askMenu
    /\ cmdMenu' = (line \in {"/help", "/unknown"})
    /\ \/ /\ line = "task"
          /\ Dispatch([model EXCEPT !.busy = TRUE, !.tickCount = 0])
          /\ SendUser
       \/ /\ line \in Tabs
          /\ Dispatch([model EXCEPT !.rail = IF @ = line THEN "closed" ELSE line])
          /\ Nothing
       \/ /\ line \in {"/help", "/unknown", "/model", "/model same", "/model unknown"}
          /\ Dispatch(model)
          /\ Nothing
       \/ /\ line = "/model other"
          /\ Dispatch(model)
          /\ SwitchModel
       \/ /\ line = "/route"   \* routeCommand without `explain`
          /\ Dispatch(model)
          /\ Die
          /\ UNCHANGED <<storeVars, headVars, drives>>
       \/ /\ line = "/exit"
          /\ Dispatch(model)
          /\ Leave
          /\ UNCHANGED <<storeVars, headVars, drives>>

\* Enter in the input line.
Enter(line) ==
  /\ Running
  /\ typing
  /\ Submit(line)

\* Enter in the command menu: it is gone before the line is submitted.
MenuRun(line) ==
  /\ Running
  /\ cmdMenu
  /\ Submit(line)

\* handleEscape: the command menu takes it, the ask-menu swallows it, and
\* otherwise it leaves the chat.
Escape ==
  /\ Running
  /\ askMenu = NoAsk
  /\ IF cmdMenu
     THEN /\ cmdMenu' = FALSE
          /\ typing' = TRUE
          /\ UNCHANGED lifeVars
     ELSE /\ Leave
          /\ UNCHANGED <<cmdMenu, typing>>
  /\ UNCHANGED <<model, askMenu, drives, storeVars, headVars>>

CtrlC ==
  /\ Running
  /\ Leave
  /\ UNCHANGED <<model, shellVars, drives, storeVars, headVars>>

Tab ==
  /\ Running
  /\ askMenu = NoAsk /\ ~ cmdMenu
  /\ UNCHANGED <<askMenu, cmdMenu>>
  /\ Dispatch([model EXCEPT !.focus = IF @ = "input" THEN "transcript" ELSE "input"])
  /\ Nothing

Resize ==
  /\ Running
  /\ UNCHANGED <<model, askMenu, cmdMenu>>
  /\ typing' = Focused(model, askMenu, cmdMenu)
  /\ Nothing

Tick ==
  /\ Running
  /\ model.busy
  /\ model.tickCount < MaxTicks
  /\ UNCHANGED <<askMenu, cmdMenu>>
  /\ Dispatch([model EXCEPT !.tickCount = @ + 1])
  /\ Nothing

(***************************************************************************)
(* An entry of the ask-menu is chosen.  The decision goes to the chain's   *)
(* own head, and drive() is called again.                                  *)
(***************************************************************************)
Answer ==
  /\ Running
  /\ askMenu # NoAsk
  /\ askMenu' = NoAsk
  /\ UNCHANGED cmdMenu
  /\ Dispatch([model EXCEPT !.ask = NoAsk])
  /\ IF model.ask # NoAsk /\ Contains(session.asks, model.ask)
     THEN /\ drives' = drives + 1
          /\ session' = IF model.ask = Last(session.asks)
                        THEN [session EXCEPT !.pending = FALSE] ELSE session
          /\ behind' = TRUE
          /\ UNCHANGED lifeVars
     ELSE /\ Fatal        \* answerPermission: no such request on the chain
          /\ UNCHANGED <<drives, session, behind>>
  /\ UNCHANGED <<head, asked>>

-----------------------------------------------------------------------------
(* What the turn in flight reports.                                         *)

Driving == Running /\ drives > 0

\* Mutant: a turn boundary leaves the running items as they are.
closeOpen_Kept(open) == open

\* closeOpen: nothing is left running at a turn boundary.
closeOpen(open) == << >>

AtBoundary(m) ==
  [m EXCEPT !.busy = FALSE, !.tickCount = 0, !.open = closeOpen(@)]

ToolStart ==
  /\ Driving
  /\ ~ session.pending
  /\ model.open = << >>
  /\ UNCHANGED <<askMenu, cmdMenu>>
  /\ Dispatch([model EXCEPT !.open = Append(@, model.tickCount)])
  /\ Nothing

ToolResult ==
  /\ Driving
  /\ model.open # << >>
  /\ UNCHANGED <<askMenu, cmdMenu>>
  /\ Dispatch([model EXCEPT !.open = Front(@)])
  /\ Nothing

\* runTurn returned and drive() reads the head afresh.
Returns(chain) ==
  /\ drives' = drives - 1
  /\ head' = chain
  /\ behind' = FALSE
  /\ UNCHANGED lifeVars

\* Mutant: the chain is searched from its beginning.
Requested_First(chain) == Head(chain.asks)

\* The request drive() shows: the last one on the chain.
Requested(chain) == Last(chain.asks)

(***************************************************************************)
(* The turn pauses for permission: on a request of its own, or again on    *)
(* the one the chain already waits for.  The reducer gets the question,    *)
(* redraws, and then the ask-menu is mounted.                              *)
(***************************************************************************)
TurnAsks ==
  /\ Driving
  /\ model.open = << >>
  /\ session.pending \/ asked < MaxAsks
  /\ LET chain == IF session.pending THEN session
                  ELSE [asks |-> Append(session.asks, asked + 1), pending |-> TRUE]
     IN /\ session' = chain
        /\ asked' = IF session.pending THEN asked ELSE asked + 1
        /\ Returns(chain)
        /\ model' = [model EXCEPT !.ask = Requested(chain)]
        /\ askMenu' = IF askMenu = NoAsk THEN Requested(chain) ELSE askMenu
  /\ typing' = FALSE
  /\ UNCHANGED cmdMenu

\* turn_done: the turn is done, or paused for another reason.
TurnDone ==
  /\ Driving
  /\ ~ session.pending
  /\ model.open = << >>
  /\ UNCHANGED <<askMenu, cmdMenu>>
  /\ Dispatch(AtBoundary(model))
  /\ Returns(session)
  /\ UNCHANGED storeVars

\* Mutant: the error is shown and nothing else.
AfterError_Busy(m) == m

AfterError(m) == AtBoundary(m)

\* drive() rejects: the remembered head stays where it was.
TurnThrows ==
  /\ Driving
  /\ UNCHANGED <<askMenu, cmdMenu>>
  /\ Dispatch(AfterError(model))
  /\ drives' = drives - 1
  /\ UNCHANGED <<storeVars, headVars, lifeVars>>

\* `obligato chat --continue`: a new process on the chain as it stands.
Start ==
  /\ ~ Running
  /\ starts < MaxStarts
  /\ model' = createChat
  /\ askMenu' = NoAsk /\ cmdMenu' = FALSE /\ typing' = TRUE
  /\ drives' = 0
  /\ head' = session /\ behind' = FALSE
  /\ ended' = "running" /\ restored' = FALSE /\ starts' = starts + 1
  /\ UNCHANGED storeVars

-----------------------------------------------------------------------------
Init ==
  /\ model = createChat
  /\ askMenu = NoAsk /\ cmdMenu = FALSE /\ typing = TRUE
  /\ drives = 0
  /\ session = [asks |-> << >>, pending |-> FALSE]
  /\ head = session /\ behind = FALSE
  /\ asked = 0
  /\ ended = "running" /\ restored = FALSE /\ starts = 1

User ==
  \/ \E line \in Lines : Enter(line)
  \/ \E line \in MenuCommands : MenuRun(line)
  \/ Escape \/ CtrlC \/ Tab \/ Resize \/ Answer \/ Start

TurnEvent == ToolStart \/ ToolResult \/ TurnAsks \/ TurnDone \/ TurnThrows

Next == User \/ Tick \/ TurnEvent

Spec == Init /\ [][Next]_vars

\* A turn's calls return, and the turn itself ends (AgentTurn): it does not
\* call tools for ever.  The user need not do anything.
FairSpec ==
  /\ Spec
  /\ WF_vars(ToolResult)
  /\ SF_vars(TurnAsks \/ TurnDone \/ TurnThrows)

-----------------------------------------------------------------------------
(***************************************************************************)
(* The model is busy exactly while one turn is in flight or one question   *)
(* is on the screen, never both, and never two turns: the reducer's `busy' *)
(* is the only thing that keeps two turns from writing to one session.     *)
(***************************************************************************)
BusyIsOneTurn ==
  Running =>
    /\ drives <= 1
    /\ model.busy <=> (drives = 1 \/ model.ask # NoAsk)
    /\ ~ (drives = 1 /\ model.ask # NoAsk)

(***************************************************************************)
(* The keyboard has one owner: an ask-menu shows the reducer's question,   *)
(* the two menus are never up together, and the input line types exactly   *)
(* when no menu is up and the transcript has not the focus - whatever      *)
(* redraws happen while a menu waits.                                      *)
(***************************************************************************)
OneKeyboardOwner ==
  Running =>
    /\ askMenu = model.ask
    /\ ~ (askMenu # NoAsk /\ cmdMenu)
    /\ typing <=> (askMenu = NoAsk /\ ~ cmdMenu /\ model.focus = "input")

(***************************************************************************)
(* No spinner survives its turn, and none has started later than now       *)
(* (UX-36): the elapsed time of a running call is never negative.          *)
(***************************************************************************)
SpinnersEnd ==
  Running =>
    /\ ~ model.busy => model.open = << >>
    /\ \A i \in DOMAIN model.open : model.open[i] <= model.tickCount

(***************************************************************************)
(* The question on the screen is the one the session waits for, so that    *)
(* answering it neither kills the chat nor answers another call.           *)
(***************************************************************************)
ShownIsPending ==
  Running /\ model.ask # NoAsk =>
    /\ session.pending
    /\ model.ask = Last(session.asks)

(***************************************************************************)
(* A busy chat becomes ready, asks the user or is left: an error in the    *)
(* turn does not leave it thinking for ever.                               *)
(***************************************************************************)
BusyEnds ==
  model.busy ~> (~ Running \/ ~ model.busy \/ model.ask # NoAsk)
=============================================================================
