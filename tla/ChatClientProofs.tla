-------------------------- MODULE ChatClientProofs --------------------------
(***************************************************************************)
(* What `obligato chat' guarantees for any number of questions, ticks and  *)
(* processes: one turn at a time, one owner of the keyboard, no running    *)
(* item without a turn, and a question that is the session's own.          *)
(***************************************************************************)
EXTENDS ChatClient, SequenceTheorems, TLAPS

\* The command menu is for an idle chat whose input line had the keyboard.
MenuWhileIdle == Running /\ cmdMenu => ~ model.busy /\ model.focus = "input"

\* The remembered chain waits for a question only if it has one.
HeadAsks == head.pending => head.asks # << >>

\* The four promises need each other: a turn event may change the question only
\* because none is open while a turn runs, and a line starts a turn only
\* because the model is busy while one runs.
IInv ==
  /\ TypeOK
  /\ BusyIsOneTurn
  /\ OneKeyboardOwner
  /\ SpinnersEnd
  /\ ShownIsPending
  /\ MenuWhileIdle
  /\ HeadAsks

-----------------------------------------------------------------------------
LEMMA ElementType ==
  ASSUME NEW S, NEW s \in Seq(S), NEW i \in DOMAIN s
  PROVE  s[i] \in S
OBVIOUS

LEMMA LastType ==
  ASSUME NEW S, NEW s \in Seq(S), s # << >>
  PROVE  Last(s) \in S
<1>1. Len(s) \in 1..Len(s)
  OBVIOUS
<1> QED
  BY <1>1 DEF Last

LEMMA FrontType ==
  ASSUME NEW S, NEW s \in Seq(S), s # << >>
  PROVE  /\ Front(s) \in Seq(S)
         /\ \A i \in DOMAIN Front(s) : i \in DOMAIN s /\ Front(s)[i] = s[i]
<1>1. Len(s) \in Nat \ {0}
  OBVIOUS
<1>2. \A i \in 1 .. Len(s) - 1 : s[i] \in S
  BY <1>1
<1> DEFINE f == SubSeq(s, 1, Len(s) - 1)
<1>3. 1 \in Int /\ Len(s) - 1 \in Int
  BY <1>1
<1>4. /\ f \in Seq(S)
      /\ Len(f) = IF 1 <= Len(s) - 1 THEN (Len(s) - 1) - 1 + 1 ELSE 0
      /\ \A i \in 1 .. (Len(s) - 1) - 1 + 1 : f[i] = s[1 + i - 1]
  BY <1>2, <1>3, SubSeqProperties
<1> HIDE DEF f
<1>5. DOMAIN f = 1 .. Len(s) - 1
  BY <1>1, <1>4
<1>6. ASSUME NEW i \in DOMAIN f PROVE i \in DOMAIN s /\ f[i] = s[i]
  BY <1>1, <1>4, <1>5
<1> QED
  BY <1>4, <1>6 DEF Front, f

\* The last question of a chain is a question.
LEMMA LastAsk ==
  ASSUME NEW chain \in Chains, chain.asks # << >>
  PROVE  Last(chain.asks) \in 1..MaxAsks
BY LastType DEF Chains

LEMMA NoAskIsNoQuestion == NoAsk \notin 1..MaxAsks
BY ChatAssumption

-----------------------------------------------------------------------------
LEMMA InitInvariant == Init => IInv
<1> SUFFICES ASSUME Init PROVE IInv
  OBVIOUS
<1>1. TypeOK
  <2>1. model \in Models
    BY ChatAssumption DEF Init, createChat, Models
  <2>2. session \in Chains /\ head \in Chains
    BY DEF Init, Chains
  <2>3. 1 \in 1..MaxStarts /\ 0 \in 0..MaxAsks
    BY ChatAssumption
  <2>4. /\ asked \in 0..MaxAsks /\ starts \in 1..MaxStarts
        /\ askMenu \in (1..MaxAsks) \cup {NoAsk}
    BY <2>3 DEF Init
  <2>5. session.pending = FALSE
    BY DEF Init
  <2>6. /\ cmdMenu \in BOOLEAN /\ typing \in BOOLEAN /\ behind \in BOOLEAN
        /\ restored \in BOOLEAN /\ ~ restored
    BY DEF Init
  <2>7. drives \in 0..2 /\ head = session /\ ended \in {"running", "left", "fatal", "died"}
    BY DEF Init
  <2> QED
    BY <2>1, <2>2, <2>4, <2>5, <2>6, <2>7 DEF TypeOK
<1>2. BusyIsOneTurn /\ OneKeyboardOwner /\ SpinnersEnd /\ ShownIsPending
  BY DEF Init, createChat, BusyIsOneTurn, OneKeyboardOwner, SpinnersEnd,
         ShownIsPending
<1> QED
  BY <1>1, <1>2 DEF Init, IInv, MenuWhileIdle, HeadAsks

\* A line is entered, in the input line or from the menu.
LEMMA SubmitInvariant ==
  ASSUME IInv, Running, NEW line \in Lines, Submit(line),
         askMenu = NoAsk, typing \/ cmdMenu
  PROVE  IInv'
<1> USE DEF IInv
<1>0. model.ask = NoAsk
  BY DEF OneKeyboardOwner
<1>1. CASE ~ TakesLine(model)
  <2>1. /\ model' = model /\ cmdMenu' = FALSE /\ askMenu' = askMenu
        /\ typing' = Focused(model, askMenu', cmdMenu')
        /\ UNCHANGED <<storeVars, headVars, lifeVars, drives>>
    BY <1>1 DEF Submit, Dispatch, Nothing
  <2> QED
    BY <2>1, <1>0 DEF TypeOK, BusyIsOneTurn, OneKeyboardOwner, SpinnersEnd,
       ShownIsPending, MenuWhileIdle, HeadAsks, Focused, Running, storeVars,
       headVars, lifeVars, Models
<1>2. CASE TakesLine(model)
  <2>1. ~ model.busy /\ drives = 0 /\ model.open = << >>
    BY <1>2 DEF TakesLine, BusyIsOneTurn, SpinnersEnd, TypeOK
  <2>2. askMenu' = askMenu /\ cmdMenu' = (line \in {"/help", "/unknown"})
    BY <1>2 DEF Submit
  <2>3. CASE line = "task"
    <3>0. Dispatch([model EXCEPT !.busy = TRUE, !.tickCount = 0]) /\ SendUser
      BY <1>2, <2>3 DEF Submit, Tabs
    <3>a. model' = [model EXCEPT !.busy = TRUE, !.tickCount = 0]
      BY <3>0 DEF Dispatch
    <3>2. cmdMenu' \in BOOLEAN /\ ~ cmdMenu'
      <4>1. line \notin {"/help", "/unknown"}
        BY <2>3
      <4>2. cmdMenu' \in BOOLEAN
        BY <2>2
      <4>3. ~ cmdMenu'
        BY <2>2, <4>1, <4>2
      <4> QED
        BY <4>2, <4>3
    <3>1. typing' \in BOOLEAN /\ (typing' <=> model.focus = "input" /\ askMenu = NoAsk)
      <4>1. typing' = Focused([model EXCEPT !.busy = TRUE, !.tickCount = 0], askMenu', cmdMenu')
        BY <3>0 DEF Dispatch
      <4> QED
        BY <4>1, <2>2, <3>2 DEF Focused, TypeOK, Models
    <3>3. TypeOK'
      <4>1. model' \in Models
        <5>1. model \in Models
          BY DEF TypeOK
        <5>2. 0 \in 0..MaxTicks
          BY ChatAssumption
        <5> QED
          BY <3>a, <5>1, <5>2 DEF Models
      <4>2. /\ drives' \in 0..2 /\ session' \in Chains /\ head' \in Chains
            /\ asked' \in 0..MaxAsks
        BY <2>1, <3>0 DEF TypeOK, SendUser
      <4>3. /\ ended' \in {"running", "left", "fatal", "died"} /\ starts' \in 1..MaxStarts
            /\ restored' \in BOOLEAN /\ behind' \in BOOLEAN
            /\ restored' => ended' # "running"
        <5>1. CASE UNCHANGED lifeVars /\ behind' = TRUE
          BY <5>1 DEF TypeOK, lifeVars
        <5>2. CASE Fatal /\ UNCHANGED behind
          BY <5>2 DEF TypeOK, Fatal
        <5> QED
          BY <3>0, <5>1, <5>2 DEF SendUser
      <4>4. /\ behind' \/ head' = session'
            /\ session'.pending => session'.asks # <<>>
        BY <3>0 DEF TypeOK, SendUser, Fatal, HeadAsks
      <4> QED
        BY <2>2, <3>1, <3>2, <4>1, <4>2, <4>3, <4>4 DEF TypeOK
    <3>4. BusyIsOneTurn' /\ SpinnersEnd'
      BY <1>0, <2>1, <3>0, <3>a DEF TypeOK, Models, SendUser, Fatal, Running, lifeVars,
         BusyIsOneTurn, SpinnersEnd
    <3>5. OneKeyboardOwner' /\ ShownIsPending' /\ MenuWhileIdle' /\ HeadAsks'
      BY <1>0, <2>1, <2>2, <3>0, <3>a, <3>1, <3>2 DEF TypeOK, Models, SendUser, Fatal, Running, lifeVars,
         OneKeyboardOwner, ShownIsPending, MenuWhileIdle, HeadAsks, Focused
    <3> QED
      BY <3>3, <3>4, <3>5
  <2>4. CASE line # "task"
    <3>1. /\ model' = [model EXCEPT !.rail = model'.rail] /\ model'.rail \in Tabs \cup {"closed"}
          /\ typing' = Focused(model', askMenu', cmdMenu')
      BY <1>2, <2>4 DEF Submit, Dispatch, TypeOK, Models
    <3>2. UNCHANGED <<drives, storeVars, headVars>>
      BY <1>2, <2>4 DEF Submit, Nothing, SwitchModel
    <3>3. UNCHANGED lifeVars \/ (ended' # "running" /\ ended' \in {"left", "fatal", "died"}
            /\ restored' \in BOOLEAN /\ starts' = starts)
      BY <1>2, <2>4 DEF Submit, Nothing, SwitchModel, Fatal, Die, Leave, TypeOK
    <3>4. TypeOK'
      BY <2>2, <3>1, <3>2, <3>3 DEF TypeOK, Models, Focused, lifeVars, storeVars, headVars,
         Running
    <3>5. model.focus = "input"
      BY DEF OneKeyboardOwner, MenuWhileIdle
    <3>6. BusyIsOneTurn' /\ SpinnersEnd' /\ ShownIsPending' /\ HeadAsks'
      BY <1>0, <2>1, <3>1, <3>2, <3>3 DEF TypeOK, Models, Running, lifeVars, storeVars,
         headVars, BusyIsOneTurn, SpinnersEnd, ShownIsPending, HeadAsks
    <3>7. OneKeyboardOwner' /\ MenuWhileIdle'
      BY <1>0, <2>1, <2>2, <3>1, <3>2, <3>3, <3>5 DEF TypeOK, Models, Running, lifeVars,
         OneKeyboardOwner, MenuWhileIdle, Focused
    <3> QED
      BY <3>4, <3>6, <3>7
  <2> QED
    BY <2>3, <2>4
<1> QED
  BY <1>1, <1>2

-----------------------------------------------------------------------------
\* Leaving the chat, or the fatal guard: nothing else is promised afterwards.
LEMMA EndInvariant ==
  ASSUME IInv, ended' \in {"left", "fatal", "died"}, restored' \in BOOLEAN,
         starts' = starts, TypeOK'
  PROVE  IInv' <=> HeadAsks'
BY DEF IInv, BusyIsOneTurn, OneKeyboardOwner, SpinnersEnd, ShownIsPending,
       MenuWhileIdle, Running

LEMMA EscapeInvariant == IInv /\ Escape => IInv'
<1> SUFFICES ASSUME IInv, Escape PROVE IInv'
  OBVIOUS
<1> USE DEF IInv
<1>1. CASE cmdMenu
  BY <1>1 DEF Escape, TypeOK, BusyIsOneTurn, OneKeyboardOwner, SpinnersEnd,
     ShownIsPending, MenuWhileIdle, HeadAsks, Running, lifeVars, storeVars, headVars
<1>2. CASE ~ cmdMenu
  BY <1>2 DEF Escape, Leave, TypeOK, BusyIsOneTurn, OneKeyboardOwner, SpinnersEnd,
     ShownIsPending, MenuWhileIdle, HeadAsks, Running, storeVars, headVars
<1> QED
  BY <1>1, <1>2

LEMMA CtrlCInvariant == IInv /\ CtrlC => IInv'
BY DEF IInv, CtrlC, Leave, TypeOK, BusyIsOneTurn, OneKeyboardOwner, SpinnersEnd,
   ShownIsPending, MenuWhileIdle, HeadAsks, Running, storeVars, headVars, shellVars

\* Tab, a resize and a tick dispatch or redraw, and nothing else.
LEMMA TabInvariant == IInv /\ Tab => IInv'
<1> SUFFICES ASSUME IInv, Tab PROVE IInv'
  OBVIOUS
<1> USE DEF IInv
<1> DEFINE f == IF model.focus = "input" THEN "transcript" ELSE "input"
<1>1. /\ model' = [model EXCEPT !.focus = f] /\ f \in {"input", "transcript"}
      /\ typing' = Focused([model EXCEPT !.focus = f], askMenu', cmdMenu')
      /\ askMenu' = askMenu /\ cmdMenu' = cmdMenu /\ askMenu = NoAsk /\ ~ cmdMenu
      /\ Nothing
  BY DEF Tab, Dispatch, TypeOK, Models
<1> HIDE DEF f
<1>2. model' \in Models /\ model'.focus = f
  BY <1>1 DEF TypeOK, Models
<1>3. typing' \in BOOLEAN /\ (typing' <=> f = "input")
  BY <1>1 DEF Focused, TypeOK, Models
<1>4. TypeOK'
  BY <1>1, <1>2, <1>3 DEF TypeOK, Nothing, storeVars, headVars, lifeVars
<1> QED
  BY <1>1, <1>2, <1>3, <1>4 DEF TypeOK, Models, BusyIsOneTurn, OneKeyboardOwner, SpinnersEnd,
     ShownIsPending, MenuWhileIdle, HeadAsks, Running, Nothing, storeVars, headVars, lifeVars

LEMMA ResizeInvariant == IInv /\ Resize => IInv'
<1> SUFFICES ASSUME IInv, Resize PROVE IInv'
  OBVIOUS
<1> USE DEF IInv
<1>1. typing' \in BOOLEAN /\
      (typing' <=> model.focus = "input" /\ askMenu = NoAsk /\ ~ cmdMenu)
  BY DEF Resize, Focused, TypeOK, Models
<1> QED
  BY <1>1 DEF Resize, Nothing, TypeOK, BusyIsOneTurn, OneKeyboardOwner, SpinnersEnd,
     ShownIsPending, MenuWhileIdle, HeadAsks, Running, storeVars, headVars, lifeVars

LEMMA TickInvariant == IInv /\ Tick => IInv'
<1> SUFFICES ASSUME IInv, Tick PROVE IInv'
  OBVIOUS
<1> USE DEF IInv
<1>1. /\ model' = [model EXCEPT !.tickCount = model.tickCount + 1]
      /\ model.tickCount < MaxTicks /\ model.busy
      /\ askMenu' = askMenu /\ cmdMenu' = cmdMenu /\ Nothing
  BY DEF Tick, Dispatch
<1>2. typing' = Focused([model EXCEPT !.tickCount = model.tickCount + 1], askMenu', cmdMenu')
  BY DEF Tick, Dispatch
<1>3. /\ model' \in Models
      /\ model'.open = model.open /\ model'.tickCount = model.tickCount + 1
      /\ model'.busy = model.busy /\ model'.ask = model.ask /\ model'.focus = model.focus
  <2>1. model \in Models /\ model.tickCount + 1 \in 0..MaxTicks
    BY <1>1, ChatAssumption DEF TypeOK, Models
  <2>2. model' \in Models
    BY <1>1, <2>1 DEF Models
  <2> QED
    BY <1>1, <2>1, <2>2 DEF Models
<1>4. typing' \in BOOLEAN /\
      (typing' <=> model.focus = "input" /\ askMenu = NoAsk /\ ~ cmdMenu)
  BY <1>1, <1>2 DEF Focused, TypeOK, Models
<1>5. TypeOK'
  BY <1>1, <1>3, <1>4 DEF TypeOK, Nothing, storeVars, headVars, lifeVars
<1>6. SpinnersEnd'
  <2>1. ASSUME NEW i \in DOMAIN model.open, Running
        PROVE  model.open[i] <= model.tickCount + 1
    <3>1. model.open \in Seq(0..MaxTicks) /\ model.tickCount \in 0..MaxTicks
      BY DEF TypeOK, Models
    <3>3. model.open[i] \in 0..MaxTicks
      BY <2>1, <3>1, ElementType
    <3>2. model.open[i] <= model.tickCount
      BY <2>1 DEF SpinnersEnd
    <3> QED
      BY <3>1, <3>2, <3>3, ChatAssumption
  <2>2. Running' => Running
    BY <1>1 DEF Nothing, lifeVars, Running
  <2>3. ~ model'.busy => model'.open = << >>
    BY <1>1, <1>3
  <2> QED
    BY <1>3, <2>1, <2>2, <2>3 DEF SpinnersEnd
<1> QED
  BY <1>1, <1>3, <1>4, <1>5, <1>6 DEF BusyIsOneTurn, OneKeyboardOwner,
     ShownIsPending, MenuWhileIdle, HeadAsks, Running, Nothing, storeVars, headVars, lifeVars

-----------------------------------------------------------------------------
\* An answer closes the question and starts the one turn that was waiting.
LEMMA AnswerInvariant == IInv /\ Answer => IInv'
<1> SUFFICES ASSUME IInv, Answer PROVE IInv'
  OBVIOUS
<1> USE DEF IInv
<1>1. /\ Running /\ model.ask # NoAsk /\ drives = 0 /\ model.busy /\ ~ cmdMenu
      /\ model.ask = Last(session.asks) /\ session.pending
  BY DEF Answer, OneKeyboardOwner, BusyIsOneTurn, MenuWhileIdle, ShownIsPending, TypeOK
<1>2. /\ model' = [model EXCEPT !.ask = NoAsk]
      /\ typing' = Focused([model EXCEPT !.ask = NoAsk], askMenu', cmdMenu')
      /\ askMenu' = NoAsk /\ cmdMenu' = cmdMenu
      /\ head' = head /\ asked' = asked
  BY DEF Answer, Dispatch
<1>3. /\ model' \in Models /\ model'.ask = NoAsk
      /\ model'.open = model.open /\ model'.tickCount = model.tickCount
      /\ model'.busy = model.busy /\ model'.focus = model.focus
  <2>1. model \in Models
    BY DEF TypeOK
  <2> QED
    BY <1>2, <2>1 DEF Models
<1>4. typing' \in BOOLEAN /\ (typing' <=> model.focus = "input")
  BY <1>1, <1>2 DEF Focused, TypeOK, Models
<1>5. CASE /\ drives' = drives + 1 /\ behind' = TRUE /\ UNCHANGED lifeVars
           /\ session' \in {session, [session EXCEPT !.pending = FALSE]}
  <2>1. session' \in Chains /\ session'.asks = session.asks
    BY <1>5 DEF TypeOK, Chains
  <2>2. TypeOK'
    BY <1>1, <1>2, <1>3, <1>4, <1>5, <2>1 DEF TypeOK, lifeVars
  <2> QED
    BY <1>1, <1>2, <1>3, <1>4, <1>5, <2>2 DEF BusyIsOneTurn, OneKeyboardOwner,
       SpinnersEnd, ShownIsPending, MenuWhileIdle, HeadAsks, Running, lifeVars
<1>6. CASE Fatal /\ UNCHANGED <<drives, session, behind>>
  <2>1. TypeOK'
    BY <1>2, <1>3, <1>4, <1>6 DEF TypeOK, Fatal
  <2> QED
    BY <1>2, <1>6, <2>1, EndInvariant DEF Fatal, HeadAsks
<1> QED
  BY <1>5, <1>6 DEF Answer

LEMMA StartInvariant == IInv /\ Start => IInv'
<1> SUFFICES ASSUME IInv, Start PROVE IInv'
  OBVIOUS
<1> USE DEF IInv
<1>1. model' \in Models /\ model'.ask = NoAsk /\ model'.open = << >>
      /\ model'.focus = "input" /\ model'.busy = FALSE
  BY ChatAssumption DEF Start, createChat, Models
<1>2. typing' \in BOOLEAN /\ typing' /\ cmdMenu' \in BOOLEAN /\ ~ cmdMenu'
      /\ restored' \in BOOLEAN /\ ~ restored' /\ behind' \in BOOLEAN
  BY DEF Start
<1>3. starts' \in 1..MaxStarts
  BY ChatAssumption DEF Start, TypeOK
<1>4. drives' = 0 /\ head' = session' /\ session' = session /\ asked' = asked
      /\ askMenu' = NoAsk
  BY DEF Start, storeVars
<1>5. TypeOK'
  BY <1>1, <1>2, <1>3, <1>4 DEF Start, TypeOK
<1> QED
  BY <1>1, <1>2, <1>4, <1>5 DEF TypeOK, BusyIsOneTurn, OneKeyboardOwner,
     SpinnersEnd, ShownIsPending, MenuWhileIdle, HeadAsks, Start, Running

-----------------------------------------------------------------------------
LEMMA ToolStartInvariant == IInv /\ ToolStart => IInv'
<1> SUFFICES ASSUME IInv, ToolStart PROVE IInv'
  OBVIOUS
<1> USE DEF IInv
<1>1. /\ Running /\ drives = 1 /\ model.busy /\ model.ask = NoAsk /\ model.open = << >>
      /\ askMenu = NoAsk /\ ~ cmdMenu
      /\ askMenu' = askMenu /\ cmdMenu' = cmdMenu /\ Nothing
  BY DEF ToolStart, Driving, BusyIsOneTurn, OneKeyboardOwner, MenuWhileIdle, TypeOK, Models
<1>2. /\ model' = [model EXCEPT !.open = <<model.tickCount>>]
      /\ typing' = Focused(model', askMenu', cmdMenu')
  BY <1>1 DEF ToolStart, Dispatch
<1>3. /\ model' \in Models
      /\ model'.open = <<model.tickCount>> /\ model'.tickCount = model.tickCount
      /\ model'.busy = model.busy /\ model'.ask = model.ask /\ model'.focus = model.focus
  <2>1. model \in Models /\ model.tickCount \in 0..MaxTicks
    BY DEF TypeOK, Models
  <2>2. <<model.tickCount>> \in Seq(0..MaxTicks)
    BY <2>1
  <2> QED
    BY <1>2, <2>1, <2>2 DEF Models
<1>4. typing' \in BOOLEAN /\ (typing' <=> model.focus = "input")
  BY <1>1, <1>2, <1>3 DEF Focused
<1>5. TypeOK'
  BY <1>1, <1>3, <1>4 DEF TypeOK, Nothing, storeVars, headVars, lifeVars
<1>6. SpinnersEnd'
  <2>1. model.tickCount \in Nat
    BY ChatAssumption DEF TypeOK, Models
  <2> QED
    BY <1>1, <1>3, <2>1 DEF SpinnersEnd
<1> QED
  BY <1>1, <1>3, <1>4, <1>5, <1>6 DEF BusyIsOneTurn, OneKeyboardOwner,
     ShownIsPending, MenuWhileIdle, HeadAsks, Running, Nothing, storeVars, headVars, lifeVars

LEMMA ToolResultInvariant == IInv /\ ToolResult => IInv'
<1> SUFFICES ASSUME IInv, ToolResult PROVE IInv'
  OBVIOUS
<1> USE DEF IInv
<1>1. /\ Running /\ drives = 1 /\ model.busy /\ model.ask = NoAsk /\ model.open # << >>
      /\ askMenu = NoAsk /\ ~ cmdMenu
      /\ askMenu' = askMenu /\ cmdMenu' = cmdMenu /\ Nothing
  BY DEF ToolResult, Driving, BusyIsOneTurn, OneKeyboardOwner, MenuWhileIdle, TypeOK, Models
<1>2. /\ model' = [model EXCEPT !.open = Front(model.open)]
      /\ typing' = Focused(model', askMenu', cmdMenu')
  BY <1>1 DEF ToolResult, Dispatch
<1>3. model \in Models /\ model.open \in Seq(0..MaxTicks)
  BY DEF TypeOK, Models
<1>4. /\ Front(model.open) \in Seq(0..MaxTicks)
      /\ \A i \in DOMAIN Front(model.open) :
           i \in DOMAIN model.open /\ Front(model.open)[i] = model.open[i]
  BY <1>1, <1>3, FrontType
<1>5. /\ model' \in Models
      /\ model'.open = Front(model.open) /\ model'.tickCount = model.tickCount
      /\ model'.busy = model.busy /\ model'.ask = model.ask /\ model'.focus = model.focus
  BY <1>2, <1>3, <1>4 DEF Models
<1>6. typing' \in BOOLEAN /\ (typing' <=> model.focus = "input")
  BY <1>1, <1>2, <1>5 DEF Focused
<1>7. TypeOK'
  BY <1>1, <1>5, <1>6 DEF TypeOK, Nothing, storeVars, headVars, lifeVars
<1>8. SpinnersEnd'
  BY <1>1, <1>4, <1>5 DEF SpinnersEnd
<1> QED
  BY <1>1, <1>5, <1>6, <1>7, <1>8 DEF BusyIsOneTurn, OneKeyboardOwner,
     ShownIsPending, MenuWhileIdle, HeadAsks, Running, Nothing, storeVars, headVars, lifeVars

\* The turn asks: its question becomes the chat's, and the last of the chain.
LEMMA TurnAsksInvariant == IInv /\ TurnAsks => IInv'
<1> SUFFICES ASSUME IInv, TurnAsks PROVE IInv'
  OBVIOUS
<1> USE DEF IInv
<1>1. /\ Running /\ drives = 1 /\ model.busy /\ model.ask = NoAsk /\ model.open = << >>
      /\ askMenu = NoAsk /\ ~ cmdMenu
  BY DEF TurnAsks, Driving, BusyIsOneTurn, OneKeyboardOwner, MenuWhileIdle, TypeOK, Models
<1>2. /\ drives' = drives - 1 /\ head' = session' /\ behind' = FALSE
      /\ UNCHANGED lifeVars /\ typing' = FALSE /\ cmdMenu' = cmdMenu
      /\ model' = [model EXCEPT !.ask = Last(session'.asks)]
      /\ askMenu' = Last(session'.asks)
  BY <1>1 DEF TurnAsks, Returns, Requested
<1>3. /\ session' \in Chains /\ session'.pending /\ session'.asks # << >>
      /\ asked' \in 0..MaxAsks
  <2>1. CASE session.pending
    <3>1. session' = session /\ asked' = asked
      BY <2>1 DEF TurnAsks
    <3> QED
      BY <2>1, <3>1 DEF TypeOK
  <2>2. CASE ~ session.pending
    <3>1. /\ session' = [asks |-> Append(session.asks, asked + 1), pending |-> TRUE]
          /\ asked' = asked + 1 /\ asked < MaxAsks
      BY <2>2 DEF TurnAsks
    <3>2. session.asks \in Seq(1..MaxAsks) /\ asked \in 0..MaxAsks
      BY DEF TypeOK, Chains
    <3>3. asked + 1 \in 1..MaxAsks
      BY <3>1, <3>2, ChatAssumption
    <3>4. /\ Append(session.asks, asked + 1) \in Seq(1..MaxAsks)
          /\ Append(session.asks, asked + 1) # << >>
      BY <3>2, <3>3, AppendProperties
    <3> QED
      BY <3>1, <3>3, <3>4 DEF Chains
  <2> QED
    BY <2>1, <2>2
<1>4. Last(session'.asks) \in 1..MaxAsks /\ Last(session'.asks) # NoAsk
  BY <1>3, LastAsk, NoAskIsNoQuestion
<1>5. /\ model' \in Models /\ model'.ask = Last(session'.asks)
      /\ model'.open = model.open /\ model'.busy = model.busy /\ model'.focus = model.focus
  <2>1. model \in Models
    BY DEF TypeOK
  <2> QED
    BY <1>2, <1>4, <2>1 DEF Models
<1>6. /\ typing' \in BOOLEAN /\ ~ typing' /\ cmdMenu' \in BOOLEAN /\ ~ cmdMenu'
      /\ behind' \in BOOLEAN /\ drives' = 0
  <2>1. typing' \in BOOLEAN /\ behind' \in BOOLEAN
    BY <1>2
  <2>2. ~ typing'
    BY <1>2
  <2>3. cmdMenu' \in BOOLEAN
    BY <1>2 DEF TypeOK
  <2>4. ~ cmdMenu'
    BY <1>1, <1>2
  <2>5. drives' = 0
    BY <1>1, <1>2
  <2> QED
    BY <2>1, <2>2, <2>3, <2>4, <2>5
<1>7. TypeOK'
  BY <1>2, <1>3, <1>4, <1>5, <1>6 DEF TypeOK, lifeVars
<1> QED
  BY <1>1, <1>2, <1>3, <1>4, <1>5, <1>6, <1>7 DEF BusyIsOneTurn, OneKeyboardOwner,
     SpinnersEnd, ShownIsPending, MenuWhileIdle, HeadAsks, Running, lifeVars

\* The end of a turn, by itself or by an error, whatever the chat remembers.
LEMMA BoundaryInvariant ==
  ASSUME IInv, Driving, model' = AtBoundary(model),
         typing' = Focused(model', askMenu', cmdMenu'),
         askMenu' = askMenu, cmdMenu' = cmdMenu, drives' = drives - 1,
         UNCHANGED <<storeVars, lifeVars>>,
         head' \in {head, session}, behind' \in BOOLEAN, behind' \/ head' = session
  PROVE  IInv'
<1> USE DEF IInv
<1>1. /\ Running /\ drives = 1 /\ model.ask = NoAsk /\ askMenu = NoAsk /\ ~ cmdMenu
  BY DEF Driving, BusyIsOneTurn, OneKeyboardOwner, MenuWhileIdle, TypeOK, Models
<1>2. /\ model' \in Models /\ model'.open = << >> /\ model'.busy = FALSE
      /\ model'.ask = model.ask /\ model'.focus = model.focus
  <2>1. model \in Models /\ 0 \in 0..MaxTicks /\ << >> \in Seq(0..MaxTicks)
    BY ChatAssumption DEF TypeOK
  <2>2. model' = [model EXCEPT !.busy = FALSE, !.tickCount = 0, !.open = << >>]
    BY DEF AtBoundary, closeOpen
  <2>3. model' \in Models
    BY <2>1, <2>2 DEF Models
  <2> QED
    BY <2>1, <2>2 DEF Models
<1>3. typing' \in BOOLEAN /\ (typing' <=> model.focus = "input")
  BY <1>1, <1>2 DEF Focused
<1>4. head' \in Chains /\ (head'.pending => head'.asks # << >>)
  BY DEF TypeOK, HeadAsks
<1>5. TypeOK'
  BY <1>1, <1>2, <1>3, <1>4 DEF TypeOK, storeVars, lifeVars
<1> QED
  BY <1>1, <1>2, <1>3, <1>4, <1>5 DEF BusyIsOneTurn, OneKeyboardOwner, SpinnersEnd,
     ShownIsPending, MenuWhileIdle, HeadAsks, Running, storeVars, lifeVars

LEMMA TurnDoneInvariant == IInv /\ TurnDone => IInv'
<1> SUFFICES ASSUME IInv, TurnDone PROVE IInv'
  OBVIOUS
<1>1. /\ Driving /\ model' = AtBoundary(model)
      /\ typing' = Focused(model', askMenu', cmdMenu')
      /\ askMenu' = askMenu /\ cmdMenu' = cmdMenu
      /\ drives' = drives - 1 /\ head' = session /\ behind' = FALSE
      /\ UNCHANGED <<storeVars, lifeVars>>
  BY DEF TurnDone, Dispatch, Returns
<1>2. behind' \in BOOLEAN /\ head' \in {head, session}
  BY <1>1
<1> QED
  BY <1>1, <1>2, BoundaryInvariant

LEMMA TurnThrowsInvariant == IInv /\ TurnThrows => IInv'
<1> SUFFICES ASSUME IInv, TurnThrows PROVE IInv'
  OBVIOUS
<1>1. /\ Driving /\ model' = AtBoundary(model)
      /\ typing' = Focused(model', askMenu', cmdMenu')
      /\ askMenu' = askMenu /\ cmdMenu' = cmdMenu
      /\ drives' = drives - 1 /\ head' = head /\ behind' = behind
      /\ UNCHANGED <<storeVars, lifeVars>>
  BY DEF TurnThrows, AfterError, Dispatch, headVars
<1>2. /\ behind' \in BOOLEAN /\ head' \in {head, session}
      /\ behind' \/ head' = session
  BY <1>1 DEF IInv, TypeOK
<1> QED
  BY <1>1, <1>2, BoundaryInvariant

-----------------------------------------------------------------------------
LEMMA EnterInvariant ==
  ASSUME IInv, NEW line \in Lines, Enter(line)
  PROVE  IInv'
<1>1. Running /\ typing /\ askMenu = NoAsk /\ Submit(line)
  BY DEF Enter, IInv, OneKeyboardOwner
<1> QED
  BY <1>1, SubmitInvariant

LEMMA MenuRunInvariant ==
  ASSUME IInv, NEW line \in MenuCommands, MenuRun(line)
  PROVE  IInv'
<1>1. Running /\ cmdMenu /\ askMenu = NoAsk /\ Submit(line) /\ line \in Lines
  BY DEF MenuRun, IInv, OneKeyboardOwner, Lines
<1> QED
  BY <1>1, SubmitInvariant

LEMMA NextInvariant == IInv /\ [Next]_vars => IInv'
<1> SUFFICES ASSUME IInv, [Next]_vars PROVE IInv'
  OBVIOUS
<1>1. CASE User
  <2>1. ASSUME NEW line \in Lines, Enter(line) PROVE IInv'
    BY <2>1, EnterInvariant
  <2>2. ASSUME NEW line \in MenuCommands, MenuRun(line) PROVE IInv'
    BY <2>2, MenuRunInvariant
  <2> QED
    BY <1>1, <2>1, <2>2, EscapeInvariant, CtrlCInvariant, TabInvariant, ResizeInvariant,
       AnswerInvariant, StartInvariant DEF User
<1>2. CASE Tick
  BY <1>2, TickInvariant
<1>3. CASE TurnEvent
  BY <1>3, ToolStartInvariant, ToolResultInvariant, TurnAsksInvariant,
     TurnDoneInvariant, TurnThrowsInvariant DEF TurnEvent
<1>4. CASE UNCHANGED vars
  BY <1>4 DEF IInv, TypeOK, BusyIsOneTurn, OneKeyboardOwner, SpinnersEnd, ShownIsPending,
     MenuWhileIdle, HeadAsks, Running, vars, shellVars, storeVars, headVars, lifeVars
<1> QED
  BY <1>1, <1>2, <1>3, <1>4 DEF Next

-----------------------------------------------------------------------------
\* The inductive invariant holds of every behaviour of the chat.
THEOREM Invariant == Spec => []IInv
<1> QED
  BY InitInvariant, NextInvariant, PTL DEF Spec

\* Every variable keeps to its values; the terminal is given back only when the
\* process is over.
THEOREM TypeCorrect == Spec => []TypeOK
<1>1. IInv => TypeOK
  BY DEF IInv
<1> QED
  BY <1>1, Invariant, PTL

\* The reducer's `busy' admits one turn: drive() is never called while another
\* call of it runs or a question waits.
THEOREM OneTurn == Spec => []BusyIsOneTurn
<1>1. IInv => BusyIsOneTurn
  BY DEF IInv
<1> QED
  BY <1>1, Invariant, PTL

\* redraw never gives the keyboard to two, and never takes it from the menu
\* that waits for an answer.
THEOREM OneOwner == Spec => []OneKeyboardOwner
<1>1. IInv => OneKeyboardOwner
  BY DEF IInv
<1> QED
  BY <1>1, Invariant, PTL

\* closeOpen leaves no running item to an idle chat, by every end of a turn.
THEOREM NoSpinnerLeft == Spec => []SpinnersEnd
<1>1. IInv => SpinnersEnd
  BY DEF IInv
<1> QED
  BY <1>1, Invariant, PTL

\* The question drive() shows is the last of the session's chain and still
\* waits for its decision, also after a restart and after an error.
THEOREM QuestionIsPending == Spec => []ShownIsPending
<1>1. IInv => ShownIsPending
  BY DEF IInv
<1> QED
  BY <1>1, Invariant, PTL
=============================================================================
