----------------------------- MODULE SessionLog -----------------------------
(***************************************************************************)
(* The event log of one agent session and what is derived from it.  An id  *)
(* is the position of a row (rowid order); a row is never changed or       *)
(* deleted.  Every append writes its head_moved row in the same            *)
(* transaction, so the current head is always the newest row and the       *)
(* head_moved rows themselves are left out.                                *)
(*                                                                         *)
(* Parent links are fixed when a row is written, so the walk up from it is *)
(* kept with the row: `path' is the set of its ancestors.  A parent is     *)
(* older than its child, so the order of a chain is the order of its ids   *)
(* and a chain is a set.  The text of messages is left out, and with it    *)
(* the synthetic summary message, which nothing reads back.                *)
(***************************************************************************)
EXTENDS Naturals, Sequences, FiniteSetsExt

CONSTANTS
  Clauses,      \* spec clauses; each governs one file, named after it
  Contents      \* what a governed file may contain

\* session_meta rows, by their payload.
MetaKinds == {"root", "rule", "check", "compaction", "fork", "escalation",
              "switch"}

MessageKinds == {"user", "assistant", "request", "decision", "result"}

\* The hash of a check names the clause and the content of its file.
Hashes == Clauses \X Contents

NoHash == <<>>

(***************************************************************************)
(* kind   event kind (session_meta: by payload)                            *)
(* path   the ancestors                                                    *)
(* calls  assistant: the calls it requests; request, rule and result: the  *)
(*        call they are about                                              *)
(* ok     decision: allowed; result: the tool ran; check: it passed        *)
(* ref    decision: the request; compaction: to_event                      *)
(* hash   check: clause and content of its file                            *)
(***************************************************************************)
Rows == [kind : MetaKinds \cup MessageKinds, path : SUBSET Nat,
         calls : SUBSET Nat, ok : BOOLEAN, ref : Nat,
         hash : Hashes \cup {NoHash}]

Walk(log, h) == log[h].path \cup {h}

Root == [kind |-> "root", path |-> {}, calls |-> {}, ok |-> FALSE,
         ref |-> 0, hash |-> NoHash]

Row(log, kind, parent) == [Root EXCEPT !.kind = kind,
                                       !.path = Walk(log, parent)]

OfKind(log, chain, kind) == {e \in chain : log[e].kind = kind}

\* Mutant: the covered session_meta rows are folded away with the messages.
Reconstruct_FoldsMeta(log, h) ==
  LET walk == Walk(log, h)
      marks == OfKind(log, walk, "compaction")
  IN IF marks = {} THEN walk
     ELSE {e \in walk : e = 1 \/ e > log[Max(marks)].ref}

\* What stands in for the walk: below the latest compaction marker's to_event
\* only session_meta rows are left.
Reconstruct(log, h) ==
  LET walk == Walk(log, h)
      marks == OfKind(log, walk, "compaction")
      to == log[Max(marks)].ref
  IN IF marks = {} \/ to \notin walk THEN walk
     ELSE {e \in walk : e > to \/ log[e].kind \in MetaKinds}

Answered(log, chain) ==
  UNION {log[e].calls : e \in OfKind(log, chain, "result")}

\* Mutant: a batch that has begun is taken to be complete.
PendingToolCalls_Atomic(log, chain) ==
  LET messages == OfKind(log, chain, "assistant")
      last == log[Max(messages)].calls
  IN IF messages = {} \/ last \cap Answered(log, chain) # {} THEN {} ELSE last

\* The calls of the last assistant message with no result on the chain.
PendingToolCalls(log, chain) ==
  LET messages == OfKind(log, chain, "assistant")
  IN IF messages = {} THEN {}
     ELSE log[Max(messages)].calls \ Answered(log, chain)

Lifecycle(log, chain) ==
  LET messages == OfKind(log, chain, "assistant")
  IN IF messages = {} THEN "active"
     ELSE IF log[Max(messages)].calls = {} THEN "done" ELSE "paused"

\* The requests for call c.  One call is asked about at most once.
RequestsFor(log, chain, c) ==
  {e \in OfKind(log, chain, "request") : c \in log[e].calls}

DecisionsOn(log, chain, request) ==
  {e \in OfKind(log, chain, "decision") : log[e].ref = request}

\* The calls whose answer was "always": their tools are allowed from there on.
AlwaysAllowed(log, chain) ==
  UNION {log[e].calls : e \in OfKind(log, chain, "rule")}

ChecksOf(log, chain, hash) ==
  {e \in OfKind(log, chain, "check") : log[e].hash = hash}

\* Mutant: only the checks since the last user message count.
FailingClauses_Latest(log, chain, content) ==
  {k \in Clauses :
     LET checks == {e \in ChecksOf(log, chain, <<k, content[k]>>) :
                      \A u \in OfKind(log, chain, "user") : u < e}
     IN checks # {} /\ ~ log[Max(checks)].ok}

\* Clauses whose latest check of the present content failed.  A clause with no
\* check of the present content is not among them.
FailingClauses(log, chain, content) ==
  {k \in Clauses :
     LET checks == ChecksOf(log, chain, <<k, content[k]>>)
     IN checks # {} /\ ~ log[Max(checks)].ok}
=============================================================================
