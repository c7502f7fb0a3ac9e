----------------------------- MODULE Compaction -----------------------------
(***************************************************************************)
(* What a model call is shown of a conversation (context_strategies.py and *)
(* _select_input, _prepare_request of openai_agents_sdk.py): all of it,    *)
(* its recent part, or a summary of its first part with the rest, the      *)
(* summary kept in a checkpoint file.  Sizes are counted in items.  The    *)
(* SDK runner that extends the conversation is external.                   *)
(***************************************************************************)
EXTENDS Naturals, Sequences, FiniteSets, SequencesExt

CONSTANTS
  MaxTrim,     \* max_items of trim_recent
  KeepRecent,  \* keep_recent_items of compaction
  TokenLimit,  \* the token limit: 90% of the window, or the earlier trigger
  MaxItems, MaxChanges   \* bounds: items of the conversation, changes to a stored item

ASSUME ContextAssumption == MaxTrim \in Nat

VARIABLES
  strategy,  \* persistent, trim_recent or compaction
  history,   \* the conversation: [kind, call, version]
  running,   \* whether the PI is in a run
  pinned,    \* positions of the steering messages delivered in this run
  stage,     \* of a model call: none, select, summarize, sent
  covered,   \* while summarising: the items that the last summary stands for,
  prefix,    \* that summary: what it tells, and its size,
  extra,     \* and the size of instructions, tools, research and resource text
  checkpoint, \* the file: [covered, digest, summary]
  request,   \* the request that was sent: [summary, from, pins, fits]
  changes

contextVars ==
  <<strategy, history, running, pinned, stage, covered, prefix, extra, checkpoint, request, changes>>

NoSummary == [told |-> <<>>, size |-> 0]
NoFile == [covered |-> 0, digest |-> <<>>, summary |-> NoSummary]
NoRequest == [summary |-> NoSummary, from |-> 0, pins |-> {}, fits |-> TRUE]

ContextInit ==
  /\ strategy \in {"persistent", "trim_recent", "compaction"}
  /\ history = <<>> /\ running = FALSE /\ pinned = {} /\ stage = "none"
  /\ covered = 0 /\ prefix = NoSummary /\ extra = 0 /\ checkpoint = NoFile /\ request = NoRequest /\ changes = 0

Item(kind, call) == [kind |-> kind, call |-> call, version |-> 0]
IsUser(item) == item.kind \in {"task", "steering"}
selecting == <<covered, prefix, extra>>

\* The locals of a model call that is over.
Over == covered' = 0 /\ prefix' = NoSummary /\ extra' = 0

----------------------------------------------------------------------------
(* The conversation *)

Room(n) == Len(history) + n <= MaxItems

\* A run begins with its prompt.
Task ==
  /\ ~running /\ Room(1) /\ running' = TRUE /\ pinned' = {} /\ stage' = "select"
  /\ history' = Append(history, Item("task", 0))
  /\ UNCHANGED <<strategy, selecting, checkpoint, request, changes>>

\* Before a model call: a message of the operator is stored and pinned.
Steer ==
  /\ stage = "select" /\ Room(1)
  /\ history' = Append(history, Item("steering", 0)) /\ pinned' = pinned \cup {Len(history) + 1}
  /\ UNCHANGED <<strategy, running, stage, selecting, checkpoint, request, changes>>

Call(n) == Item("call", Len(history) + n)
Output(n) == Item("output", Len(history) + n)

\* The model calls a tool, with or without a remark, or two of them at once.
Batches == {<<Call(1), Output(1)>>, <<Item("assistant", 0), Call(1), Output(1)>>,
            <<Call(1), Call(2), Output(2), Output(1)>>}

CallTools ==
  /\ stage = "sent" /\ stage' = "select" /\ request' = NoRequest
  /\ \E batch \in Batches : Room(Len(batch)) /\ history' = history \o batch
  /\ UNCHANGED <<strategy, running, pinned, selecting, checkpoint, changes>>

Reply ==
  /\ stage = "sent" /\ Room(1) /\ history' = Append(history, Item("assistant", 0))
  /\ stage' = "none" /\ running' = FALSE /\ pinned' = {} /\ request' = NoRequest
  /\ UNCHANGED <<strategy, selecting, checkpoint, changes>>

\* The run fails or the process dies, at any point; the session and the file stay.
StopRun ==
  /\ running /\ running' = FALSE /\ stage' = "none" /\ pinned' = {} /\ request' = NoRequest /\ Over
  /\ UNCHANGED <<strategy, history, checkpoint, changes>>

\* A stored item is not what it was (another session under this name).
Change ==
  /\ ~running /\ changes < MaxChanges /\ changes' = changes + 1
  /\ \E i \in DOMAIN history : history' = [history EXCEPT ![i].version = @ + 1]
  /\ UNCHANGED <<strategy, running, pinned, stage, selecting, checkpoint, request>>

----------------------------------------------------------------------------
(* Rendering a request: _prepare_request *)

\* The prompt of the run, until a tool was called.
Prompts == {i \in DOMAIN history : history[i].kind = "task" /\ \A j \in i + 1 .. Len(history) : history[j].kind = "steering"}

\* Pinned messages and a prompt that the selection lacks are added to it.
Pins(from) == {i \in pinned \cup Prompts : i <= from}

Size(summary, from, room) == summary.size + Len(history) - from + Cardinality(Pins(from)) + room

\* Fault: pinned messages are not counted.
Fault_Fits(summary, from, room) == summary.size + Len(history) - from + room < TokenLimit

Fits(summary, from, room) == Size(summary, from, room) < TokenLimit

Send(summary, from, room) ==
  /\ request' = [summary |-> summary, from |-> from, pins |-> Pins(from),
                 fits |-> Size(summary, from, room) < TokenLimit]
  /\ stage' = "sent" /\ Over

----------------------------------------------------------------------------
(* TrimRecent.select *)

UserIn(range) == {i \in range : IsUser(history[i])}

\* The first user message of the recent items, or else the last one before them.
FirstKept ==
  LET n == Len(history)
      recent == UserIn(n - MaxTrim + 1 .. n)
      before == UserIn(1 .. n - MaxTrim)
  IN  IF n <= MaxTrim THEN 0
      ELSE IF recent # {} THEN Min(recent) - 1
      ELSE IF before # {} THEN Max(before) - 1 ELSE 0

Select ==
  /\ stage = "select" /\ strategy # "compaction"
  /\ Send(NoSummary, IF strategy = "trim_recent" THEN FirstKept ELSE 0, 0)
  /\ UNCHANGED <<strategy, history, running, pinned, checkpoint, changes>>

----------------------------------------------------------------------------
(* Compaction.select_for_call *)

Calls(kind, i) == {history[j].call : j \in {k \in 1..i : history[k].kind = kind}}

\* Where no call waits for its output: after an output, or between an answer and a user.
Boundaries ==
  {i \in DOMAIN history :
     /\ Calls("call", i) \subseteq Calls("output", i)
     /\ \/ history[i].kind = "output"
        \/ history[i].kind = "assistant" /\ i < Len(history) /\ IsUser(history[i + 1])}

Matches ==
  /\ checkpoint # NoFile /\ checkpoint.covered <= Len(history)
  /\ checkpoint.digest = SubSeq(history, 1, checkpoint.covered)

\* The candidate cuts: none, or those from the preferred one on that leave room.
Cuts(done, summary, room) ==
  LET ahead == {i \in Boundaries : i > done}
      recent == {i \in ahead : i < Len(history)}
      kept == {i \in recent : i + KeepRecent <= Len(history)}
      preferred == IF kept # {} THEN Max(kept) ELSE Min(IF recent # {} THEN recent ELSE ahead)
  IN  IF ahead = {} \/ (recent = {} /\ Fits(summary, done, room)) THEN {}
      ELSE {i \in ahead : i >= preferred /\ Fits(summary, i, room)}

\* With a selection that is too large: summarise up to a cut, or give up.
Shorten(done, summary, room) ==
  /\ IF Cuts(done, summary, room) # {}
     THEN covered' = done /\ prefix' = summary /\ extra' = room /\ stage' = "summarize" /\ UNCHANGED <<running, pinned>>
     ELSE Over /\ stage' = "none" /\ running' = FALSE /\ pinned' = {}
  /\ UNCHANGED request

\* What fits is sent.
SendOrShorten(done, summary, room) ==
  IF Fits(summary, done, room) THEN Send(summary, done, room) /\ UNCHANGED <<running, pinned>>
  ELSE Shorten(done, summary, room)

SelectForCall(room) ==
  LET summary == IF Matches THEN checkpoint.summary ELSE NoSummary
      done == IF Matches THEN checkpoint.covered ELSE 0
  IN  /\ stage = "select" /\ strategy = "compaction"
      /\ SendOrShorten(done, summary, room)
      /\ UNCHANGED <<strategy, history, checkpoint, changes>>

\* The summary of the last summary and the items up to the cut.
Summary(cut, size) == [told |-> prefix.told \o SubSeq(history, covered + 1, cut), size |-> size]

Save(cut, summary, fits) ==
  checkpoint' =
    IF fits THEN [covered |-> cut, digest |-> SubSeq(history, 1, cut), summary |-> summary] ELSE checkpoint

\* The summary comes, and with it new research and resource text; an empty one is an
\* error.
Summarized(size, room) ==
  LET cut == Min(Cuts(covered, prefix, extra))
      summary == Summary(cut, size)
  IN  /\ stage = "summarize"
      /\ Save(cut, summary, Fits(summary, cut, room))
      /\ SendOrShorten(cut, summary, room)
      /\ UNCHANGED <<strategy, history, changes>>

ContextNext ==
  \/ Task \/ Steer \/ CallTools \/ Reply \/ StopRun \/ Change \/ Select
  \/ \E room \in 0..1 : SelectForCall(room) \/ \E size \in 1..2 : Summarized(size, room)

ContextSpec == ContextInit /\ [][ContextNext]_contextVars

----------------------------------------------------------------------------
(* Properties *)

Shown == {i \in DOMAIN history : i > request.from} \cup request.pins

\* Whatever was cut off and however often it was summarised, a request tells every
\* item of the conversation as it is now, in its summary or as itself (but for what
\* trim_recent leaves out); no output is shown without its call nor a call without
\* its output; the prompt and what the operator said in this run are always shown.
RequestsTellEverything ==
  stage = "sent" =>
    /\ strategy # "trim_recent" => request.summary.told = SubSeq(history, 1, request.from)
    /\ \A i, j \in DOMAIN history :
         history[i].call = history[j].call /\ history[i].call # 0 => (i \in Shown <=> j \in Shown)
    /\ pinned \cup Prompts \subseteq Shown

\* A compacted request stays below the limit with all that is added to it, and the
\* checkpoint changes only for the summary of a request that does: a summary that
\* helped nobody, an error and a conversation that is not its own leave it alone.
CheckpointsAreUsed ==
  [][/\ strategy = "compaction" /\ stage # "sent" /\ stage' = "sent" =>
          request'.fits /\ (request'.summary # NoSummary => request'.summary = checkpoint'.summary)
     /\ checkpoint' # checkpoint => stage' = "sent" /\ checkpoint'.summary = request'.summary]_contextVars

\* context_strategies.py: a request tells the whole conversation, and the checkpoint
\* only changes for a request that fits.
NothingIsForgotten == []RequestsTellEverything /\ CheckpointsAreUsed
=============================================================================
