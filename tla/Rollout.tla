------------------------------- MODULE Rollout -------------------------------
(***************************************************************************)
(* Reading a Codex rollout: RolloutReader of live_trace/codex.py applies   *)
(* the lines in order and builds the turns; observations_for of            *)
(* observations.py says which observations of a turn are complete.  A line *)
(* is what decode makes of it and the time it was written.  Texts are left *)
(* out, except the prompt, which is the time of its line.                  *)
(***************************************************************************)
EXTENDS Naturals, Sequences

None == "none"

\* A line of a rollout; id is a turn or a call.
Line(kind, id, time) == [kind |-> kind, id |-> id, time |-> time]

NewTurn(line) ==
  [id |-> line.id, started |-> line.time, prompt |-> 0, steps |-> <<>>, tools |-> <<>>,
   records |-> 0, end |-> None]

Newest(turns) == turns[Len(turns)]

IsOpen(turns) == turns # <<>> /\ Newest(turns).end = None

\* The model response a line belongs to: the last one, or a new one if that is complete.
OpenStep(steps) ==
  IF steps = <<>> \/ steps[Len(steps)].done THEN Append(steps, [calls |-> 0, done |-> FALSE]) ELSE steps

AddCall(turn, id, done) ==
  LET steps == OpenStep(turn.steps)
  IN  [turn EXCEPT !.steps = [steps EXCEPT ![Len(steps)].calls = @ + 1],
                   !.tools = Append(@, [id |-> id, done |-> done])]

Return(tools, id) == [n \in DOMAIN tools |-> [tools[n] EXCEPT !.done = @ \/ tools[n].id = id]]

\* What a line does to the open turn it was written in.
Within(turn, awaiting, line) ==
  CASE line.kind = "user" /\ awaiting -> [turn EXCEPT !.prompt = line.time]
    [] line.kind = "completed" -> [turn EXCEPT !.end = "complete"]
    [] line.kind = "aborted" -> [turn EXCEPT !.end = "aborted"]
    [] line.kind = "usage" /\ turn.steps # <<>> -> [turn EXCEPT !.steps[Len(turn.steps)].done = TRUE]
    [] line.kind = "return" -> [turn EXCEPT !.tools = Return(@, line.id)]
    [] line.kind = "assistant" -> [turn EXCEPT !.steps = OpenStep(@)]
    [] line.kind = "request" -> AddCall(turn, line.id, FALSE)
    [] line.kind = "instant" -> AddCall(turn, line.id, TRUE)
    [] line.kind \in {"item", "unrecognized"} -> [turn EXCEPT !.records = @ + 1]
    [] OTHER -> turn

\* The prompt is awaited from the turn's settings until the model answers.
Awaiting(reader, line) ==
  CASE line.kind = "settings" -> Newest(reader.turns).steps = <<>>
    [] line.kind \in {"assistant", "request", "instant"} -> FALSE
    [] OTHER -> reader.awaiting

\* A turn that a later one follows was superseded.
EndLast(turns) == IF IsOpen(turns) THEN [turns EXCEPT ![Len(turns)].end = "superseded"] ELSE turns

Apply(reader, line) ==
  IF line.kind = "started"
  THEN [turns |-> Append(EndLast(reader.turns), NewTurn(line)), awaiting |-> FALSE]
  ELSE IF IsOpen(reader.turns)
  THEN [turns |-> [reader.turns EXCEPT ![Len(reader.turns)] = Within(@, reader.awaiting, line)],
        awaiting |-> Awaiting(reader, line)]
  ELSE reader

\* A rollout before its first turn; parsing a rollout folds Apply over its lines.
Empty == [turns |-> <<>>, awaiting |-> FALSE]

----------------------------------------------------------------------------

\* An observation is of a kind, the n-th of that kind in its turn, and says something.
Piece(kind, n, says) == [kind |-> kind, n |-> n, says |-> says]

\* Of the pieces of a turn those of earlier kinds are sent first, and the root last.
Rank == [started |-> 1, step |-> 2, tool |-> 3, record |-> 4, root |-> 5]

\* The pieces of a sequence (of responses, of calls) that are complete.
Pieces(kind, parts, all) == {Piece(kind, n, parts[n]) : n \in {k \in DOMAIN parts : all \/ parts[k].done}}

RootOf(turn, end) == Piece("root", 0, [end |-> end, prompt |-> turn.prompt, tools |-> Len(turn.tools)])

\* Every observation of a turn that is complete now; finalize ends an open turn.
Observations(turn, finalize) ==
  LET end == IF turn.end = None /\ finalize THEN "stopped" ELSE turn.end
      ended == end # None
  IN  {p \in {Piece("started", 0, [prompt |-> turn.prompt])} : turn.prompt # 0}
        \cup Pieces("step", turn.steps, ended) \cup Pieces("tool", turn.tools, ended)
        \cup {Piece("record", n, [record |-> n]) : n \in 1..turn.records}
        \cup {p \in {RootOf(turn, end)} : ended}
=============================================================================
