----------------------------- MODULE ClaudeHook -----------------------------
(***************************************************************************)
(* The Stop hook of Claude Code (tracing/claude/langfuse_hook.py): Claude  *)
(* appends rows to a session's transcript and runs the hook at the end of  *)
(* every turn; the hook reads what is new, emits the turns it finds to the *)
(* Langfuse client, saves how far it got in a file that all sessions       *)
(* share, and gives the client five seconds to send.  Claude, the clock    *)
(* and the client are external.  Half of a row may be in the file.         *)
(***************************************************************************)
EXTENDS Naturals, Sequences, FiniteSets

CONSTANTS
  Rows,          \* of each session: the rows Claude writes, [kind, id]
  MaxHookFaults  \* bound: hooks killed, saves and emissions that fail, entries that age

Sessions == DOMAIN Rows
Nobody == "nobody"

ASSUME RowsAssumption ==
  Nobody \notin Sessions /\ \A s \in Sessions : Len(Rows[s]) \in Nat /\ DOMAIN Rows[s] = 1..Len(Rows[s])

VARIABLES
  written,    \* halves of rows in each transcript
  state,      \* langfuse_state.json: per session [offset, buffer, turns]
  old,        \* sessions whose entry is older than 30 days
  stateLock,  \* who holds langfuse_state.lock
  hookAt,     \* where each session's hook is
  mine,       \* the state as each hook loaded it, with its own entry brought forward
  queued,     \* what each hook's client has yet to send
  emitted,    \* what was given to a client: <<session, number, turn>>
  missed,     \* what could not be given to one, but for parts of it, and counts as given
  sent,       \* what reached Langfuse
  unsaved,    \* sessions of which something was emitted and not saved, or forgotten
  torn,       \* turns of which the last row was not complete when they were read
  hookFaults

hookVars == <<written, state, old, stateLock, hookAt, mine, queued, emitted, missed, sent, unsaved, torn, hookFaults>>

Fresh == [offset |-> 0, buffer |-> 0, turns |-> 0]
Nothing == [s \in Sessions |-> Fresh]

HookInit ==
  /\ written = [s \in Sessions |-> 0] /\ state = Nothing /\ old = {}
  /\ stateLock = Nobody /\ hookAt = [s \in Sessions |-> "none"] /\ mine = [s \in Sessions |-> Nothing]
  /\ queued = [s \in Sessions |-> {}] /\ emitted = {} /\ missed = {} /\ sent = {}
  /\ unsaved = {} /\ torn = {} /\ hookFaults = 0

----------------------------------------------------------------------------
(* Claude *)

\* The rows of a turn are those up to the next user row.
EndsTurn(s, n) == n < Len(Rows[s]) => Rows[s][n + 1].kind = "user"

Complete(s) == written[s] \div 2

\* Only at the end of a turn the hook may see half of a row; the next prompt waits
\* for the hook.
WriteRow(s) ==
  /\ Complete(s) < Len(Rows[s])
  /\ LET row == Complete(s) + 1
     IN  /\ Rows[s][row].kind = "user" => hookAt[s] \in {"none", "ran"}
         /\ written' = [written EXCEPT ![s] = @ + (IF EndsTurn(s, row) THEN 1 ELSE 2)]
         /\ hookAt' = [hookAt EXCEPT ![s] = IF EndsTurn(s, row) \/ @ # "ran" THEN @ ELSE "none"]
  /\ UNCHANGED <<state, old, stateLock, mine, queued, emitted, missed, sent, unsaved, torn, hookFaults>>

Half(s) == (written[s] + 1) \div 2

Stop(s) ==
  /\ hookAt[s] = "none" /\ Half(s) > 0 /\ EndsTurn(s, Half(s))
  /\ hookAt' = [hookAt EXCEPT ![s] = "wait"]
  /\ UNCHANGED <<written, state, old, stateLock, mine, queued, emitted, missed, sent, unsaved, torn, hookFaults>>

\* A session is left alone for a month.
Age(s) ==
  /\ hookAt[s] \in {"none", "ran"} /\ s \notin old /\ hookFaults < MaxHookFaults
  /\ old' = old \cup {s} /\ hookFaults' = hookFaults + 1
  /\ UNCHANGED <<written, state, stateLock, hookAt, mine, queued, emitted, missed, sent, unsaved, torn>>

----------------------------------------------------------------------------
(* read_new_jsonl and build_turns *)

\* The rows that are read: from the one the buffer began to the last whole one.
NewRows(s, entry) == (entry.offset - entry.buffer) \div 2 + 1..Complete(s)

Forward(s, entry) ==
  [entry EXCEPT !.offset = written[s], !.buffer = written[s] % 2]

Users(s, rows) == {n \in rows : Rows[s][n].kind = "user"}
Following(s, rows, user) == {n \in rows : n >= user /\ \A k \in user + 1..n : Rows[s][k].kind # "user"}

\* The latest row of a message, or of a tool's result, replaces the ones before.
Latest(s, rows, kind) ==
  {n \in rows : /\ Rows[s][n].kind = kind
                /\ \A k \in rows : k > n => Rows[s][k].kind # kind \/ Rows[s][k].id # Rows[s][n].id}

\* The rows behind a user row, up to the next one, are its turn; those before the first are
\* ignored.
Turn(s, rows, user) ==
  LET behind == Following(s, rows, user)
  IN  [user |-> user, messages |-> Latest(s, behind, "assistant"), results |-> Latest(s, behind, "result")]

\* A turn is kept once an assistant row has followed its user row.
Kept(turns) == {turn \in turns : turn.messages # {}}

\* Fault: the turn still open at the end of what was read is left for the next time.
Fault_BuildTurns(s, rows) == Kept({Turn(s, rows, n) : n \in {u \in Users(s, rows) : \E v \in Users(s, rows) : u < v}})

BuildTurns(s, rows) == Kept({Turn(s, rows, n) : n \in Users(s, rows)})

----------------------------------------------------------------------------
(* The hook *)

CanLock(s) == stateLock = Nobody

Lock(s) ==
  /\ hookAt[s] = "wait" /\ CanLock(s)
  /\ stateLock' = s /\ hookAt' = [hookAt EXCEPT ![s] = "load"]
  /\ UNCHANGED <<written, state, old, mine, queued, emitted, missed, sent, unsaved, torn, hookFaults>>

\* After two seconds the hook gives up; what is new waits for the next one.
LockTimeout(s) ==
  /\ hookAt[s] = "wait" /\ stateLock # Nobody
  /\ hookAt' = [hookAt EXCEPT ![s] = "ran"]
  /\ UNCHANGED <<written, state, old, stateLock, mine, queued, emitted, missed, sent, unsaved, torn, hookFaults>>

\* In the order of their user rows.
Number(entry, turns, turn) == entry.turns + Cardinality({t \in turns : t.user <= turn.user})

\* The new turns are emitted one by one; a failure is logged, and the turn still counts.
Emit(s) ==
  /\ hookAt[s] = "load"
  /\ LET entry == state[s]
         turns == BuildTurns(s, NewRows(s, entry))
         found == {<<s, Number(entry, turns, turn), turn>> : turn \in turns}
     IN  \E failing \in SUBSET found :
           /\ Cardinality(failing) + hookFaults <= MaxHookFaults /\ hookFaults' = hookFaults + Cardinality(failing)
           /\ emitted' = emitted \cup (found \ failing) /\ missed' = missed \cup failing
           /\ queued' = [queued EXCEPT ![s] = found \ failing]
           /\ mine' = [mine EXCEPT ![s] =
                        [state EXCEPT ![s] = [Forward(s, entry) EXCEPT !.turns = entry.turns + Cardinality(turns)]]]
           /\ torn' = IF written[s] % 2 = 1 THEN torn \cup {<<s, Half(s)>>} ELSE torn
  /\ hookAt' = [hookAt EXCEPT ![s] = "save"]
  /\ UNCHANGED <<written, state, old, stateLock, sent, unsaved>>

\* Entries that nobody updated for thirty days are dropped.
Pruned(s) == [t \in Sessions |-> IF t \in old \ {s} THEN Fresh ELSE mine[s][t]]

Save(s) ==
  /\ hookAt[s] = "save"
  /\ state' = Pruned(s)
  /\ old' = old \ {s} /\ unsaved' = unsaved \cup (old \ {s})
  /\ stateLock' = Nobody /\ hookAt' = [hookAt EXCEPT ![s] = "flush"]
  /\ mine' = [mine EXCEPT ![s] = Nothing]
  /\ UNCHANGED <<written, queued, emitted, missed, sent, torn, hookFaults>>

\* The file cannot be written, and the hook goes on.
SaveFails(s) ==
  /\ hookAt[s] = "save" /\ hookFaults < MaxHookFaults /\ hookFaults' = hookFaults + 1
  /\ unsaved' = unsaved \cup {s}
  /\ stateLock' = Nobody /\ hookAt' = [hookAt EXCEPT ![s] = "flush"]
  /\ mine' = [mine EXCEPT ![s] = Nothing]
  /\ UNCHANGED <<written, state, old, queued, emitted, missed, sent, torn>>

\* What the client sends in five seconds.
Flush(s) ==
  /\ hookAt[s] = "flush"
  /\ \E some \in {queued[s], {}} : sent' = sent \cup some
  /\ queued' = [queued EXCEPT ![s] = {}] /\ hookAt' = [hookAt EXCEPT ![s] = "ran"]
  /\ UNCHANGED <<written, state, old, stateLock, mine, emitted, missed, unsaved, torn, hookFaults>>

\* The hook is killed; the lock is let go.
Kill(s) ==
  /\ hookAt[s] \in {"wait", "load", "save", "flush"} /\ hookFaults < MaxHookFaults /\ hookFaults' = hookFaults + 1
  /\ stateLock' = IF stateLock = s THEN Nobody ELSE stateLock
  /\ unsaved' = IF hookAt[s] = "save" THEN unsaved \cup {s} ELSE unsaved
  /\ queued' = [queued EXCEPT ![s] = {}] /\ mine' = [mine EXCEPT ![s] = Nothing]
  /\ hookAt' = [hookAt EXCEPT ![s] = "ran"]
  /\ UNCHANGED <<written, state, old, emitted, missed, sent, torn>>

Hook(s) == Lock(s) \/ LockTimeout(s) \/ Emit(s) \/ Save(s) \/ SaveFails(s) \/ Flush(s) \/ Kill(s)

HookNext == \E s \in Sessions : WriteRow(s) \/ Stop(s) \/ Age(s) \/ Hook(s)

HookSpec == HookInit /\ [][HookNext]_hookVars

----------------------------------------------------------------------------
(* Properties *)

\* The turn that begins with a user row, as the whole transcript tells it.
TurnOf(s, row) == {n \in row..Len(Rows[s]) : \A k \in row..n - 1 : ~EndsTurn(s, k)}
Told(s, row, kind) == Latest(s, TurnOf(s, row), kind)
IsWhole(s, turn) ==
  /\ turn.messages = Told(s, turn.user, "assistant")
  /\ turn.results = Told(s, turn.user, "result")

\* Every turn is emitted whole, with the last version of its messages and results,
\* though it may be read in pieces and after hooks that never got the lock.  The
\* exception is a turn whose last row was half written when it was read: the rest is
\* read later, and build_turns ignores it for want of its user row.
TurnsAreWhole ==
  \A e \in emitted :
    IsWhole(e[1], e[3]) \/ \E t \in torn : t[1] = e[1] /\ t[2] \in TurnOf(e[1], e[3].user)

\* The turns that were counted.
Processed == emitted \cup missed

\* No turn is told twice, and its number is its own: a hook that is skipped, two
\* sessions that end a turn together, a turn that fails or a client that cannot send change
\* nothing.  Only a hook that could not save what it read lets a turn be told again.
NumbersNameTurns ==
  \A e, f \in Processed :
    e[1] = f[1] /\ e # f => (e[2] # f[2] /\ e[3].user # f[3].user) \/ e[1] \in unsaved

\* Whatever was read and saved, and answered, has been emitted: a hook that was skipped, cut off
\* or could not save is made up for by the next.  The exceptions are a turn that was
\* torn and one whose emission failed: the file runs ahead of it, and no hook reads it again.
SavedIsEmitted ==
  \A s \in Sessions : \A row \in 1..(state[s].offset \div 2) :
    Rows[s][row].kind = "user" /\ Told(s, row, "assistant") # {} =>
      \/ \E e \in emitted : e[1] = s /\ e[3].user = row
      \/ \E e \in missed : e[1] = s /\ e[3].user = row
      \/ \E t \in torn : t[1] = s /\ t[2] \in TurnOf(s, row)

\* langfuse_hook.py: a turn is emitted with the last version of all its rows, once and
\* under a number of its own, and before the saved offset passes it unless its emission failed.
TurnsAreEmitted == TurnsAreWhole /\ NumbersNameTurns /\ SavedIsEmitted
=============================================================================
