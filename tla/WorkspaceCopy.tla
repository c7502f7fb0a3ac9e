---------------------------- MODULE WorkspaceCopy ----------------------------
(***************************************************************************)
(* The copy of a workspace (workspace_copy.py on the instance, and         *)
(* Collector.workspace of collection.py): the collector has the instance   *)
(* stream its workspace to a versioned object, waits for the command's     *)
(* report, takes the object's current version and reads it back.  A        *)
(* collector that gave up or died leaves its command running, and the next *)
(* copy of the same window goes to the same object.  SSM and S3 are        *)
(* external.                                                               *)
(***************************************************************************)
EXTENDS Naturals, Sequences, FiniteSets

CONSTANTS
  MaxCommands,   \* bound: copies begun for one window
  MaxDisk        \* bound: changes of the workspace

Commands == 1..MaxCommands
NoReport == [disk |-> 0, size |-> 0]
NoCopy == [disk |-> 0, version |-> 0, seen |-> 0]

VARIABLES
  disk,       \* which files the workspace holds, numbered
  command,    \* of each copy: none, pending, streaming, closed, uploaded, Success, Failed
  archive,    \* the files each copy streamed
  report,     \* what a successful copy printed: the digest and the size of its stream
  versions,   \* of the object: the files each holds and whether all of them
  collector,  \* what it does: idle, waiting, read, done
  current,    \* the copy it waits for
  version,    \* the version it took
  copy,       \* what is recorded for the window
  gap         \* whether the report tells that the copy is missing

copyVars == <<disk, command, archive, report, versions, collector, current, version, copy, gap>>

CopyInit ==
  /\ disk = 1 /\ command = [c \in Commands |-> "none"] /\ archive = [c \in Commands |-> 0]
  /\ report = [c \in Commands |-> NoReport] /\ versions = <<>> /\ collector = "idle" /\ current = 0
  /\ version = 0 /\ copy = NoCopy /\ gap = FALSE

\* Different archives may be of one size, and one that was cut short may be of the
\* size of a whole one.
Size(d, whole) == IF whole THEN (d + 1) \div 2 ELSE (d + 1) \div 2 - 1

----------------------------------------------------------------------------
(* The instance *)

Write ==
  /\ disk < MaxDisk /\ disk' = disk + 1
  /\ UNCHANGED <<command, archive, report, versions, collector, current, version, copy, gap>>

\* main: the archive goes through the hash to the uploader.
Stream(c) ==
  /\ command[c] = "pending"
  /\ command' = [command EXCEPT ![c] = "streaming"] /\ archive' = [archive EXCEPT ![c] = disk]
  /\ UNCHANGED <<disk, report, versions, collector, current, version, copy, gap>>

CloseStream(c) ==
  /\ command[c] = "streaming" /\ command' = [command EXCEPT ![c] = "closed"]
  /\ UNCHANGED <<disk, archive, report, versions, collector, current, version, copy, gap>>

\* The uploader read to the end of the stream: the object has a new version.
Upload(c) ==
  /\ command[c] = "closed" /\ command' = [command EXCEPT ![c] = "uploaded"]
  /\ versions' = Append(versions, [disk |-> archive[c], whole |-> TRUE])
  /\ UNCHANGED <<disk, archive, report, collector, current, version, copy, gap>>

Report(c) ==
  /\ command[c] = "uploaded" /\ command' = [command EXCEPT ![c] = "Success"]
  /\ report' = [report EXCEPT ![c] = [disk |-> archive[c], size |-> Size(archive[c], TRUE)]]
  /\ UNCHANGED <<disk, archive, versions, collector, current, version, copy, gap>>

\* The archive or the upload fails: the uploader is killed before its input ends.
Break(c) ==
  /\ command[c] \in {"pending", "streaming", "closed", "uploaded"} /\ command' = [command EXCEPT ![c] = "Failed"]
  /\ UNCHANGED <<disk, archive, report, versions, collector, current, version, copy, gap>>

\* The command itself is killed: to the uploader the stream seems to end.
Cut(c) ==
  /\ command[c] = "streaming" /\ command' = [command EXCEPT ![c] = "Failed"]
  /\ versions' = Append(versions, [disk |-> archive[c], whole |-> FALSE])
  /\ UNCHANGED <<disk, archive, report, collector, current, version, copy, gap>>

----------------------------------------------------------------------------
(* The collector *)

SendCommand ==
  \E c \in Commands :
    /\ collector = "idle" /\ command[c] = "none" /\ \A d \in Commands : d < c => command[d] # "none"
    /\ current' = c /\ command' = [command EXCEPT ![c] = "pending"] /\ collector' = "waiting"
    /\ UNCHANGED <<disk, archive, report, versions, version, copy, gap>>

GiveUp ==
  /\ collector' = "done" /\ gap' = TRUE /\ version' = 0
  /\ UNCHANGED <<disk, command, archive, report, versions, current, copy>>

SizeOf(v) == Size(versions[v].disk, versions[v].whole)

\* head_object: the version that is current now.
HeadObject ==
  /\ collector = "waiting" /\ command[current] = "Success"
  /\ IF SizeOf(Len(versions)) = report[current].size
     THEN /\ version' = Len(versions) /\ collector' = "read"
          /\ UNCHANGED <<disk, command, archive, report, versions, current, copy, gap>>
     ELSE GiveUp

\* Fault: the size was checked already.
Fault_Matches == TRUE

\* workspace_view: the digest of what was read.
Matches == versions[version].whole /\ versions[version].disk = report[current].disk

Read ==
  /\ collector = "read"
  /\ IF Matches
     THEN /\ copy' = [disk |-> report[current].disk, version |-> version, seen |-> versions[version].disk]
          /\ collector' = "done" /\ version' = 0
          /\ UNCHANGED <<disk, command, archive, report, versions, current, gap>>
     ELSE GiveUp

\* The command failed, it takes too long, or a service does not answer.
Fails == collector \in {"waiting", "read"} /\ GiveUp

\* The worker dies before the collection is saved, and copies the window again.
CrashCopying ==
  /\ collector # "idle" /\ \E c \in Commands : command[c] = "none"
  /\ collector' = "idle" /\ version' = 0 /\ copy' = NoCopy /\ gap' = FALSE
  /\ UNCHANGED <<disk, command, archive, report, versions, current>>

CopyNext ==
  \/ Write \/ SendCommand \/ HeadObject \/ Read \/ Fails \/ CrashCopying
  \/ \E c \in Commands : Stream(c) \/ CloseStream(c) \/ Upload(c) \/ Report(c) \/ Break(c) \/ Cut(c)

CopySpec == CopyInit /\ [][CopyNext]_copyVars

----------------------------------------------------------------------------
(* Properties *)

\* Whatever copies of earlier attempts still arrive at the same object, complete or
\* cut short, the version that is recorded is a whole archive of the files the
\* record's digest is of, and it is those that the models were shown; a window
\* without a copy tells so.
CopiesAreVerified ==
  /\ copy # NoCopy =>
       /\ versions[copy.version].whole
       /\ versions[copy.version].disk = copy.disk /\ copy.seen = copy.disk
  /\ collector = "done" /\ copy = NoCopy => gap
=============================================================================
