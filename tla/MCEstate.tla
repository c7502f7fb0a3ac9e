------------------------------ MODULE MCEstate -------------------------------
(* What operators run by hand, on small instances.  The parts share no state: a     *)
(* behaviour is one of the scripts that make and remove run boxes, of the set-up of *)
(* one run box, of the controller box, or of the verifier calibration.              *)
EXTENDS RunBox, Calibration, Provisioning

VARIABLES
  part,
  c_stage, c_parameter, c_key, c_present, c_box, c_target, c_leads, c_known, c_volume, c_on, c_mounted, c_service,
  c_settings, c_astray, c_cuts, c_stops

control == <<c_stage, c_parameter, c_key, c_present, c_box, c_target, c_leads, c_known, c_volume, c_on, c_mounted, c_service,
             c_settings, c_astray, c_cuts, c_stops>>

Control == INSTANCE ControlBox WITH
  MaxBoxes <- 2, MaxCuts <- 1, MaxStops <- 2, MaxPuts <- 2,
  stage <- c_stage, parameter <- c_parameter, key <- c_key, present <- c_present, box <- c_box, target <- c_target,
  leads <- c_leads, known <- c_known, volume <- c_volume, on <- c_on, mounted <- c_mounted, service <- c_service,
  settings <- c_settings, astray <- c_astray, cuts <- c_cuts, stops <- c_stops

\* Four papers: doubled reviews of a low score; a meta-review to leave out; a PDF over
\* the limit; a PDF that cannot be rewritten, with a review without a score.
Scored(s) == [meta |-> FALSE, score |-> s, confidence |-> 3]
Unscored(meta, s) == [meta |-> meta, score |-> s, confidence |-> 0]
Paper(stored, accepted, blob, redacts) ==
  [reviews |-> stored, accepted |-> accepted, blob |-> blob, redacts |-> redacts]
MCCorpus == <<
  Paper(<<Scored(2), Scored(4), Scored(2), Scored(4)>>, "no", "pdf", TRUE),
  Paper(<<Scored(8), Scored(9), Unscored(TRUE, 1)>>, "yes", "pdf", TRUE),
  Paper(<<Scored(9), Scored(8)>>, "yes", "oversize", TRUE),
  Paper(<<Scored(8), Unscored(FALSE, 0)>>, "yes", "pdf", FALSE) >>
MCStrata == {[name |-> "bottom_tail", lo |-> 0, hi |-> 7, per |-> 1], [name |-> "top_tail", lo |-> 15, hi |-> 22, per |-> 1]}

\* A verdict whose scores differ, and a refusal.
MCReplies == {[rec |-> "reject", overall |-> 3], [rec |-> "none", overall |-> 0]}

MCInit ==
  /\ part \in {"control", "provisioning", "run box", "calibration"}
  /\ Init /\ ProvisioningInit /\ Control!ControlInit /\ CalibrationInit
  /\ part # "provisioning" => address = [s \in Slugs |-> "own"]
  /\ part # "run box" => scaffold = Sdk
  /\ part # "calibration" => disk = [p \in DOMAIN MCCorpus |-> "absent"]

MCNext ==
  \/ part = "control" /\ Control!ControlNext /\ UNCHANGED <<part, provisioningVars, vars, calibrationVars>>
  \/ part = "provisioning" /\ ProvisioningNext /\ UNCHANGED <<part, vars, control, calibrationVars>>
  \/ part = "run box" /\ Next /\ UNCHANGED <<part, control, provisioningVars, calibrationVars>>
  \/ part = "calibration" /\ CalibrationNext /\ UNCHANGED <<part, vars, control, provisioningVars>>

\* Only the controller's script promises anything in time.
MCSpec ==
  /\ MCInit /\ [][MCNext]_<<part, vars, provisioningVars, control, calibrationVars>>
  /\ part = "control" => Control!Fairness

\* make-control-box.sh, configure-control.sh: the controller gets ready whatever was cut
\* off, a run that says so leaves it ready, and AgentRQ's state is written to the volume
\* and stays there.
ControllerGetsReady ==
  Control!ReadyIsReady /\ Control!StateIsSafe /\ (part = "control" => Control!GetsReady)
=============================================================================
