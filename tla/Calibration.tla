----------------------------- MODULE Calibration -----------------------------
(* The verifier calibration: a data set of papers with known reviewer scores, half to    *)
(* iterate a prompt on and half held out (build_dataset.py), their PDFs fetched           *)
(* (fetch_pdfs.py), their venue banners neutralised (redact_banners.py), uploaded once    *)
(* (upload_pdfs.py) and reviewed by a model with resumable results (run_verifier.py).     *)
(* An operator runs the scripts in any order, again and again, and may interrupt them.    *)
(* Means are fractions; the code rounds them.                                             *)
EXTENDS Integers, Sequences, FiniteSets, TLC

CONSTANTS
  Corpus,      \* the papers: reviews, decision, blob, whether redaction works on it
  Strata,      \* the bands of mean score: [name, lo, hi, per], the bounds in halves
  Models, Replies,
  MaxBuilds,   \* bound: builds of the data set
  MaxKills     \* bound: scripts killed while they write

Review == [meta : BOOLEAN, score : Nat, confidence : Nat]   \* 0 is none

\* The bands are apart (STRATA, build_dataset.py:31-38).
ASSUME CalibrationAssumption ==
  /\ Corpus \in Seq([reviews : Seq(Review), accepted : {"yes", "no", "undecided"},
                     blob : {"pdf", "oversize", "missing"}, redacts : BOOLEAN])
  /\ \A s \in Strata : s.lo \in Int /\ s.hi \in Int /\ s.per \in Nat
  /\ \A s, t \in Strata : s # t => s.hi <= t.lo \/ t.hi <= s.lo

VARIABLES
  disk,        \* the PDFs of the checkout
  rows,        \* dataset.jsonl
  recorded,    \* whether its rows have their pdf_redacted_path
  redacted,    \* the documents of pdfs_redacted/
  cache,       \* for each variant, the document each paper's file id stands for
  broken,      \* the variants whose cache is half written
  reviewing,   \* the verifier run under way
  results,     \* for each results file, its records
  torn,        \* the results files with half a line
  builds, kills

calibrationVars == <<disk, rows, recorded, redacted, cache, broken, reviewing, results, torn, builds, kills>>
prepared == <<disk, rows, recorded, redacted>>
uploads == <<cache, broken>>
reviews == <<reviewing, results, torn>>

Papers == DOMAIN Corpus
Variants == {"original", "redacted"}
Splits == {"train", "test"}
Files == Splits \X Models \X Variants
NoRun == [file |-> "none"]

\* PeerRead, a partial clone or a whole one; a camera-ready's header tells its acceptance.
Source(p) == IF Corpus[p].accepted = "yes" THEN "banner" ELSE "blind"
Oversize(p) == disk[p] = "whole" /\ Corpus[p].blob = "oversize"

CalibrationInit ==
  /\ disk \in {[p \in Papers |-> "absent"], [p \in Papers |-> IF Corpus[p].blob = "missing" THEN "absent" ELSE "whole"]}
  /\ rows = << >> /\ recorded = FALSE /\ redacted = [p \in Papers |-> "none"]
  /\ cache = [v \in Variants |-> [p \in Papers |-> "none"]] /\ broken = {}
  /\ reviewing = NoRun /\ results = [f \in Files |-> {}] /\ torn = {} /\ builds = 0 /\ kills = 0
-----------------------------------------------------------------------------
\* build_dataset.py: a paper's reviews are stored twice over; only official ones count.
Dedupe(stored) ==
  LET h == Len(stored) \div 2
  IN  IF h > 0 /\ SubSeq(stored, 1, h) = SubSeq(stored, h + 1, Len(stored)) THEN 1..h ELSE DOMAIN stored

Official == [p \in Papers |->
  {i \in Dedupe(Corpus[p].reviews) : ~Corpus[p].reviews[i].meta /\ Corpus[p].reviews[i].score > 0}]
Confident(p) == {i \in Official[p] : Corpus[p].reviews[i].confidence > 0}
Scores(p) == [i \in Official[p] |-> Corpus[p].reviews[i].score]
Confidences(p) == [i \in Confident(p) |-> Corpus[p].reviews[i].confidence]
Reviewed == {p \in Papers : Corpus[p].accepted # "undecided" /\ Official[p] # {}}

\* sum(f), and max(f) - min(f), of natural numbers: by their units.
Total(f) == Cardinality(UNION {{i} \X (1..f[i]) : i \in DOMAIN f})
Spread(f) == Cardinality(UNION {(f[x[1]] + 1)..f[x[2]] : x \in (DOMAIN f) \X (DOMAIN f)})
Mean(f) == [num |-> Total(f), den |-> Cardinality(DOMAIN f)]
Means == [p \in Reviewed |-> Mean(Scores(p))]

\* A PDF that is not on disk yet may be of any size.
Within == [s \in Strata |-> {p \in Reviewed : /\ s.lo * Means[p].den <= 2 * Means[p].num
                                             /\ 2 * Means[p].num < s.hi * Means[p].den}]
Band(s) == {p \in Within[s] : ~Oversize(p)}

\* rank_key: the tails' most extreme papers, the middle's most central ones; then the
\* reviewers' agreement, their confidence, and the id.
Fraction(num, den) == [num |-> num, den |-> den]
Less(a, b) == a.num * b.den < b.num * a.den
Extremity(m, s) ==
  LET off == 4 * m.num - (s.lo + s.hi) * m.den
  IN  CASE s.name = "bottom_tail" -> m
        [] s.name = "top_tail" -> Fraction(-m.num, m.den)
        [] OTHER -> Fraction(IF off < 0 THEN -off ELSE off, m.den)
Sureness(p) == IF Confident(p) = {} THEN Fraction(0, 1) ELSE Fraction(-Total(Confidences(p)), Cardinality(Confident(p)))
RankKey(p, s) == << Extremity(Means[p], s), Fraction(Spread(Scores(p)), 1), Sureness(p), Fraction(p, 1) >>
Keys == [s \in Strata |-> [p \in Reviewed |-> RankKey(p, s)]]
Better(p, q, s) ==
  LET a == Keys[s][p] b == Keys[s][q]
  IN  \E k \in 1..4 : Less(a[k], b[k]) /\ \A j \in 1..(k - 1) : ~Less(b[j], a[j])

\* Down the ranking, papers go to train and test in turn.
Place(p, s, band) == Cardinality({q \in band : Better(q, p, s)})
Dealt(s, band) == [p \in {q \in band : Place(q, s, band) < 2 * s.per} |->
  [stratum |-> s, split |-> IF Place(p, s, band) % 2 = 0 THEN "train" ELSE "test", rank |-> Place(p, s, band) \div 2]]

Build ==
  /\ builds < MaxBuilds /\ builds' = builds + 1
  /\ LET dealt == {Dealt(s, Band(s)) : s \in Strata}
     IN  rows' = [p \in UNION {DOMAIN d : d \in dealt} |-> (CHOOSE d \in dealt : p \in DOMAIN d)[p]]
  /\ recorded' = FALSE
  /\ UNCHANGED <<disk, redacted, uploads, reviews, kills>>

\* fetch_pdfs.py: git cat-file of the papers chosen that are not there; a kill may leave
\* half a file, which is there from then on.
Fetch ==
  /\ LET todo == {p \in DOMAIN rows : disk[p] = "absent" /\ Corpus[p].blob # "missing"}
         Have(whole, half) == [p \in Papers |-> IF p \in whole THEN "whole" ELSE IF p \in half THEN "torn" ELSE disk[p]]
     IN  /\ todo # {}
         /\ \/ disk' = Have(todo, {}) /\ UNCHANGED kills
            \/ \E got \in SUBSET todo, cut \in todo :
                 cut \notin got /\ disk' = Have(got, {cut}) /\ kills < MaxKills /\ kills' = kills + 1
  /\ UNCHANGED <<rows, recorded, redacted, uploads, reviews, builds>>

\* redact_pdf; a file it cannot rewrite is copied as it is, and pdftotext reads of the result
\* what a reviewer does.  It stops at a paper without a file; the paths are recorded when
\* no paper of the data set tells its decision.
Rewritten(p) == IF disk[p] = "whole" /\ Corpus[p].redacts THEN "blind" ELSE Source(p)
Fault_Leaked(docs) == {}   \* what the copies of the originals tell is not looked at
Leaked(docs) == {p \in DOMAIN rows : docs[p] = "banner"}

Redact ==
  /\ rows # << >>
  /\ LET here == {p \in DOMAIN rows : disk[p] # "absent"}
     IN  \E done \in IF here = DOMAIN rows THEN {here} ELSE SUBSET here :
           /\ redacted' = [p \in Papers |-> IF p \in done THEN Rewritten(p) ELSE redacted[p]]
           /\ recorded' = (recorded \/ (done = DOMAIN rows /\ Leaked(redacted') = {}))
  /\ UNCHANGED <<disk, rows, uploads, reviews, builds, kills>>

\* upload_pdfs.py: once for each id, whatever has become of its document since; it stops
\* at a paper without one.  The cache is written after each upload.
Document(p, v) == CASE v = "redacted" -> IF recorded THEN redacted[p] ELSE "none"
                    [] OTHER -> IF disk[p] = "absent" THEN "none" ELSE Source(p)
Upload(v) ==
  /\ v \notin broken
  /\ LET new == {p \in DOMAIN rows : cache[v][p] = "none" /\ ~Oversize(p)}
         todo == {p \in new : Document(p, v) # "none"}
     IN  \E sent \in (SUBSET todo) \ {{}} :
           /\ cache' = [cache EXCEPT ![v] = [p \in Papers |-> IF p \in sent THEN Document(p, v) ELSE @[p]]]
           /\ \/ (sent = todo \/ todo # new) /\ UNCHANGED <<broken, kills>>
              \/ kills < MaxKills /\ kills' = kills + 1 /\ broken' \in {broken, broken \cup {v}}
  /\ UNCHANGED <<prepared, reviews, builds>>
-----------------------------------------------------------------------------
\* run_verifier.py: the file is of one split, model and variant; ids it has are skipped.
Ids(f) == {r.id : r \in results[f]}

StartRun(f) ==
  /\ reviewing = NoRun /\ f \notin torn /\ f[3] \notin broken
  /\ \E p \in Papers : cache[f[3]][p] # "none"
  /\ reviewing' = [file |-> f, todo |-> {p \in DOMAIN rows : rows[p].split = f[1]} \ Ids(f), ids |-> cache[f[3]]]
  /\ reviewing'.todo # {}
  /\ UNCHANGED <<prepared, uploads, results, torn, builds, kills>>

\* parse_verdict: the recommendation's score, else the overall one; 0 when there is none.
RecToScore ==
  ("strong accept" :> 6) @@ ("accept" :> 5) @@ ("borderline accept" :> 4) @@ ("weak accept" :> 4) @@
  ("borderline reject" :> 3) @@ ("weak reject" :> 3) @@ ("reject" :> 2) @@ ("strong reject" :> 1)
Score(reply) == IF reply.rec \in DOMAIN RecToScore THEN RecToScore[reply.rec] ELSE reply.overall
Mismatch(reply) == reply.overall # 0 /\ reply.overall # Score(reply)

\* A reply is a record, a refusal's too; a call that fails, or a paper without a file id,
\* is left for the next run.
Record(p) ==
  /\ reviewing # NoRun /\ p \in reviewing.todo
  /\ reviewing' = [reviewing EXCEPT !.todo = @ \ {p}]
  /\ \/ UNCHANGED results
     \/ /\ reviewing.ids[p] # "none"
        /\ \E reply \in Replies :
             results' = [results EXCEPT ![reviewing.file] =
               @ \cup {[id |-> p, seen |-> reviewing.ids[p], score |-> Score(reply), mismatch |-> Mismatch(reply)]}]
  /\ UNCHANGED <<prepared, uploads, torn, builds, kills>>

EndRun ==
  /\ reviewing # NoRun /\ reviewing.todo = {} /\ reviewing' = NoRun
  /\ UNCHANGED <<prepared, uploads, results, torn, builds, kills>>

\* Half a record makes the file unreadable to the runs that would resume it.
KillRun ==
  /\ reviewing # NoRun /\ reviewing.todo # {} /\ kills < MaxKills /\ kills' = kills + 1
  /\ reviewing' = NoRun /\ torn' \in {torn, torn \cup {reviewing.file}}
  /\ UNCHANGED <<prepared, uploads, results, builds>>

CalibrationNext ==
  \/ Build \/ Fetch \/ Redact \/ \E v \in Variants : Upload(v)
  \/ \E f \in Files : StartRun(f)
  \/ \E p \in Papers : Record(p)
  \/ EndRun \/ KillRun

CalibrationSpec == CalibrationInit /\ [][CalibrationNext]_calibrationVars
-----------------------------------------------------------------------------
TypeOK ==
  /\ disk \in [Papers -> {"absent", "whole", "torn"}] /\ DOMAIN rows \subseteq Papers /\ recorded \in BOOLEAN
  /\ redacted \in [Papers -> {"none", "banner", "blind"}] /\ broken \subseteq Variants /\ torn \subseteq Files

\* README.md "Train and test", rank_key: the splits of a stratum are matched, rank by rank,
\* and no candidate left out is better than one taken.
Matched ==
  \A s \in Strata :
    LET of(split) == {p \in DOMAIN rows : rows[p].stratum = s /\ rows[p].split = split}
        taken == of("train") \cup of("test")
    IN  /\ Cardinality(of("train")) - Cardinality(of("test")) \in {0, 1}
        /\ \A p \in of("train"), q \in of("test") : Better(p, q, s) <=> rows[p].rank <= rows[q].rank
        /\ builds > 0 => \A q \in Band(s) \ taken :
             Cardinality(taken) = 2 * s.per /\ \A p \in taken : Better(p, q, s)

\* README.md "The venue-banner leak", run_verifier.py:22-23, 172-173: no verdict of the
\* redacted arm was given on a paper that tells its decision, and no paper has two verdicts
\* in a file.
FairScores ==
  /\ Matched
  /\ \A f \in Files :
       /\ f[3] = "redacted" => \A r \in results[f] : r.seen = "blind"
       /\ Cardinality(results[f]) = Cardinality(Ids(f))
=============================================================================
