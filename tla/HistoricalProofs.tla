---------------------------- MODULE HistoricalProofs ----------------------------
(***************************************************************************)
(* Safety of the parts that keep their work in files, die and are run      *)
(* again: the cache of the vendor's hours (HourCache), the commands of the *)
(* passive study (PassiveStudy) and the validation that may be used once   *)
(* (SingleUse).  The proofs hold for every number of pieces, attempts,     *)
(* dates, faults, crashes and edits.                                       *)
(*                                                                         *)
(* And of the historical order book (HistoricalL2): the packer against the *)
(* synchronizer that replays what it wrote, for every archive and stream.  *)
(***************************************************************************)
EXTENDS HistoricalL2, HourCache, PassiveStudy, SingleUse, DepthSyncProofs,
        SequenceTheorems

-------------------------------------------------------------------------------
(* SingleUse. *)

MetricsFile == {None} \cup [version : Nat]
SummaryFile == {None} \cup [metrics : MetricsFile, passes : BOOLEAN]
ReceiptFile == {None} \cup [metrics : MetricsFile, summary : SummaryFile, gate_passes : BOOLEAN]

UTypeOK ==
    /\ version \in Nat
    /\ results \in [Stages -> [metrics : MetricsFile, summary : SummaryFile, receipt : ReceiptFile]]
    /\ running \in Stages \cup {"none"}

\* The stage that runs has no receipt and was let in.
LetIn ==
    /\ running = "validation" => results["validation"].receipt = None
    /\ running = "replication" =>
          /\ results["replication"].receipt = None
          /\ results["validation"].receipt # None
          /\ results["validation"].receipt.gate_passes

\* What it has written was made by the version at hand.
Fresh ==
    running # "none" =>
        /\ output \in {"metrics", "summary", "receipt"}
        /\ output # "metrics" =>
              Result.metrics # None /\ Result.metrics.version = version
        /\ output = "receipt" =>
              /\ running # "development"
              /\ Result.summary # None
              /\ Result.summary.passes = (version \in passing)

\* A receipt of a validation knows its verdict.
Verdict ==
    /\ results["validation"].receipt # None /\ results["validation"].receipt.gate_passes =>
          /\ results["validation"].metrics # None
          /\ results["validation"].metrics.version \in passing

UInv == UTypeOK /\ LetIn /\ Fresh /\ Verdict /\ ReceiptsStayTrue

\* Nothing is written yet.
LEMMA SingleUseInit == UInit => UInv
  BY DEF UInit, UInv, UTypeOK, LetIn, Fresh, Verdict, ReceiptsStayTrue, MetricsFile, SummaryFile, ReceiptFile, Stages

\* A file that is there is not one that is missing.
LEMMA NoneIsNone ==
    /\ \A m \in [version : Nat] : m # None
    /\ \A m \in [metrics : MetricsFile, passes : BOOLEAN] : m # None
    /\ \A m \in [metrics : MetricsFile, summary : SummaryFile, gate_passes : BOOLEAN] : m # None
  BY DEF None

\* Each command, file, death and change keeps the invariant.
LEMMA SingleUseNext == UInv /\ [UNext]_uvars => UInv'
<1> SUFFICES ASSUME UInv, [UNext]_uvars PROVE UInv'
  OBVIOUS
<1> USE DEF UInv
<1>1. ASSUME NEW s \in Stages, RunStage(s) PROVE UInv'
  BY <1>1 DEF RunStage, MayRun, UTypeOK, LetIn, Fresh, Verdict, ReceiptsStayTrue, Stages
<1>2. CASE WriteMetrics
  BY <1>2, NoneIsNone DEF WriteMetrics, UTypeOK, LetIn, Fresh, Verdict, ReceiptsStayTrue, Stages, Result, MetricsFile
<1>3. CASE WriteSummary
  <2> DEFINE verdict == version \in passing
             new == [metrics |-> Result.metrics, passes |-> verdict]
  <2>1. new \in SummaryFile /\ new # None
    <3>1. verdict \in BOOLEAN
      OBVIOUS
    <3>2. Result.metrics \in MetricsFile
      BY <1>3 DEF WriteSummary, UTypeOK, Result
    <3> HIDE DEF verdict
    <3> QED
      BY <3>1, <3>2, NoneIsNone DEF SummaryFile
  <2>2. /\ results' \in [Stages -> [metrics : MetricsFile, summary : SummaryFile, receipt : ReceiptFile]]
        /\ \A s \in Stages :
              /\ results'[s].metrics = results[s].metrics
              /\ results'[s].receipt = results[s].receipt
              /\ s # running => results'[s].summary = results[s].summary
        /\ results'[running].summary = new
    <3> HIDE DEF new
    <3> QED
      BY <1>3, <2>1 DEF new, WriteSummary, UTypeOK, Stages
  <2>3. output = "summary" /\ Result.metrics # None /\ Result.metrics.version = version
    BY <1>3 DEF WriteSummary, Fresh, Result
  <2>4. UTypeOK' /\ LetIn' /\ Verdict'
    BY <1>3, <2>2 DEF WriteSummary, UTypeOK, LetIn, Verdict, Stages
  <2>5. Fresh'
    BY <1>3, <2>1, <2>2, <2>3 DEF WriteSummary, Fresh, Result, UTypeOK
  <2>6. ReceiptsStayTrue'
    BY <1>3, <2>2 DEF WriteSummary, ReceiptsStayTrue, LetIn, Stages, UTypeOK
  <2> QED
    BY <2>4, <2>5, <2>6
<1>4. CASE WriteReceipt
  BY <1>4, NoneIsNone DEF WriteReceipt, UTypeOK, LetIn, Fresh, Verdict, ReceiptsStayTrue, Stages, Result, ReceiptFile
<1>5. CASE Dies
  BY <1>5 DEF Dies, UTypeOK, LetIn, Fresh, Verdict, ReceiptsStayTrue, Stages
<1>6. CASE Change
  BY <1>6 DEF Change, UTypeOK, LetIn, Fresh, Verdict, ReceiptsStayTrue, Stages
<1>7. CASE UNCHANGED uvars
  BY <1>7 DEF uvars, UTypeOK, LetIn, Fresh, Verdict, ReceiptsStayTrue, Stages, Result
<1> QED
  BY <1>1, <1>2, <1>3, <1>4, <1>5, <1>6, <1>7 DEF UNext

-------------------------------------------------------------------------------
(* HourCache. *)

\* Until an object is there, there is nothing to decompress; once it has been
\* decompressed, it is described.
Progress ==
    /\ run \in {"request", "copy", "measure"} => compressed = NoFile
    /\ run = "describe" => parquet # NoFile

HCInv == CachedHourIsWhole /\ Progress

\* An empty cache.
LEMMA HourInit == HCInit => HCInv
  BY DEF HCInit, HCInv, CachedHourIsWhole, Progress, NoFile

\* Each step of the client, fault of the server and death keeps the invariant.
LEMMA HourNext == HCInv /\ [HCNext]_hcvars => HCInv'
<1> SUFFICES ASSUME HCInv, [HCNext]_hcvars PROVE HCInv'
  OBVIOUS
<1> USE DEF HCInv, Progress
<1>1. CASE Ensure
  BY <1>1 DEF Ensure, CachedHourIsWhole, disk
<1>2. CASE UNCHANGED disk /\ run' \in {run, "request", "copy", "measure", "none", "failed"}
           /\ (run' \in {"request", "copy", "measure"} => run \in {"request", "copy", "measure"})
  BY <1>2 DEF disk, CachedHourIsWhole
<1>3. CASE Requested
  BY <1>3 DEF Requested, CachedHourIsWhole
<1>4. CASE CopyPiece
  BY <1>4 DEF CopyPiece, CachedHourIsWhole
<1>5. CASE ReplaceDestination
  BY <1>5 DEF ReplaceDestination, CachedHourIsWhole
<1>6. CASE Decompress
  <2>1. Whole(compressed) => compressed # NoFile
    BY HourCacheAssumption DEF Whole, NoFile
  <2> QED
    BY <1>6, <2>1 DEF Decompress, CachedHourIsWhole
<1>7. CASE Decompressed
  BY <1>7 DEF Decompressed, CachedHourIsWhole, disk
<1>8. CASE Describe
  BY <1>8 DEF Describe, CachedHourIsWhole
<1>9. CASE Die
  BY <1>9 DEF Die, disk, CachedHourIsWhole
<1>10. CASE IssueJwt \/ Unauthorized \/ RangeRefused \/ Incomplete \/ EmptyObject
  BY <1>2, <1>10 DEF IssueJwt, Unauthorized, RangeRefused, Incomplete, EmptyObject, Retry
<1>11. CASE RequestFails \/ BodyEnds \/ BodyBreaks
  BY <1>2, <1>11 DEF RequestFails, BodyEnds, BodyBreaks, Retry
<1>12. CASE JwtExpires \/ NewEdition \/ UNCHANGED hcvars
  BY <1>2, <1>12 DEF JwtExpires, NewEdition, hcvars
<1> QED
  BY <1>1, <1>3, <1>4, <1>5, <1>6, <1>7, <1>8, <1>9, <1>10, <1>11, <1>12
  DEF HCNext, Step

-------------------------------------------------------------------------------
(* PassiveStudy: the tasks. *)

\* The tasks of every command come in this order.
Rank(t) ==
    CASE t.do = "thresholds" -> 0 [] t.do = "validate" -> 1 [] t.do = "open" -> 2
      [] t.do = "build" -> 3 [] t.do = "analyze" -> 4 [] t.do = "freeze" -> 5
      [] t.do = "seal" -> 6

Whats == {"thresholds", "validate", "open", "analyze", "freeze", "seal"}

Task == [do : Whats] \cup [do : {"build"}, date : Dates, repeat : Nat]

InOrder(tasks) ==
    /\ tasks \in Seq(Task)
    /\ \A i, j \in DOMAIN tasks : i <= j => Rank(tasks[i]) <= Rank(tasks[j])

\* Every task has its place.
LEMMA RankIsNumber == \A t \in Task : Rank(t) \in 0 .. 6
  BY DEF Task, Rank, Whats

\* A task of that kind is still to do.
Has(tasks, what) == \E i \in DOMAIN tasks : tasks[i].do = what

\* What remains after the first task.
LEMMA TailTasks ==
    ASSUME NEW tasks, InOrder(tasks), tasks # <<>>
    PROVE  /\ InOrder(Tail(tasks))
           /\ Head(tasks) \in Task
           /\ \A i \in DOMAIN Tail(tasks) : i + 1 \in DOMAIN tasks /\ Tail(tasks)[i] = tasks[i + 1]
           /\ \A i \in DOMAIN tasks : tasks[i] = Head(tasks) \/ i - 1 \in DOMAIN Tail(tasks)
           /\ \A i \in DOMAIN tasks : Rank(Head(tasks)) <= Rank(tasks[i])
<1>1. tasks \in Seq(Task) /\ Len(tasks) \in Nat /\ Len(tasks) > 0 /\ DOMAIN tasks = 1 .. Len(tasks)
  BY DEF InOrder
<1>2. /\ Tail(tasks) \in Seq(Task) /\ Len(Tail(tasks)) = Len(tasks) - 1
      /\ DOMAIN Tail(tasks) = 1 .. Len(tasks) - 1
      /\ \A i \in 1 .. Len(tasks) - 1 : Tail(tasks)[i] = tasks[i + 1]
      /\ Head(tasks) = tasks[1]
  BY <1>1
<1>3. InOrder(Tail(tasks))
  <2>1. \A i, j \in 1 .. Len(tasks) - 1 : i <= j => Rank(Tail(tasks)[i]) <= Rank(Tail(tasks)[j])
    <3> TAKE i, j \in 1 .. Len(tasks) - 1
    <3>1. i + 1 \in 1 .. Len(tasks) /\ j + 1 \in 1 .. Len(tasks) /\ (i <= j => i + 1 <= j + 1)
      BY <1>1
    <3>2. Tail(tasks)[i] = tasks[i + 1] /\ Tail(tasks)[j] = tasks[j + 1]
      BY <1>2
    <3> QED
      BY <1>1, <3>1, <3>2 DEF InOrder
  <2> QED
    BY <1>2, <2>1 DEF InOrder
<1> QED
  BY <1>1, <1>2, <1>3 DEF InOrder

\* The tasks of `all' are those of s and then those of t.
JoinOf(s, t, all) ==
    /\ \A i \in DOMAIN s : i \in DOMAIN all /\ all[i] = s[i]
    /\ \A i \in DOMAIN t : Len(s) + i \in DOMAIN all /\ all[Len(s) + i] = t[i]
    /\ \A i \in DOMAIN all :
          \/ i \in DOMAIN s /\ all[i] = s[i]
          \/ \E j \in DOMAIN t : all[i] = t[j]

\* Two lists in order, one after the other.
LEMMA JoinTasks ==
    ASSUME NEW s, NEW t, InOrder(s), InOrder(t), NEW n \in Nat,
           \A i \in DOMAIN s : Rank(s[i]) <= n,
           \A i \in DOMAIN t : n <= Rank(t[i])
    PROVE  InOrder(s \o t) /\ JoinOf(s, t, s \o t)
<1>1. /\ s \in Seq(Task) /\ t \in Seq(Task) /\ Len(s) \in Nat /\ Len(t) \in Nat
      /\ DOMAIN s = 1 .. Len(s) /\ DOMAIN t = 1 .. Len(t)
  BY DEF InOrder
<1>2. /\ s \o t \in Seq(Task) /\ DOMAIN (s \o t) = 1 .. Len(s) + Len(t)
      /\ \A i \in 1 .. Len(s) + Len(t) :
            (s \o t)[i] = IF i <= Len(s) THEN s[i] ELSE t[i - Len(s)]
  BY <1>1
<1>3. \A i \in DOMAIN s : i \in DOMAIN (s \o t) /\ (s \o t)[i] = s[i]
  BY <1>1, <1>2
<1>4. \A i \in DOMAIN t : Len(s) + i \in DOMAIN (s \o t) /\ (s \o t)[Len(s) + i] = t[i]
  BY <1>1, <1>2
<1>5. \A i \in DOMAIN (s \o t) :
         \/ i \in DOMAIN s /\ (s \o t)[i] = s[i]
         \/ i > Len(s) /\ i - Len(s) \in DOMAIN t /\ (s \o t)[i] = t[i - Len(s)]
  BY <1>1, <1>2
<1>6. \A i \in DOMAIN s : Rank(s[i]) \in Nat
  BY <1>1, RankIsNumber
<1>7. \A i \in DOMAIN t : Rank(t[i]) \in Nat
  BY <1>1, RankIsNumber
<1>8. InOrder(s \o t)
  <2>1. ASSUME NEW i \in DOMAIN (s \o t), NEW j \in DOMAIN (s \o t), i <= j
        PROVE  Rank((s \o t)[i]) <= Rank((s \o t)[j])
    <3>0. i \in Nat /\ j \in Nat /\ DOMAIN s = 1 .. Len(s)
      BY <1>1, <1>2
    <3>1. CASE i \in DOMAIN s /\ j \in DOMAIN s
      BY <1>3, <2>1, <3>1 DEF InOrder
    <3>2. CASE i \in DOMAIN s /\ j \notin DOMAIN s
      <4>1. (s \o t)[i] = s[i] /\ \E l \in DOMAIN t : (s \o t)[j] = t[l]
        BY <1>3, <1>5, <3>2
      <4> QED
        BY <4>1, <1>6, <1>7, <3>2
    <3>3. CASE i \notin DOMAIN s
      <4>1. i > Len(s) /\ j > Len(s)
        BY <1>5, <2>1, <3>0, <1>1, <3>3
      <4>2. j \notin DOMAIN s
        BY <4>1, <3>0, <1>1
      <4>3. i - Len(s) \in DOMAIN t /\ j - Len(s) \in DOMAIN t /\ i - Len(s) <= j - Len(s)
        BY <1>5, <2>1, <3>0, <1>1, <3>3, <4>2
      <4>4. (s \o t)[i] = t[i - Len(s)] /\ (s \o t)[j] = t[j - Len(s)]
        BY <1>5, <3>3, <4>2
      <4> QED
        BY <4>3, <4>4 DEF InOrder
    <3> QED
      BY <3>1, <3>2, <3>3
  <2> QED
    BY <1>2, <2>1 DEF InOrder
<1> QED
  BY <1>3, <1>4, <1>5, <1>8 DEF JoinOf

\* What the commands ask of a day, and what each of them may do.
RepeatOf(c) == IF c = "stage-a" THEN 2 ELSE 1

BuildTask(c, d) == [do |-> "build", date |-> d, repeat |-> RepeatOf(c)]

Allowed(c, t) ==
    /\ t.do = "build" => c # "thresholds" /\ \E d \in DatesAnalyzedBy(c) : t = BuildTask(c, d)
    /\ t.do = "analyze" => c # "thresholds"
    /\ t.do = "open" => c = "holdout"
    /\ t.do \in {"freeze", "seal"} => c = "development"

\* A single task.
LEMMA DoInOrder ==
    ASSUME NEW what \in Whats
    PROVE  /\ InOrder(Do(what))
           /\ DOMAIN Do(what) = {1} /\ Do(what)[1].do = what /\ Do(what)[1] = [do |-> what]
  BY DEF InOrder, Do, Task, Rank, Whats

\* The days of a command.
LEMMA BuildInOrder ==
    ASSUME NEW dates \in Seq(Dates), NEW repeat \in Nat
    PROVE  /\ InOrder(Build(dates, repeat))
           /\ DOMAIN Build(dates, repeat) = DOMAIN dates
           /\ \A i \in DOMAIN dates :
                 Build(dates, repeat)[i] = [do |-> "build", date |-> dates[i], repeat |-> repeat]
           /\ \A i \in DOMAIN dates : Rank(Build(dates, repeat)[i]) = 3
<1>1. /\ DOMAIN Build(dates, repeat) = DOMAIN dates
      /\ \A i \in DOMAIN dates :
            Build(dates, repeat)[i] = [do |-> "build", date |-> dates[i], repeat |-> repeat]
  BY DEF Build
<1>2. Build(dates, repeat) \in Seq(Task)
  BY DEF Build, Task
<1>3. \A i \in DOMAIN dates : Rank(Build(dates, repeat)[i]) = 3
  BY <1>1 DEF Rank
<1> QED
  BY <1>1, <1>2, <1>3 DEF InOrder

\* Tasks that a command may have, the last of them no later than `last'.
Fits(c, tasks, last) ==
    /\ InOrder(tasks)
    /\ \A i \in DOMAIN tasks : Rank(tasks[i]) <= last /\ Allowed(c, tasks[i])

\* Every day the command will analyse is to be built.
Builds(c, tasks) ==
    \A d \in DatesAnalyzedBy(c) : \E i \in DOMAIN tasks : tasks[i] = BuildTask(c, d)

\* The same of two lists, one after the other.
LEMMA JoinFits ==
    ASSUME NEW c, NEW s, NEW t, NEW n \in Nat, NEW m \in Nat, Fits(c, s, n), Fits(c, t, m),
           n <= m, \A i \in DOMAIN t : n <= Rank(t[i])
    PROVE  /\ Fits(c, s \o t, m)
           /\ Builds(c, s) \/ Builds(c, t) => Builds(c, s \o t)
           /\ \A what : Has(s, what) => Has(s \o t, what)
<1> DEFINE all == s \o t
<1>1. InOrder(all) /\ JoinOf(s, t, all)
  <2>1. /\ InOrder(s) /\ InOrder(t)
        /\ \A i \in DOMAIN s : Rank(s[i]) <= n
    BY DEF Fits
  <2> QED
    BY <2>1, JoinTasks
<1> HIDE DEF all
<1>2. \A i \in DOMAIN s : Rank(s[i]) <= m
  BY RankIsNumber DEF Fits, InOrder
<1>3. Fits(c, all, m)
  BY <1>1, <1>2 DEF JoinOf, Fits
<1>4. Builds(c, s) \/ Builds(c, t) => Builds(c, all)
  <2>1. ASSUME NEW d, \E i \in DOMAIN s : s[i] = BuildTask(c, d)
        PROVE  \E i \in DOMAIN all : all[i] = BuildTask(c, d)
    BY <1>1, <2>1 DEF JoinOf
  <2>2. ASSUME NEW d, \E i \in DOMAIN t : t[i] = BuildTask(c, d)
        PROVE  \E i \in DOMAIN all : all[i] = BuildTask(c, d)
    BY <1>1, <2>2 DEF JoinOf
  <2> QED
    BY <2>1, <2>2 DEF Builds
<1>5. \A what : Has(s, what) => Has(all, what)
  BY <1>1 DEF JoinOf, Has
<1> QED
  BY <1>3, <1>4, <1>5 DEF all

\* The same of a single task.
LEMMA DoFits ==
    ASSUME NEW c, NEW what \in Whats, NEW n \in Nat,
           Rank([do |-> what]) = n, Allowed(c, [do |-> what])
    PROVE  /\ Fits(c, Do(what), n) /\ Has(Do(what), what)
           /\ \A i \in DOMAIN Do(what) : Rank(Do(what)[i]) = n
<1>1. /\ InOrder(Do(what)) /\ DOMAIN Do(what) = {1}
      /\ Do(what)[1].do = what /\ Do(what)[1] = [do |-> what]
  BY DoInOrder
<1> QED
  BY <1>1 DEF Fits, Has

\* The same of the days of a command.
LEMMA BuildFits ==
    ASSUME NEW c, NEW dates \in Seq(Dates), c # "thresholds",
           DatesAnalyzedBy(c) = DatesOf(dates)
    PROVE  LET build == Build(dates, RepeatOf(c))
           IN  /\ Fits(c, build, 3) /\ Builds(c, build)
               /\ \A i \in DOMAIN build : Rank(build[i]) = 3
<1> DEFINE build == Build(dates, RepeatOf(c))
<1>1. /\ InOrder(build) /\ DOMAIN build = DOMAIN dates
      /\ \A i \in DOMAIN dates : build[i] = BuildTask(c, dates[i]) /\ Rank(build[i]) = 3
  BY BuildInOrder DEF RepeatOf, BuildTask
<1> HIDE DEF build
<1>2. \A i \in DOMAIN dates : dates[i] \in DatesAnalyzedBy(c)
  BY DEF DatesOf
<1>3. \A i \in DOMAIN dates : Allowed(c, build[i])
  BY <1>1, <1>2 DEF Allowed, BuildTask
<1>4. Fits(c, build, 3)
  BY <1>1, <1>3 DEF Fits
<1>5. Builds(c, build)
  BY <1>1 DEF Builds, DatesOf
<1> QED
  BY <1>1, <1>4, <1>5 DEF build

\* What a command begins with.
LEMMA CommandTasks ==
    ASSUME NEW c \in Commands
    PROVE  /\ Fits(c, Tasks(c), 6)
           /\ c \in {"validation", "holdout"} => Has(Tasks(c), "validate")
           /\ c = "holdout" => Has(Tasks(c), "open")
           /\ c = "development" => Has(Tasks(c), "freeze")
           /\ c # "thresholds" => Builds(c, Tasks(c))
<1>1. /\ Rank([do |-> "thresholds"]) = 0 /\ Rank([do |-> "validate"]) = 1
      /\ Rank([do |-> "open"]) = 2 /\ Rank([do |-> "analyze"]) = 4
      /\ Rank([do |-> "freeze"]) = 5 /\ Rank([do |-> "seal"]) = 6
  BY DEF Rank
<1>2. /\ Allowed(c, [do |-> "thresholds"]) /\ Allowed(c, [do |-> "validate"])
      /\ c = "holdout" => Allowed(c, [do |-> "open"])
      /\ c # "thresholds" => Allowed(c, [do |-> "analyze"])
      /\ c = "development" => Allowed(c, [do |-> "freeze"]) /\ Allowed(c, [do |-> "seal"])
  BY DEF Allowed
<1>3. ASSUME NEW dates \in Seq(Dates), c # "thresholds", DatesAnalyzedBy(c) = DatesOf(dates),
             NEW before, Fits(c, before, 2)
      PROVE  LET all == before \o Build(dates, RepeatOf(c)) \o Do("analyze")
             IN  /\ Fits(c, all, 4) /\ Builds(c, all)
                 /\ \A what : Has(before, what) => Has(all, what)
  <2> DEFINE b == Build(dates, RepeatOf(c))
             a == Do("analyze")
  <2>1. Fits(c, b, 3) /\ Builds(c, b) /\ \A i \in DOMAIN b : Rank(b[i]) = 3
    BY <1>3, BuildFits
  <2>2. Fits(c, a, 4) /\ \A i \in DOMAIN a : Rank(a[i]) = 4
    BY <1>1, <1>2, <1>3, DoFits DEF Whats
  <2> HIDE DEF a, b
  <2>3. /\ Fits(c, before \o b, 3) /\ Builds(c, before \o b)
        /\ \A what : Has(before, what) => Has(before \o b, what)
    BY <1>3, <2>1, JoinFits
  <2> DEFINE s == before \o b
  <2> HIDE DEF s
  <2>4. /\ Fits(c, s \o a, 4) /\ Builds(c, s \o a)
        /\ \A what : Has(s, what) => Has(s \o a, what)
    BY <2>2, <2>3, JoinFits DEF s
  <2> QED
    BY <2>3, <2>4 DEF s, a, b
<1>4. \A n, m \in Nat : n <= m => \A tasks : Fits(c, tasks, n) => Fits(c, tasks, m)
  BY RankIsNumber DEF Fits, InOrder
<1>5. CASE c = "thresholds"
  <2>1. Tasks(c) = Do("thresholds")
    BY <1>5 DEF Tasks
  <2>2. Fits(c, Tasks(c), 0)
    BY <2>1, <1>1, <1>2, DoFits DEF Whats
  <2> QED
    BY <1>4, <1>5, <2>2
<1>6. CASE c = "stage-a"
  <2>1. Tasks(c) = Do("thresholds") \o Build(StageA, RepeatOf(c)) \o Do("analyze")
    BY <1>6 DEF Tasks, RepeatOf
  <2>2. StageA \in Seq(Dates) /\ DatesAnalyzedBy(c) = DatesOf(StageA)
    BY <1>6, StudyAssumption DEF DatesAnalyzedBy
  <2>3. Fits(c, Do("thresholds"), 2)
    BY <1>1, <1>2, <1>4, DoFits DEF Whats
  <2>4. Fits(c, Tasks(c), 4) /\ Builds(c, Tasks(c))
    BY <1>3, <1>6, <2>1, <2>2, <2>3
  <2> QED
    BY <1>4, <1>6, <2>4
<1>7. CASE c = "validation"
  <2>1. Tasks(c) = Do("validate") \o Build(Validation, RepeatOf(c)) \o Do("analyze")
    BY <1>7 DEF Tasks, RepeatOf
  <2>2. Validation \in Seq(Dates) /\ DatesAnalyzedBy(c) = DatesOf(Validation)
    BY <1>7, StudyAssumption DEF DatesAnalyzedBy
  <2>3. Fits(c, Do("validate"), 2) /\ Has(Do("validate"), "validate")
    BY <1>1, <1>2, <1>4, DoFits DEF Whats
  <2>4. Fits(c, Tasks(c), 4) /\ Builds(c, Tasks(c)) /\ Has(Tasks(c), "validate")
    BY <1>3, <1>7, <2>1, <2>2, <2>3
  <2> QED
    BY <1>4, <1>7, <2>4
<1>8. CASE c = "holdout"
  <2> DEFINE before == Do("validate") \o Do("open")
  <2>1. Tasks(c) = before \o Build(Holdout, RepeatOf(c)) \o Do("analyze")
    BY <1>8 DEF Tasks, RepeatOf
  <2>2. Holdout \in Seq(Dates) /\ DatesAnalyzedBy(c) = DatesOf(Holdout)
    BY <1>8, StudyAssumption DEF DatesAnalyzedBy
  <2>3. Fits(c, before, 2) /\ Has(before, "validate") /\ Has(before, "open")
    <3>1. Fits(c, Do("validate"), 1) /\ Has(Do("validate"), "validate")
      BY <1>1, <1>2, DoFits DEF Whats
    <3>2. Fits(c, Do("open"), 2) /\ \A i \in DOMAIN Do("open") : Rank(Do("open")[i]) = 2
      BY <1>1, <1>2, <1>8, DoFits DEF Whats
    <3>3. Has(before, "open")
      BY DEF Do, Has
    <3>4. \A i \in DOMAIN Do("open") : 1 <= Rank(Do("open")[i])
      BY <3>2
    <3>5. Fits(c, before, 2) /\ Has(before, "validate")
      BY <3>1, <3>2, <3>4, JoinFits
    <3> QED
      BY <3>3, <3>5
  <2> HIDE DEF before
  <2>4. Fits(c, Tasks(c), 4) /\ Builds(c, Tasks(c)) /\ Has(Tasks(c), "validate") /\ Has(Tasks(c), "open")
    BY <1>3, <1>8, <2>1, <2>2, <2>3
  <2> QED
    BY <1>4, <1>8, <2>4
<1>9. CASE c = "development"
  <2> DEFINE built == Do("thresholds") \o Build(Development, RepeatOf(c)) \o Do("analyze")
             sealing == built \o Do("freeze")
  <2>1. Tasks(c) = sealing \o Do("seal")
    BY <1>9 DEF Tasks, RepeatOf
  <2>2. Development \in Seq(Dates) /\ DatesAnalyzedBy(c) = DatesOf(Development)
    BY <1>9, StudyAssumption DEF DatesAnalyzedBy
  <2>3. Fits(c, Do("thresholds"), 2)
    BY <1>1, <1>2, <1>4, DoFits DEF Whats
  <2>4. Fits(c, built, 4) /\ Builds(c, built)
    BY <1>3, <1>9, <2>2, <2>3
  <2>5. /\ Fits(c, Do("freeze"), 5) /\ \A i \in DOMAIN Do("freeze") : Rank(Do("freeze")[i]) = 5
        /\ Fits(c, Do("seal"), 6) /\ \A i \in DOMAIN Do("seal") : Rank(Do("seal")[i]) = 6
    BY <1>1, <1>2, <1>9, DoFits DEF Whats
  <2> HIDE DEF built
  <2>8. Has(sealing, "freeze")
    <3>1. Do("freeze") = <<[do |-> "freeze"]>> /\ built \in Seq(Task)
      BY <2>4 DEF Do, Fits, InOrder
    <3>2. /\ Len(built) + 1 \in DOMAIN sealing
          /\ sealing[Len(built) + 1] = [do |-> "freeze"]
      BY <3>1
    <3> QED
      BY <3>2 DEF Has
  <2>6. Fits(c, sealing, 5) /\ Builds(c, sealing)
    BY <2>4, <2>5, JoinFits
  <2> HIDE DEF sealing
  <2>7. /\ Fits(c, sealing \o Do("seal"), 6) /\ Builds(c, sealing \o Do("seal"))
        /\ Has(sealing \o Do("seal"), "freeze")
    BY <2>5, <2>6, <2>8, JoinFits
  <2> QED
    BY <1>9, <2>1, <2>7
<1> QED
  BY <1>5, <1>6, <1>7, <1>8, <1>9 DEF Commands

-------------------------------------------------------------------------------
(* PassiveStudy: the invariant. *)

Parts == {"placements", "probes", "labeled", "manifest"}

\* The files of a day, or the files a manifest names, were made in one go.
MadeInOneGo(d) ==
    /\ d.labeled \notin {Absent, Torn} /\ d.probes \notin {Absent, Torn}
    /\ d.labeled.probes = d.probes
    /\ d.probes.placements = d.placements

Shape ==
    /\ DOMAIN day = Dates /\ \A d \in Dates : DOMAIN day[d] = Parts
    /\ command \in Commands \cup {"none"}
    /\ command = "none" => task = <<>>
    /\ Fits(command, task, 6)
    /\ file # "manifest" => At("build")

\* Once it has a hash, the specification stays what it is.
Sealed == frozen # Absent /\ frozen_hash = frozen

Freezing ==
    /\ frozen = Absent \/ DOMAIN frozen = {"models", "bundle", "binary", "thresholds"}
    /\ frozen = Absent => frozen_hash = Absent
    /\ opening # Absent => opening = frozen /\ Sealed
    /\ command \in {"validation", "holdout"} => Has(task, "validate") \/ FrozenIsValid
    /\ command = "holdout" => Has(task, "open") \/ opening # Absent
    /\ command = "development" => Has(task, "freeze") \/ frozen # Absent

\* The day at hand, file by file.
AtHand ==
    /\ file \in {"probes", "probed", "labeled", "described"} => day[Date].placements # Absent
    /\ file = "labeled" =>
          /\ day[Date].probes \notin {Absent, Torn}
          /\ day[Date].probes.placements = day[Date].placements
    /\ file = "described" => MadeInOneGo(day[Date])

\* A manifest names files made in one go; the days of the command that are not
\* to be built any more are as their manifests say.
Built ==
    /\ \A d \in Dates : day[d].manifest # Absent => MadeInOneGo(day[d].manifest)
    /\ command \notin {"none", "thresholds"} =>
          \A d \in DatesAnalyzedBy(command) :
              \/ Reusable(d, RepeatOf(command))
              \/ \E i \in DOMAIN task : task[i] = BuildTask(command, d)

\* Days of the later stages are made with the sealed specification.
Later ==
    /\ \A d \in DatesOf(Validation) \cup DatesOf(Holdout) :
          /\ day[d].placements # Absent => Sealed /\ day[d].placements.models = frozen.models
          /\ day[d].probes \notin {Absent, Torn} =>
                /\ Sealed
                /\ day[d].probes.binary = frozen.binary
                /\ day[d].probes.placements.models = frozen.models
    /\ \A d \in DatesOf(Holdout) : day[d].placements # Absent => opening # Absent

SInv == Shape /\ Freezing /\ AtHand /\ Built /\ Later

\* A file that was written is neither missing nor half written.
LEMMA FilesDiffer ==
    /\ Absent # Torn
    /\ \A a, b, c : [code |-> a, models |-> b, features |-> c] # Absent
    /\ \A a, b : [placements |-> a, binary |-> b] \notin {Absent, Torn}
    /\ \A a, b, c : [probes |-> a, code |-> b, features |-> c] \notin {Absent, Torn}
    /\ \A a, b, c, d : [models |-> a, bundle |-> b, binary |-> c, thresholds |-> d] # Absent
    /\ DOMAIN Torn = {"torn"} /\ DOMAIN Absent = {"absent"}
  BY DEF Absent, Torn

\* A task is taken off the list.
LEMMA TaskDone ==
    ASSUME Fits(command, task, 6), task # <<>>
    PROVE  /\ Fits(command, Tail(task), 6)
           /\ \A what : Has(task, what) => Has(Tail(task), what) \/ Head(task).do = what
           /\ \A t : (\E i \in DOMAIN task : task[i] = t) =>
                    t = Head(task) \/ \E i \in DOMAIN Tail(task) : Tail(task)[i] = t
           /\ \A i \in DOMAIN task : Rank(Head(task)) <= Rank(task[i])
           /\ Head(task) \in Task /\ Allowed(command, Head(task))
           /\ \A i \in DOMAIN task : task[i] \in Task
<1>1. InOrder(task)
  BY DEF Fits
<1> DEFINE rest == Tail(task)
<1>2. /\ InOrder(rest)
      /\ Head(task) \in Task
      /\ \A i \in DOMAIN rest : i + 1 \in DOMAIN task /\ rest[i] = task[i + 1]
      /\ \A i \in DOMAIN task : task[i] = Head(task) \/ (i - 1 \in DOMAIN rest /\ i \in Int)
      /\ \A i \in DOMAIN task : Rank(Head(task)) <= Rank(task[i])
  BY <1>1, TailTasks DEF InOrder
<1>3. \A i \in DOMAIN task : i \in Int /\ task[i] \in Task
  BY <1>1 DEF InOrder
<1>4. 1 \in DOMAIN task /\ Head(task) = task[1]
  BY <1>1 DEF InOrder
<1> HIDE DEF rest
<1>5. Fits(command, rest, 6)
  BY <1>2 DEF Fits
<1>6. \A i \in DOMAIN task : task[i] = Head(task) \/ \E j \in DOMAIN rest : rest[j] = task[i]
  <2> TAKE i \in DOMAIN task
  <2>1. CASE i - 1 \in DOMAIN rest
    <3>1. rest[i - 1] = task[(i - 1) + 1] /\ (i - 1) + 1 = i
      BY <1>2, <1>3, <2>1
    <3> QED
      BY <2>1, <3>1
  <2> QED
    BY <1>2, <2>1
<1>7. \A what : Has(task, what) => Has(rest, what) \/ Head(task).do = what
  BY <1>6 DEF Has
<1>8. Allowed(command, Head(task))
  BY <1>4 DEF Fits
<1> QED
  BY <1>2, <1>3, <1>5, <1>6, <1>7, <1>8 DEF rest

\* Who builds a day, and what he knows.
LEMMA AtBuild ==
    ASSUME SInv, At("build")
    PROVE  /\ Date \in Dates /\ Head(task) = BuildTask(command, Date)
           /\ command \notin {"none", "thresholds"}
           /\ Date \in DatesOf(Validation) \cup DatesOf(Holdout) => FrozenIsValid
           /\ Date \in DatesOf(Holdout) => opening # Absent
<1>1. /\ Head(task) \in Task /\ Allowed(command, Head(task)) /\ Head(task).do = "build"
      /\ \A i \in DOMAIN task : Rank(Head(task)) <= Rank(task[i])
      /\ \A i \in DOMAIN task : task[i] \in Task
      /\ task # <<>>
  BY TaskDone DEF SInv, Shape, At
<1>2. PICK d \in DatesAnalyzedBy(command) : Head(task) = BuildTask(command, d)
  BY <1>1 DEF Allowed
<1>3. /\ Date = d /\ Head(task) = BuildTask(command, Date) /\ Date \in Dates
  <2>1. Head(task) \in [do : {"build"}, date : Dates, repeat : Nat]
    BY <1>1 DEF Task, Whats
  <2> QED
    BY <1>2, <2>1 DEF Date, BuildTask
<1>4. command \notin {"none", "thresholds"}
  BY <1>1 DEF SInv, Shape, Allowed
<1>5. ~Has(task, "validate") /\ ~Has(task, "open")
  <2>1. Rank(Head(task)) = 3
    BY <1>1 DEF Rank
  <2>2. \A i \in DOMAIN task : 3 <= Rank(task[i])
    BY <1>1, <2>1
  <2>3. \A t : (t.do = "validate" => Rank(t) = 1) /\ (t.do = "open" => Rank(t) = 2)
    BY DEF Rank
  <2> QED
    BY <2>2, <2>3 DEF Has
<1>6. /\ command \in {"validation", "holdout"} => FrozenIsValid
      /\ command = "holdout" => opening # Absent
  BY <1>5 DEF SInv, Freezing
<1>7. /\ Date \in DatesOf(Holdout) => command = "holdout"
      /\ Date \in DatesOf(Validation) => command = "validation"
  <2>1. command \in {"stage-a", "development", "validation", "holdout"}
    BY <1>4 DEF SInv, Shape, Commands
  <2>2. /\ command = "stage-a" => d \in DatesOf(Development)
        /\ command = "development" => d \in DatesOf(Development)
        /\ command = "validation" => d \in DatesOf(Validation)
        /\ command = "holdout" => d \in DatesOf(Holdout)
    BY <1>2, StudyAssumption DEF DatesAnalyzedBy
  <2> QED
    BY <1>3, <2>1, <2>2, StudyAssumption
<1> QED
  BY <1>3, <1>4, <1>6, <1>7

\* A file of the day at hand is written.
LEMMA WriteEffect ==
    ASSUME SInv, At("build"), NEW f \in Parts, NEW content, Write(f, content)
    PROVE  /\ DOMAIN day' = Dates /\ \A d \in Dates : DOMAIN day'[d] = Parts
           /\ \A d \in Dates \ {Date} : day'[d] = day[d]
           /\ day'[Date][f] = content
           /\ \A g \in Parts \ {f} : day'[Date][g] = day[Date][g]
<1>1. Date \in Dates
  BY AtBuild
<1> QED
  BY <1>1 DEF Write, SInv, Shape

\* No file is there and no command runs.
LEMMA StudyInit == SInit => SInv
<1> SUFFICES ASSUME SInit PROVE SInv
  OBVIOUS
<1> USE DEF SInit
<1>1. Shape
  <2>1. InOrder(<<>>)
    BY DEF InOrder
  <2> QED
    BY <2>1 DEF Shape, Fits, Parts
<1>2. Freezing /\ AtHand
  BY DEF Freezing, AtHand
<1>3. Built /\ Later
  BY StudyAssumption DEF Built, Later, Dates
<1> QED
  BY <1>1, <1>2, <1>3 DEF SInv

\* A sealed specification is never written again.
LEMMA SealedStays ==
    ASSUME SInv, [SNext]_svars, Sealed
    PROVE  Sealed' /\ frozen' = frozen
<1>1. frozen # Absent /\ frozen_hash = frozen /\ frozen # Torn
  BY FilesDiffer DEF SInv, Freezing, Sealed
<1> QED
  BY <1>1, FilesDiffer
  DEF Sealed, SNext, svars, StartCommand, EndCommand, ComputeSignalThresholds, Analyze, Reuse,
      BuildPlacements, StartProbe, RunProbe, LabelProbes, WriteManifest, Validate, Freeze,
      AlreadyFrozen, StartSeal, Seal, OpenHoldout, Crash, Edit, files

\* What does not depend on the day at hand stays as it is.
LEMMA BuildKeeps ==
    ASSUME SInv, At("build"), [SNext]_svars,
           UNCHANGED <<inputs, frozen, frozen_hash, opening, command, task>>,
           file' # "manifest",
           NEW f \in Parts \ {"manifest"}, NEW content, Write(f, content)
    PROVE  Shape' /\ Freezing' /\ Built'
<1>1. /\ DOMAIN day' = Dates /\ \A d \in Dates : DOMAIN day'[d] = Parts
      /\ \A d \in Dates \ {Date} : day'[d] = day[d]
      /\ \A g \in Parts \ {f} : day'[Date][g] = day[Date][g]
  BY WriteEffect
<1>2. Date \in Dates /\ Head(task) = BuildTask(command, Date)
  BY AtBuild
<1>3. Shape'
  BY <1>1 DEF SInv, Shape, At, Fits, InOrder, Allowed
<1>4. Freezing'
  BY DEF SInv, Freezing, Sealed, FrozenIsValid
<1>5. \A d \in Dates : day'[d].manifest = day[d].manifest
  BY <1>1, <1>2 DEF Parts
<1>6. \E i \in DOMAIN task : task[i] = BuildTask(command, Date)
  <2>1. task \in Seq(Task) /\ task # <<>>
    BY DEF SInv, Shape, Fits, InOrder, At
  <2>2. 1 \in DOMAIN task /\ task[1] = Head(task)
    BY <2>1
  <2> QED
    BY <1>2, <2>2
<1>7. \A d \in Dates \ {Date} : \A r : Reusable(d, r)' <=> Reusable(d, r)
  BY <1>1 DEF Reusable
<1>8. command \notin {"none", "thresholds"} => DatesAnalyzedBy(command) \subseteq Dates
  BY StudyAssumption DEF SInv, Shape, Commands, DatesAnalyzedBy, Dates
<1>9. Built'
  BY <1>5, <1>6, <1>7, <1>8 DEF SInv, Built, MadeInOneGo
<1> QED
  BY <1>3, <1>4, <1>9

\* A task is over, and the day at hand with it: the days are as they were, but
\* perhaps for the one that was to be built, which is as its manifest says.
LEMMA AfterTask ==
    ASSUME SInv, task # <<>>, Done, UNCHANGED command, file' = "manifest",
           DOMAIN day' = Dates, \A d \in Dates : DOMAIN day'[d] = Parts,
           NEW built \in SUBSET Dates,
           \A d \in Dates \ built : day'[d] = day[d],
           \A d \in built : /\ MadeInOneGo(day'[d].manifest)
                            /\ Reusable(d, RepeatOf(command))',
           Head(task).do = "build" =>
               \/ Date \in built
               \/ Reusable(Date, RepeatOf(command)),
           Head(task).do = "build" => Head(task) = BuildTask(command, Date) /\ Date \in Dates
    PROVE  Shape' /\ AtHand' /\ Built' /\ command # "none"
<1>1. /\ Fits(command, Tail(task), 6)
      /\ \A what : Has(task, what) => Has(Tail(task), what) \/ Head(task).do = what
      /\ \A t : (\E i \in DOMAIN task : task[i] = t) =>
               t = Head(task) \/ \E i \in DOMAIN Tail(task) : Tail(task)[i] = t
  BY TaskDone DEF SInv, Shape
<1>2. command # "none"
  BY DEF SInv, Shape
<1>3. Fits(command', task', 6)
  BY <1>1 DEF Done
<1>4. Shape'
  BY <1>2, <1>3 DEF SInv, Shape
<1>5. AtHand'
  BY DEF AtHand
<1>6. \A d \in Dates \ built : \A r : Reusable(d, r)' <=> Reusable(d, r)
  BY DEF Reusable
<1>7. \A d \in Dates : day'[d].manifest # Absent => MadeInOneGo(day'[d].manifest)
  BY DEF SInv, Built
<1>8. ASSUME command \notin {"none", "thresholds"}, NEW d \in DatesAnalyzedBy(command)
      PROVE  \/ Reusable(d, RepeatOf(command))'
             \/ \E i \in DOMAIN task' : task'[i] = BuildTask(command, d)
  <2>1. d \in Dates
    BY <1>8, StudyAssumption DEF SInv, Shape, Commands, DatesAnalyzedBy, Dates
  <2>2. CASE d \in built
    BY <2>2
  <2>3. CASE d \notin built /\ Reusable(d, RepeatOf(command))
    BY <1>6, <2>1, <2>3
  <2>4. CASE d \notin built /\ \E i \in DOMAIN task : task[i] = BuildTask(command, d)
    <3>1. CASE BuildTask(command, d) = Head(task)
      <4>1. Head(task).do = "build" /\ Date = d
        BY <3>1 DEF BuildTask, Date
      <4> QED
        BY <1>6, <2>1, <2>4, <4>1
    <3>2. CASE \E i \in DOMAIN Tail(task) : Tail(task)[i] = BuildTask(command, d)
      BY <3>2 DEF Done
    <3> QED
      BY <1>1, <2>4, <3>1, <3>2
  <2> QED
    BY <1>8, <2>2, <2>3, <2>4 DEF SInv, Built
<1>9. Built'
  <2>1. command' \notin {"none", "thresholds"} =>
            \A d \in DatesAnalyzedBy(command') :
               \/ Reusable(d, RepeatOf(command))'
               \/ \E i \in DOMAIN task' : task'[i] = BuildTask(command', d)
    BY <1>8
  <2> QED
    BY <1>7, <2>1 DEF Built
<1> QED
  BY <1>2, <1>4, <1>5, <1>9

\* A task that touches no file of a day.
LEMMA AfterOtherTask ==
    ASSUME SInv, task # <<>>, Done, UNCHANGED <<command, file, day>>, Head(task).do # "build"
    PROVE  Shape' /\ AtHand' /\ Built' /\ command # "none"
<1>1. file' = "manifest"
  BY DEF SInv, Shape, At
<1>2. DOMAIN day' = Dates /\ \A d \in Dates : DOMAIN day'[d] = Parts
  BY DEF SInv, Shape
<1> DEFINE built == {}
<1>3. /\ built \in SUBSET Dates
      /\ \A d \in Dates \ built : day'[d] = day[d]
      /\ \A d \in built : MadeInOneGo(day'[d].manifest) /\ Reusable(d, RepeatOf(command))'
  OBVIOUS
<1> HIDE DEF built
<1> QED
  BY <1>1, <1>2, <1>3, AfterTask

\* A command is over.
LEMMA AfterCommand ==
    ASSUME SInv, Abort, file' = "manifest", UNCHANGED files
    PROVE  SInv'
<1>1. Fits(command', task', 6)
  BY DEF Abort, Fits, InOrder
<1>2. Shape'
  BY <1>1 DEF Abort, SInv, Shape, files
<1>3. Freezing' /\ Later'
  BY DEF Abort, SInv, Freezing, Later, Sealed, files
<1>4. AtHand' /\ Built'
  BY DEF Abort, SInv, AtHand, Built, files, MadeInOneGo
<1> QED
  BY <1>2, <1>3, <1>4 DEF SInv

\* What the later stages need follows the files of the days.
LEMMA LaterStays ==
    ASSUME SInv, [SNext]_svars, UNCHANGED day, opening # Absent => opening' # Absent
    PROVE  Later'
<1>1. Sealed => Sealed' /\ frozen' = frozen
  BY SealedStays
<1> QED
  BY <1>1 DEF SInv, Later

\* One step of the study.
LEMMA StudyNext == SInv /\ [SNext]_svars => SInv'
<1> SUFFICES ASSUME SInv, [SNext]_svars PROVE SInv'
  OBVIOUS
<1>1. ASSUME NEW c \in Commands, StartCommand(c) PROVE SInv'
  <2>1. /\ Fits(c, Tasks(c), 6)
        /\ c \in {"validation", "holdout"} => Has(Tasks(c), "validate")
        /\ c = "holdout" => Has(Tasks(c), "open")
        /\ c = "development" => Has(Tasks(c), "freeze")
        /\ c # "thresholds" => Builds(c, Tasks(c))
    BY CommandTasks
  <2>2. /\ command' = c /\ task' = Tasks(c) /\ file' = file /\ file = "manifest"
        /\ UNCHANGED <<inputs, files>>
    BY <1>1 DEF StartCommand, SInv, Shape, At
  <2> HIDE DEF Tasks
  <2>7. Fits(command', task', 6)
    BY <2>1, <2>2
  <2>3. Shape'
    BY <2>2, <2>7 DEF SInv, Shape, files, Commands
  <2>4. Freezing'
    BY <2>1, <2>2 DEF SInv, Freezing, files, Sealed
  <2>5. AtHand'
    BY <2>2 DEF AtHand
  <2>6. Built' /\ Later'
    BY <2>1, <2>2 DEF SInv, Built, Builds, Later, files, Sealed, MadeInOneGo
  <2> QED
    BY <2>3, <2>4, <2>5, <2>6 DEF SInv
<1>2. CASE EndCommand
  <2>1. Abort /\ file' = "manifest" /\ UNCHANGED files
    BY <1>2 DEF EndCommand, Abort, SInv, Shape, At
  <2> QED
    BY <2>1, AfterCommand
<1>3. ASSUME task # <<>>, Done, UNCHANGED <<command, file, day>>, Head(task).do # "build",
             opening # Absent => opening' # Absent, Freezing'
      PROVE  SInv'
  BY <1>3, AfterOtherTask, LaterStays DEF SInv
<1>4. CASE ComputeSignalThresholds
  <2>1. /\ task # <<>> /\ Done /\ UNCHANGED <<command, file, day>> /\ Head(task).do = "thresholds"
        /\ UNCHANGED <<inputs, frozen, frozen_hash, opening>>
    BY <1>4 DEF ComputeSignalThresholds, At
  <2>2. Freezing'
    BY <2>1, TaskDone DEF SInv, Shape, Freezing, Sealed, FrozenIsValid, Done
  <2> QED
    BY <1>3, <2>1, <2>2
<1>5. CASE Analyze
  <2>1. /\ task # <<>> /\ Done /\ UNCHANGED <<command, file, day>> /\ Head(task).do = "analyze"
        /\ UNCHANGED <<inputs, frozen, frozen_hash, opening>>
    BY <1>5 DEF Analyze, At, files
  <2>2. Freezing'
    BY <2>1, TaskDone DEF SInv, Shape, Freezing, Sealed, FrozenIsValid, Done
  <2> QED
    BY <1>3, <2>1, <2>2
<1>6. CASE Reuse
  <2>1. /\ At("build") /\ task # <<>> /\ Done /\ file = "manifest" /\ Head(task).do = "build"
        /\ UNCHANGED <<inputs, files, command, file>> /\ Reusable(Date, Head(task).repeat)
    BY <1>6 DEF Reuse, Building, At
  <2>2. Date \in Dates /\ Head(task) = BuildTask(command, Date)
    BY <2>1, AtBuild
  <2>3. Reusable(Date, RepeatOf(command))
    <3>1. Head(task).repeat = RepeatOf(command)
      BY <2>2 DEF BuildTask
    <3> QED
      BY <2>1, <3>1
  <2>4. Freezing' /\ Later'
    BY <2>1, TaskDone DEF SInv, Shape, Freezing, Later, Sealed, FrozenIsValid, Done, files
  <2> DEFINE built == {}
  <2>5. /\ built \in SUBSET Dates
        /\ \A d \in Dates \ built : day'[d] = day[d]
        /\ \A d \in built : MadeInOneGo(day'[d].manifest) /\ Reusable(d, RepeatOf(command))'
    BY <2>1 DEF files
  <2> HIDE DEF built
  <2>6. /\ file' = "manifest" /\ DOMAIN day' = Dates /\ \A d \in Dates : DOMAIN day'[d] = Parts
    BY <2>1 DEF files, SInv, Shape
  <2> QED
    BY <2>1, <2>2, <2>3, <2>4, <2>5, <2>6, AfterTask DEF SInv
<1>7. CASE Validate
  <2>1. CASE FrozenIsValid
    <3>1. /\ task # <<>> /\ Done /\ UNCHANGED <<command, file, day>> /\ Head(task).do = "validate"
          /\ UNCHANGED <<inputs, frozen, frozen_hash, opening>>
      BY <1>7, <2>1 DEF Validate, At, files
    <3>2. Freezing'
      BY <2>1, <3>1, TaskDone DEF SInv, Shape, Freezing, Sealed, FrozenIsValid, Done
    <3> QED
      BY <1>3, <3>1, <3>2
  <2>2. CASE ~FrozenIsValid
    <3>1. Abort /\ file' = file /\ UNCHANGED files /\ Head(task).do = "validate"
      BY <1>7, <2>2 DEF Validate, At
    <3>2. file = "manifest"
      BY <3>1 DEF SInv, Shape, At
    <3> QED
      BY <3>1, <3>2, AfterCommand
  <2> QED
    BY <2>1, <2>2
<1>8. CASE Freeze
  <2>1. /\ task # <<>> /\ Done /\ UNCHANGED <<command, file, day>> /\ Head(task).do = "freeze"
        /\ UNCHANGED <<inputs, frozen_hash, opening>>
        /\ frozen = Absent /\ DOMAIN frozen' = {"models", "bundle", "binary", "thresholds"}
    BY <1>8 DEF Freeze, At
  <2>2. command = "development"
    BY <2>1, TaskDone DEF SInv, Shape, Allowed
  <2>3. Freezing'
    BY <2>1, <2>2, FilesDiffer DEF SInv, Freezing, Sealed
  <2> QED
    BY <1>3, <2>1, <2>3
<1>9. CASE AlreadyFrozen
  <2>1. Abort /\ file' = file /\ UNCHANGED files /\ Head(task).do = "freeze"
    BY <1>9 DEF AlreadyFrozen, At
  <2>2. file = "manifest"
    BY <2>1 DEF SInv, Shape, At
  <2> QED
    BY <2>1, <2>2, AfterCommand
<1>10. CASE StartSeal
  <2>1. /\ UNCHANGED <<inputs, frozen, opening, day, command, task, file>>
        /\ Head(task).do = "seal" /\ task # <<>> /\ frozen_hash = Absent
    BY <1>10 DEF StartSeal, At
  <2>2. command = "development"
    BY <2>1, TaskDone DEF SInv, Shape, Allowed
  <2>3. ~Sealed
    BY <2>1 DEF Sealed
  <2>8. frozen # Absent
    <3>1. Rank(Head(task)) = 6
      BY <2>1 DEF Rank
    <3>2. \A i \in DOMAIN task : 6 <= Rank(task[i])
      BY <2>1, <3>1, TaskDone DEF SInv, Shape
    <3>3. ~Has(task, "freeze")
      BY <3>2 DEF Has, Rank
    <3> QED
      BY <2>2, <3>3 DEF SInv, Freezing
  <2>4. Freezing'
    BY <2>1, <2>2, <2>3, <2>8 DEF SInv, Freezing
  <2>6. AtHand'
    BY <2>1 DEF SInv, AtHand, MadeInOneGo, Date
  <2>7. Built'
    BY <2>1 DEF SInv, Built, MadeInOneGo, Reusable
  <2>5. Shape'
    BY <2>1 DEF SInv, Shape, Fits, InOrder, Allowed, At
  <2> QED
    BY <2>1, <2>4, <2>5, <2>6, <2>7, LaterStays DEF SInv
<1>11. CASE Seal
  <2>1. /\ task # <<>> /\ Done /\ UNCHANGED <<command, file, day>> /\ Head(task).do = "seal"
        /\ UNCHANGED <<inputs, frozen, opening>> /\ frozen_hash = Torn /\ frozen_hash' = frozen
    BY <1>11 DEF Seal, At
  <2>2. command = "development"
    BY <2>1, TaskDone DEF SInv, Shape, Allowed
  <2>3. frozen # Absent
    BY <2>1, FilesDiffer DEF SInv, Freezing
  <2>4. Freezing'
    BY <2>1, <2>2, <2>3 DEF SInv, Freezing, Sealed
  <2> QED
    BY <1>3, <2>1, <2>4
<1>12. CASE OpenHoldout
  <2>1. /\ task # <<>> /\ Head(task).do = "open" /\ At("open")
        /\ UNCHANGED <<inputs, frozen, frozen_hash, day, file>>
        /\ IF opening = Absent THEN opening' = frozen ELSE opening' = opening
        /\ IF opening \in {Absent, frozen} THEN Done /\ UNCHANGED command ELSE Abort
    BY <1>12 DEF OpenHoldout, At
  <2>2. command = "holdout"
    BY <2>1, TaskDone DEF SInv, Shape, Allowed
  <2>3. FrozenIsValid
    <3>1. Rank(Head(task)) = 2
      BY <2>1 DEF Rank
    <3>2. \A i \in DOMAIN task : 2 <= Rank(task[i])
      BY <2>1, <3>1, TaskDone DEF SInv, Shape
    <3>3. ~Has(task, "validate")
      BY <3>2 DEF Has, Rank
    <3> QED
      BY <2>2, <3>3 DEF SInv, Freezing
  <2>4. Done /\ UNCHANGED command /\ opening' = frozen /\ frozen # Absent /\ Sealed /\ Sealed'
    BY <2>1, <2>3 DEF SInv, Freezing, FrozenIsValid, Sealed
  <2>5. Freezing'
    BY <2>1, <2>3, <2>4 DEF SInv, Freezing, FrozenIsValid
  <2> QED
    BY <1>3, <2>1, <2>4, <2>5
<1>13. CASE Crash
  BY <1>13, AfterCommand DEF Crash
<1>14. ASSUME NEW i \in Inputs, Edit(i) PROVE SInv'
  <2>1. command = "none" /\ UNCHANGED <<files, command, task, file>>
    BY <1>14 DEF Edit
  <2>2. task = <<>> /\ file = "manifest"
    BY <2>1 DEF SInv, Shape, At
  <2>3. Abort /\ file' = "manifest" /\ UNCHANGED files
    BY <2>1, <2>2 DEF Abort
  <2> QED
    BY <2>3, AfterCommand
<1>15. CASE UNCHANGED svars
  <2>1. Shape' /\ Freezing'
    BY <1>15 DEF svars, SInv, Shape, Fits, InOrder, Allowed, At, Freezing, Sealed, FrozenIsValid
  <2>2. AtHand' /\ Built' /\ Later'
    BY <1>15 DEF svars, SInv, AtHand, Built, Later, MadeInOneGo, Reusable, Sealed, Date
  <2> QED
    BY <2>1, <2>2 DEF SInv
<1>16. CASE BuildPlacements
  <2> DEFINE content == [code |-> inputs["code"], models |-> inputs["models"],
                         features |-> inputs["features"]]
  <2>1. /\ At("build") /\ Write("placements", content) /\ file' = "probes"
        /\ UNCHANGED <<inputs, frozen, frozen_hash, opening, command, task>>
    BY <1>16 DEF BuildPlacements, Building
  <2>2. content # Absent /\ content.models = inputs["models"]
    BY FilesDiffer
  <2> HIDE DEF content
  <2>3. Shape' /\ Freezing' /\ Built'
    BY <2>1, BuildKeeps DEF Parts
  <2>4. /\ \A d \in Dates \ {Date} : day'[d] = day[d]
        /\ day'[Date]["placements"] = content
        /\ \A g \in Parts \ {"placements"} : day'[Date][g] = day[Date][g]
    BY <2>1, WriteEffect DEF Parts
  <2>5. AtHand'
    BY <2>1, <2>2, <2>4 DEF AtHand, Date
  <2>6. Later'
    <3>1. Date \in DatesOf(Validation) \cup DatesOf(Holdout) =>
              Sealed /\ frozen.models = inputs["models"]
      BY <2>1, AtBuild DEF FrozenIsValid, Sealed
    <3>2. Date \in DatesOf(Holdout) => opening # Absent
      BY <2>1, AtBuild
    <3>3. DatesOf(Validation) \cup DatesOf(Holdout) \subseteq Dates
      BY DEF Dates
    <3> QED
      BY <2>1, <2>2, <2>4, <3>1, <3>2, <3>3 DEF SInv, Later, Sealed, Parts
  <2> QED
    BY <2>3, <2>5, <2>6 DEF SInv
<1>17. CASE StartProbe
  <2>1. /\ At("build") /\ Write("probes", Torn) /\ file' = "probed" /\ file = "probes"
        /\ UNCHANGED <<inputs, frozen, frozen_hash, opening, command, task>>
    BY <1>17 DEF StartProbe, Building
  <2>2. Shape' /\ Freezing' /\ Built'
    BY <2>1, BuildKeeps DEF Parts
  <2>3. /\ \A d \in Dates \ {Date} : day'[d] = day[d]
        /\ day'[Date]["probes"] = Torn
        /\ \A g \in Parts \ {"probes"} : day'[Date][g] = day[Date][g]
    BY <2>1, WriteEffect DEF Parts
  <2>4. AtHand'
    BY <2>1, <2>3 DEF SInv, AtHand, Date, Parts
  <2>5. DatesOf(Validation) \cup DatesOf(Holdout) \subseteq Dates
    BY DEF Dates
  <2>6. Later'
    BY <2>1, <2>3, <2>5 DEF SInv, Later, Sealed, Parts
  <2> QED
    BY <2>2, <2>4, <2>6 DEF SInv
<1>18. CASE RunProbe
  <2> DEFINE content == [placements |-> day[Date].placements, binary |-> inputs["binary"]]
  <2>1. /\ At("build") /\ Write("probes", content) /\ file' = "labeled" /\ file = "probed"
        /\ UNCHANGED <<inputs, frozen, frozen_hash, opening, command, task>>
    BY <1>18 DEF RunProbe, Building
  <2>2. /\ content \notin {Absent, Torn} /\ content.binary = inputs["binary"]
        /\ content.placements = day[Date].placements
    BY FilesDiffer
  <2> HIDE DEF content
  <2>3. Shape' /\ Freezing' /\ Built'
    BY <2>1, BuildKeeps DEF Parts
  <2>4. /\ \A d \in Dates \ {Date} : day'[d] = day[d]
        /\ day'[Date]["probes"] = content
        /\ \A g \in Parts \ {"probes"} : day'[Date][g] = day[Date][g]
    BY <2>1, WriteEffect DEF Parts
  <2>5. AtHand'
    BY <2>1, <2>2, <2>4 DEF SInv, AtHand, Date, Parts
  <2>6. Later'
    <3>1. Date \in DatesOf(Validation) \cup DatesOf(Holdout) =>
              Sealed /\ frozen.binary = inputs["binary"]
      BY <2>1, AtBuild DEF FrozenIsValid, Sealed
    <3>2. Date \in DatesOf(Validation) \cup DatesOf(Holdout) =>
              day[Date].placements.models = frozen.models
      BY <2>1 DEF SInv, AtHand, Later
    <3>3. DatesOf(Validation) \cup DatesOf(Holdout) \subseteq Dates
      BY DEF Dates
    <3> QED
      BY <2>1, <2>2, <2>4, <3>1, <3>2, <3>3 DEF SInv, Later, Sealed, Parts
  <2> QED
    BY <2>3, <2>5, <2>6 DEF SInv
<1>19. CASE LabelProbes
  <2> DEFINE content == [probes |-> day[Date].probes, code |-> inputs["code"],
                         features |-> inputs["features"]]
  <2>1. /\ At("build") /\ Write("labeled", content) /\ file' = "described" /\ file = "labeled"
        /\ UNCHANGED <<inputs, frozen, frozen_hash, opening, command, task>>
    BY <1>19 DEF LabelProbes, Building
  <2>2. content \notin {Absent, Torn} /\ content.probes = day[Date].probes
    BY FilesDiffer
  <2> HIDE DEF content
  <2>3. Shape' /\ Freezing' /\ Built'
    BY <2>1, BuildKeeps DEF Parts
  <2>4. /\ \A d \in Dates \ {Date} : day'[d] = day[d]
        /\ day'[Date]["labeled"] = content
        /\ \A g \in Parts \ {"labeled"} : day'[Date][g] = day[Date][g]
    BY <2>1, WriteEffect DEF Parts
  <2>5. AtHand'
    BY <2>1, <2>2, <2>4 DEF SInv, AtHand, Date, Parts, MadeInOneGo
  <2>6. DatesOf(Validation) \cup DatesOf(Holdout) \subseteq Dates
    BY DEF Dates
  <2>7. Later'
    BY <2>1, <2>4, <2>6 DEF SInv, Later, Sealed, Parts
  <2> QED
    BY <2>3, <2>5, <2>7 DEF SInv
<1>20. CASE WriteManifest
  <2> DEFINE content == [placements |-> day[Date].placements, probes |-> day[Date].probes,
                         labeled |-> day[Date].labeled, repeat |-> Head(task).repeat]
  <2>1. /\ At("build") /\ Write("manifest", content) /\ file' = "manifest" /\ file = "described"
        /\ task # <<>> /\ Done
        /\ UNCHANGED <<inputs, frozen, frozen_hash, opening, command>>
    BY <1>20 DEF WriteManifest, Building, At
  <2>2. /\ content # Absent
        /\ \A f \in {"placements", "probes", "labeled"} : content[f] = day[Date][f]
        /\ content.repeat = Head(task).repeat
    <3>1. DOMAIN content # DOMAIN Absent
      BY FilesDiffer
    <3> QED
      BY <3>1
  <2> HIDE DEF content
  <2>3. /\ DOMAIN day' = Dates /\ \A d \in Dates : DOMAIN day'[d] = Parts
        /\ \A d \in Dates \ {Date} : day'[d] = day[d]
        /\ day'[Date]["manifest"] = content
        /\ \A g \in Parts \ {"manifest"} : day'[Date][g] = day[Date][g]
    BY <2>1, WriteEffect DEF Parts
  <2>4. Date \in Dates /\ Head(task) = BuildTask(command, Date) /\ Head(task).do = "build"
    BY <2>1, AtBuild DEF At
  <2>9. PICK d \in Dates : d = Date
    BY <2>4
  <2>5. MadeInOneGo(day'[d].manifest) /\ Reusable(d, RepeatOf(command))'
    <3>1. MadeInOneGo(content)
      BY <2>1, <2>2 DEF SInv, AtHand, MadeInOneGo
    <3>2. Head(task).repeat = RepeatOf(command) /\ RepeatOf(command) \in Nat
      BY <2>4 DEF BuildTask, RepeatOf
    <3>3. /\ day'[d].manifest = content /\ day'[d].manifest.repeat >= RepeatOf(command)
          /\ \A f \in {"placements", "probes", "labeled"} : day'[d][f] = day'[d].manifest[f]
      BY <2>2, <2>3, <2>9, <3>2 DEF Parts
    <3> QED
      BY <2>1, <2>2, <3>1, <3>3 DEF Reusable
  <2>6. Shape' /\ AtHand' /\ Built'
    <3> DEFINE built == {d}
    <3>1. built \in SUBSET Dates /\ \A e \in Dates \ built : day'[e] = day[e]
      BY <2>3, <2>9
    <3>2. \A e \in built : MadeInOneGo(day'[e].manifest) /\ Reusable(e, RepeatOf(command))'
      BY <2>5
    <3>3. Date \in built
      BY <2>9
    <3> HIDE DEF built
    <3> QED
      BY <2>1, <2>3, <2>4, <3>1, <3>2, <3>3, AfterTask
  <2>7. Freezing'
    BY <2>1, <2>4, TaskDone DEF SInv, Shape, Freezing, Sealed, FrozenIsValid, Done
  <2>8. Later'
    <3>1. DatesOf(Validation) \cup DatesOf(Holdout) \subseteq Dates
      BY DEF Dates
    <3> QED
      BY <2>1, <2>3, <3>1 DEF SInv, Later, Sealed, Parts
  <2> QED
    BY <2>6, <2>7, <2>8 DEF SInv
<1> QED
  BY <1>1, <1>2, <1>4, <1>5, <1>6, <1>7, <1>8, <1>9, <1>10, <1>11, <1>12, <1>13, <1>14,
     <1>15, <1>16, <1>17, <1>18, <1>19, <1>20
  DEF SNext

-------------------------------------------------------------------------------
(* The theorems. *)

\* The invariant says what the study promises: analyze is only reached when no
\* day is left to build, and then every day is as its manifest says.
LEMMA StudyIsSafe ==
    SInv => AnalysedDaysAreWhole /\ HoldoutIsOpenedFirst /\ LaterStagesUseTheFrozenModel
<1> SUFFICES ASSUME SInv
             PROVE  AnalysedDaysAreWhole /\ HoldoutIsOpenedFirst /\ LaterStagesUseTheFrozenModel
  OBVIOUS
<1>1. ASSUME At("analyze"), NEW d \in DatesAnalyzedBy(command)
      PROVE  MadeInOneGo(day[d])
  <2>1. /\ Head(task).do = "analyze" /\ task # <<>>
        /\ Allowed(command, Head(task))
        /\ \A i \in DOMAIN task : Rank(Head(task)) <= Rank(task[i])
    BY <1>1, TaskDone DEF SInv, Shape, At
  <2>2. command \notin {"none", "thresholds"}
    BY <2>1 DEF SInv, Shape, Allowed
  <2>3. ~ \E i \in DOMAIN task : task[i] = BuildTask(command, d)
    <3>1. Rank(Head(task)) = 4 /\ Rank(BuildTask(command, d)) = 3
      BY <2>1 DEF Rank, BuildTask
    <3> QED
      BY <2>1, <3>1
  <2>4. Reusable(d, RepeatOf(command))
    BY <1>1, <2>2, <2>3 DEF SInv, Built
  <2>5. d \in Dates
    BY <1>1, <2>2, StudyAssumption DEF SInv, Shape, Commands, DatesAnalyzedBy, Dates
  <2>6. MadeInOneGo(day[d].manifest)
    BY <2>4, <2>5 DEF SInv, Built, Reusable
  <2> QED
    BY <2>4, <2>6 DEF Reusable, MadeInOneGo
<1>2. AnalysedDaysAreWhole
  BY <1>1 DEF AnalysedDaysAreWhole, MadeInOneGo
<1>3. HoldoutIsOpenedFirst
  BY DEF SInv, Later, Freezing, Sealed, HoldoutIsOpenedFirst
<1>4. LaterStagesUseTheFrozenModel
  BY DEF SInv, Later, LaterStagesUseTheFrozenModel
<1> QED
  BY <1>2, <1>3, <1>4

\* The invariant holds, whatever died and was edited between two commands.
THEOREM StudyInvariant == SSpec => []SInv
  BY StudyInit, StudyNext, PTL DEF SSpec

\* AnalysedDaysAreWhole (_reusable_day and build_day): what analyze reads was
\* made in one go, for every split, every number of crashes and edits.
THEOREM AnalysedDaysWhole == SSpec => []AnalysedDaysAreWhole
  BY StudyInvariant, StudyIsSafe, PTL

\* HoldoutIsOpenedFirst (run_holdout): no file of a holdout day without
\* an opening audit that names the sealed specification.
THEOREM HoldoutOpenedFirst == SSpec => []HoldoutIsOpenedFirst
  BY StudyInvariant, StudyIsSafe, PTL

\* LaterStagesUseTheFrozenModel (_validate_frozen): validation and holdout see
\* probes of the frozen binary and of the frozen models only.
THEOREM FrozenModelUsed == SSpec => []LaterStagesUseTheFrozenModel
  BY StudyInvariant, StudyIsSafe, PTL

\* CachedHourIsWhole (HourlyCache.ensure): the Parquet file of an hour is one
\* whole edition of it, whatever was truncated, resumed or spliced before.
THEOREM HourIsWhole == HCSpec => []CachedHourIsWhole
<1>1. HCInv => CachedHourIsWhole
  BY DEF HCInv
<1> QED
  BY <1>1, HourInit, HourNext, PTL DEF HCSpec

\* ReceiptsStayTrue (run_stage): a receipt stays true of the files it names, and
\* the replication is opened only behind a validation that passed.
THEOREM ReceiptsTrue == USpec => []ReceiptsStayTrue
<1>1. UInv => ReceiptsStayTrue
  BY DEF UInv
<1> QED
  BY <1>1, SingleUseInit, SingleUseNext, PTL DEF USpec

-------------------------------------------------------------------------------
(* HistoricalL2: reading records and walking the buffer, one after the other. *)

\* Reading a sequence of records is reading each of them in turn: what the
\* replayer is after every record, whatever it is, it is after the last one.
LEMMA ReadThrough ==
    ASSUME NEW r, NEW records, NEW N \in Nat, N = Len(records), NEW T, r \in T[0],
           \A i \in 1 .. N : \A v \in T[i - 1] : ReadRecord(v, records[i]) \in T[i]
    PROVE  ReadAll(r, records) \in T[N]
<1> DEFINE Computes(f) ==
             f = [i \in 0 .. Len(records) |->
                     IF i = 0 THEN r ELSE ReadRecord(f[i - 1], records[i])]
           read == CHOOSE f : Computes(f)
           rule == [i \in 1 .. N |-> [v \in T[i - 1] |-> ReadRecord(v, records[i])]]
<1>1. \A i \in 1 .. N : \A v \in T[i - 1] : rule[i][v] = ReadRecord(v, records[i])
  OBVIOUS
<1>2. Folds(T, r, N, rule)
  <2>1. \A i \in 1 .. N : \A v \in T[i - 1] : rule[i][v] \in T[i]
    BY <1>1
  <2> HIDE DEF rule
  <2> QED
    BY <2>1, FoldThrough
<1>3. PICK f \in [0 .. N -> UNION {T[i] : i \in 0 .. N}] :
          f[0] = r /\ \A i \in 1 .. N : f[i] = rule[i][f[i - 1]]
  BY <1>2 DEF Folds
<1> HIDE DEF rule
<1> DEFINE U == {n \in Nat : n <= N => f[n] \in T[n]}
<1>4. 0 \in U
  BY <1>3
<1>5. ASSUME NEW n \in Nat, n \in U PROVE n + 1 \in U
  <2>1. CASE n + 1 <= N
    <3>1. n <= N /\ n + 1 \in 1 .. N /\ (n + 1) - 1 = n
      BY <2>1
    <3>2. f[n] \in T[n]
      BY <1>5, <3>1
    <3>3. f[n + 1] = rule[n + 1][f[n]]
      BY <1>3, <3>1
    <3>4. rule[n + 1][f[n]] = ReadRecord(f[n], records[n + 1])
      BY <1>1, <3>1, <3>2
    <3>5. ReadRecord(f[n], records[n + 1]) \in T[n + 1]
      BY <3>1, <3>2
    <3> QED
      BY <3>3, <3>4, <3>5
  <2> QED
    BY <2>1
<1>6. Nat \subseteq U
  <2> HIDE DEF U
  <2> QED
    BY <1>4, <1>5, NumbersInduct
<1>7. Computes(f)
  <2>1. ASSUME NEW i \in 0 .. N
        PROVE  f[i] = IF i = 0 THEN r ELSE ReadRecord(f[i - 1], records[i])
    <3>1. CASE i = 0
      BY <1>3, <3>1
    <3>2. CASE i # 0
      <4>1. i \in 1 .. N /\ i - 1 \in Nat /\ i - 1 <= N
        BY <3>2
      <4>2. f[i - 1] \in T[i - 1]
        BY <1>6, <4>1
      <4>3. f[i] = rule[i][f[i - 1]]
        BY <1>3, <4>1
      <4>4. rule[i][f[i - 1]] = ReadRecord(f[i - 1], records[i])
        BY <1>1, <4>1, <4>2
      <4> QED
        BY <3>2, <4>3, <4>4
    <3> QED
      BY <3>1, <3>2
  <2> QED
    BY <1>3, <2>1
<1>8. Computes(read)
  <2> HIDE DEF Computes
  <2> QED
    BY <1>7
<1>9. ReadAll(r, records) = read[Len(records)]
  BY DEF ReadAll
<1> HIDE DEF read
<1> DEFINE S == {n \in Nat : n <= N => read[n] \in T[n]}
<1>10. 0 \in S
  BY <1>8
<1>11. ASSUME NEW n \in Nat, n \in S PROVE n + 1 \in S
  <2>1. CASE n + 1 <= N
    <3>1. read[n] \in T[n] /\ n + 1 \in 1 .. N /\ (n + 1) - 1 = n /\ n + 1 \in 0 .. Len(records)
      BY <1>11, <2>1
    <3>2. read[n + 1] = ReadRecord(read[n], records[n + 1])
      BY <1>8, <3>1
    <3>3. ReadRecord(read[n], records[n + 1]) \in T[n + 1]
      BY <3>1
    <3> QED
      BY <3>2, <3>3
  <2> QED
    BY <2>1
<1>12. Nat \subseteq S
  <2> HIDE DEF S
  <2> QED
    BY <1>10, <1>11, NumbersInduct
<1> QED
  BY <1>9, <1>12

\* The walk over a buffer, step by step.
LEMMA Walks ==
    ASSUME NEW u, NEW events, NEW N \in Nat, N = Len(events)
    PROVE  \E walk : /\ WalkBuffered(u, events) = walk[N]
                     /\ walk[0] = [u |-> u, gap |-> <<>>]
                     /\ \A i \in 1 .. N : walk[i] = WalkPast(walk[i - 1], events[i])
<1> DEFINE start == [u |-> u, gap |-> <<>>]
           Computes(f) ==
             f = [i \in 0 .. Len(events) |->
                     IF i = 0 THEN start ELSE WalkPast(f[i - 1], events[i])]
           walk == CHOOSE f : Computes(f)
           us == {u} \cup {events[i].final_update_id : i \in 1 .. N}
           gaps == {<<>>} \cup {<<events[i]>> : i \in 1 .. N}
           W == [u : us, gap : gaps]
           rule == [i \in 1 .. N |-> [w \in W |-> WalkPast(w, events[i])]]
<1>1. start \in W
  OBVIOUS
<1>2. ASSUME NEW i \in 1 .. N, NEW w \in W
      PROVE  WalkPast(w, events[i]) \in W
  <2>1. events[i].final_update_id \in us /\ <<events[i]>> \in gaps
    OBVIOUS
  <2> HIDE DEF us, gaps
  <2> QED
    BY <2>1 DEF WalkPast
<1>3. \A i \in 1 .. N, w \in W : rule[i][w] = WalkPast(w, events[i])
  OBVIOUS
<1> HIDE DEF W
<1>4. Recurses(W, start, N, rule)
  <2>1. \A i \in 1 .. N, w \in W : rule[i][w] \in W
    BY <1>2, <1>3
  <2> HIDE DEF rule, start
  <2> QED
    BY <1>1, <2>1, Recursion
<1>5. PICK f \in [0 .. N -> W] : f[0] = start /\ \A i \in 1 .. N : f[i] = rule[i][f[i - 1]]
  <2> HIDE DEF rule, start
  <2> QED
    BY <1>4 DEF Recurses
<1>6. Computes(f)
  <2> HIDE DEF start, rule
  <2>1. ASSUME NEW i \in 0 .. N
        PROVE  f[i] = IF i = 0 THEN start ELSE WalkPast(f[i - 1], events[i])
    <3>1. CASE i = 0
      BY <1>5, <3>1
    <3>2. CASE i # 0
      <4>1. i \in 1 .. N /\ i - 1 \in 0 .. N
        BY <3>2
      <4>2. f[i - 1] \in W
        BY <1>5, <4>1
      <4> QED
        BY <1>3, <1>5, <3>2, <4>1, <4>2
    <3> QED
      BY <3>1, <3>2
  <2> QED
    BY <1>5, <2>1
<1>7. Computes(walk)
  <2> HIDE DEF Computes
  <2> QED
    BY <1>6
<1>8. WalkBuffered(u, events) = walk[Len(events)]
  BY DEF WalkBuffered
<1> HIDE DEF walk
<1>9. walk[0] = start
  BY <1>7
<1>10. ASSUME NEW i \in 1 .. N PROVE walk[i] = WalkPast(walk[i - 1], events[i])
  BY <1>7
<1> QED
  BY <1>8, <1>9, <1>10

\* What a walk over an empty buffer finds, and what the first event does to it.
LEMMA WalkEmpty ==
    ASSUME NEW u
    PROVE  WalkBuffered(u, <<>>) = [u |-> u, gap |-> <<>>]
<1>1. 0 \in Nat /\ 0 = Len(<<>>)
  OBVIOUS
<1>2. PICK walk : WalkBuffered(u, <<>>) = walk[0] /\ walk[0] = [u |-> u, gap |-> <<>>]
  BY <1>1, Walks
<1> QED
  BY <1>2

LEMMA WalkFirst ==
    ASSUME NEW V, NEW events \in Seq(V), events # <<>>, NEW u
    PROVE  LET e == Head(events)
           IN  /\ e.final_update_id <= u =>
                     WalkBuffered(u, events) = WalkBuffered(u, Tail(events))
               /\ ~(e.final_update_id <= u) /\ Follows(e, u) =>
                     WalkBuffered(u, events) = WalkBuffered(e.final_update_id, Tail(events))
               /\ ~(e.final_update_id <= u) /\ ~Follows(e, u) =>
                     WalkBuffered(u, events) = [u |-> u, gap |-> <<e>>]
<1> DEFINE e == Head(events)
           rest == Tail(events)
           M == Len(rest)
           start == [u |-> u, gap |-> <<>>]
           first == WalkPast(start, e)
<1>1. /\ M \in Nat /\ M + 1 \in Nat /\ M + 1 = Len(events) /\ e = events[1]
      /\ \A i \in 1 .. M : rest[i] = events[i + 1]
  OBVIOUS
<1> HIDE DEF e, rest, M
<1>2. PICK walk : /\ WalkBuffered(u, events) = walk[M + 1]
                  /\ walk[0] = start
                  /\ \A i \in 1 .. M + 1 : walk[i] = WalkPast(walk[i - 1], events[i])
  BY <1>1, Walks
<1>3. walk[1] = first
  <2>1. 1 \in 1 .. M + 1 /\ 1 - 1 = 0
    BY <1>1
  <2> QED
    BY <1>1, <1>2, <2>1
<1>4. ASSUME NEW u1, first = [u |-> u1, gap |-> <<>>]
      PROVE  WalkBuffered(u, events) = WalkBuffered(u1, rest)
  <2>1. PICK later : /\ WalkBuffered(u1, rest) = later[M]
                     /\ later[0] = [u |-> u1, gap |-> <<>>]
                     /\ \A i \in 1 .. M : later[i] = WalkPast(later[i - 1], rest[i])
    BY <1>1, Walks DEF M
  <2> DEFINE N == {n \in Nat : n <= M => walk[n + 1] = later[n]}
  <2>2. 0 \in N
    BY <1>3, <1>4, <2>1
  <2>3. ASSUME NEW n \in Nat, n \in N PROVE n + 1 \in N
    <3>1. CASE n + 1 <= M
      <4>1. /\ n + 1 \in 1 .. M /\ (n + 1) - 1 = n /\ (n + 1) + 1 \in 1 .. M + 1
            /\ ((n + 1) + 1) - 1 = n + 1 /\ walk[n + 1] = later[n]
        BY <1>1, <2>3, <3>1
      <4>2. walk[(n + 1) + 1] = WalkPast(walk[n + 1], events[(n + 1) + 1])
        BY <1>2, <4>1
      <4>3. later[n + 1] = WalkPast(later[n], rest[n + 1])
        BY <2>1, <4>1
      <4> QED
        BY <1>1, <4>1, <4>2, <4>3
    <3> QED
      BY <3>1
  <2>4. Nat \subseteq N
    <3> HIDE DEF N
    <3> QED
      BY <2>2, <2>3, NumbersInduct
  <2>5. walk[M + 1] = later[M]
    BY <1>1, <2>4
  <2> QED
    BY <1>2, <2>1, <2>5
<1>5. ASSUME first.gap # <<>>
      PROVE  WalkBuffered(u, events) = first
  <2> DEFINE N == {n \in Nat : n <= M => walk[n + 1] = first}
  <2>1. 0 \in N
    BY <1>3
  <2>2. ASSUME NEW n \in Nat, n \in N PROVE n + 1 \in N
    <3>1. CASE n + 1 <= M
      <4>1. (n + 1) + 1 \in 1 .. M + 1 /\ ((n + 1) + 1) - 1 = n + 1 /\ walk[n + 1] = first
        BY <1>1, <2>2, <3>1
      <4>2. walk[(n + 1) + 1] = WalkPast(walk[n + 1], events[(n + 1) + 1])
        BY <1>2, <4>1
      <4>3. WalkPast(first, events[(n + 1) + 1]) = first
        <5> HIDE DEF first
        <5> QED
          BY <1>5 DEF WalkPast
      <4> QED
        BY <4>1, <4>2, <4>3
    <3> QED
      BY <3>1
  <2>3. Nat \subseteq N
    <3> HIDE DEF N
    <3> QED
      BY <2>1, <2>2, NumbersInduct
  <2>4. walk[M + 1] = first
    BY <1>1, <2>3
  <2> QED
    BY <1>2, <2>4
<1>6. start.gap = <<>> /\ start.u = u
  OBVIOUS
<1>7. e.final_update_id <= u => first = [u |-> u, gap |-> <<>>]
  BY <1>6 DEF WalkPast
<1>8. ~(e.final_update_id <= u) /\ Follows(e, u) =>
          first = [u |-> e.final_update_id, gap |-> <<>>]
  BY <1>6 DEF WalkPast
<1>9. ~(e.final_update_id <= u) /\ ~Follows(e, u) => first = [u |-> u, gap |-> <<e>>]
  BY <1>6 DEF WalkPast
<1>10. <<e>> # <<>>
  OBVIOUS
<1> HIDE DEF first, start
<1>11. e.final_update_id <= u => WalkBuffered(u, events) = WalkBuffered(u, rest)
  BY <1>4, <1>7
<1>12. ~(e.final_update_id <= u) /\ Follows(e, u) =>
          WalkBuffered(u, events) = WalkBuffered(e.final_update_id, rest)
  BY <1>4, <1>8
<1>13. ASSUME ~(e.final_update_id <= u), ~Follows(e, u)
       PROVE  WalkBuffered(u, events) = [u |-> u, gap |-> <<e>>]
  <2>1. first = [u |-> u, gap |-> <<e>>]
    BY <1>9, <1>13
  <2>2. first.gap # <<>>
    BY <1>10, <2>1
  <2> QED
    BY <1>5, <2>1, <2>2
<1> QED
  BY <1>11, <1>12, <1>13 DEF e, rest

\* What is left of a buffer when the events older than a snapshot are dropped.
LEMMA FromIdFirst ==
    ASSUME NEW V, NEW events \in Seq(V), NEW id
    PROVE  /\ events = <<>> => FromId(events, id) = <<>>
           /\ events # <<>> /\ Head(events).final_update_id >= id => FromId(events, id) = events
           /\ events # <<>> /\ ~(Head(events).final_update_id >= id) =>
                 FromId(events, id) = FromId(Tail(events), id)
<1> DEFINE I(s) == {i \in 1 .. Len(s) : s[i].final_update_id >= id}
           first(s) == IF I(s) # {} THEN Min(I(s)) ELSE 0
<1>1. \A s : FromId(s, id) = IF first(s) = 0 THEN <<>> ELSE SubSeq(s, first(s), Len(s))
  BY DEF FromId, SelectInSeq
<1>2. ASSUME NEW s \in Seq(V), I(s) # {}
      PROVE  /\ Min(I(s)) \in I(s) /\ \A j \in I(s) : Min(I(s)) <= j
             /\ Min(I(s)) \in 1 .. Len(s)
  <2>1. I(s) \in SUBSET Nat
    OBVIOUS
  <2> DEFINE J == I(s)
  <2>2. \E n \in J : \A m \in J : n <= m
    <3> HIDE DEF I
    <3>1. J \in SUBSET Nat /\ J # {}
      BY <1>2, <2>1
    <3> HIDE DEF J
    <3> QED
      BY <3>1, LeastNumber
  <2>3. Min(J) \in J /\ \A j \in J : Min(J) <= j
    <3> HIDE DEF J
    <3> QED
      BY <2>2 DEF Min
  <2>4. I(s) \subseteq 1 .. Len(s)
    OBVIOUS
  <2> HIDE DEF I
  <2> QED
    BY <2>3, <2>4
<1>3. CASE events = <<>>
  <2>1. I(events) = {}
    BY <1>3
  <2> HIDE DEF I
  <2> QED
    BY <1>1, <1>3, <2>1
<1>4. CASE events # <<>> /\ Head(events).final_update_id >= id
  <2>1. 1 \in I(events) /\ Len(events) \in Nat
    BY <1>4
  <2>2. Min(I(events)) = 1
    <3> HIDE DEF I
    <3>1. Min(I(events)) \in 1 .. Len(events) /\ Min(I(events)) <= 1
      BY <1>2, <2>1
    <3> QED
      BY <2>1, <3>1
  <2>3. FromId(events, id) = SubSeq(events, 1, Len(events))
    <3> HIDE DEF I
    <3> QED
      BY <1>1, <2>1, <2>2
  <2>4. SubSeq(events, 1, Len(events)) = events
    OBVIOUS
  <2> QED
    BY <1>4, <2>3, <2>4
<1>5. CASE events # <<>> /\ ~(Head(events).final_update_id >= id)
  <2> DEFINE rest == Tail(events)
  <2>1. /\ rest \in Seq(V) /\ Len(events) = Len(rest) + 1 /\ Len(rest) \in Nat
        /\ \A i \in 1 .. Len(rest) : rest[i] = events[i + 1]
        /\ Head(events) = events[1]
    BY <1>5
  <2> HIDE DEF rest
  <2>2. \A i \in 1 .. Len(rest) : i \in I(rest) <=> i + 1 \in I(events)
    BY <2>1
  <2>3. 1 \notin I(events)
    BY <1>5, <2>1
  <2>4. I(rest) \subseteq 1 .. Len(rest) /\ I(events) \subseteq 1 .. Len(rest) + 1
    BY <2>1
  <2> HIDE DEF I
  <2>5. \A j \in I(events) : j - 1 \in I(rest) /\ (j - 1) + 1 = j
    <3> TAKE j \in I(events)
    <3>1. j \in 1 .. Len(rest) + 1 /\ j # 1
      BY <2>3, <2>4
    <3>2. j - 1 \in 1 .. Len(rest) /\ (j - 1) + 1 = j
      BY <2>1, <3>1
    <3> QED
      BY <2>2, <3>2
  <2>6. CASE I(rest) = {}
    <3>1. I(events) = {}
      BY <2>5, <2>6
    <3> QED
      BY <1>1, <1>5, <2>6, <3>1 DEF rest
  <2>7. CASE I(rest) # {}
    <3> DEFINE n == Min(I(rest))
               m == Min(I(events))
    <3>1. n \in I(rest) /\ n \in 1 .. Len(rest) /\ \A j \in I(rest) : n <= j
      BY <1>2, <2>1, <2>7
    <3>2. n + 1 \in I(events)
      BY <2>2, <3>1
    <3>3. m \in I(events) /\ m \in 1 .. Len(events) /\ \A j \in I(events) : m <= j
      BY <1>2, <3>2
    <3> HIDE DEF n, m
    <3>4. m = n + 1
      <4>1. m - 1 \in I(rest)
        BY <2>5, <3>3
      <4>2. n <= m - 1 /\ m <= n + 1
        BY <3>1, <3>2, <3>3, <4>1
      <4> QED
        BY <2>1, <3>1, <3>3, <4>2
    <3>5. /\ FromId(events, id) = SubSeq(events, m, Len(events))
          /\ FromId(rest, id) = SubSeq(rest, n, Len(rest))
      <4>1. first(events) = m /\ first(rest) = n
        BY <2>7, <3>2 DEF m, n
      <4>2. m # 0 /\ n # 0
        BY <3>1, <3>3
      <4> HIDE DEF first
      <4> QED
        BY <1>1, <4>1, <4>2
    <3>6. SubSeq(events, n + 1, Len(rest) + 1) = SubSeq(rest, n, Len(rest))
      BY <2>1, <3>1
    <3> QED
      BY <1>5, <2>1, <3>4, <3>5, <3>6 DEF rest
  <2> QED
    BY <2>6, <2>7
<1> QED
  BY <1>3, <1>4, <1>5

-------------------------------------------------------------------------------
(* HistoricalL2: a snapshot, as the packer and as the synchronizer take it. *)

\* What a snapshot makes of the updates buffered since the gap.
Walked(walk) ==
    [state |-> IF walk.gap = <<>> THEN "live" ELSE "invalid", u |-> walk.u, buffered |-> walk.gap]

Realigned(events, id) ==
    LET rest == FromId(events, id)
    IN  IF rest = <<>> THEN [state |-> "awaiting_bridge", u |-> id, buffered |-> <<>>]
        ELSE IF ~Bridges(Head(rest), id)
        THEN [state |-> "invalid", u |-> id, buffered |-> <<Head(rest)>>]
        ELSE Walked(WalkBuffered(Head(rest).final_update_id, Tail(rest)))

\* A synchronizer in the state the packer imagines.
Pictured(a, s) ==
    /\ a.state = "live" => IsLive(s) /\ s.book.last_update_id = a.u
    /\ a.state = "awaiting_bridge" =>
          s.state = "Syncing" /\ s.book.valid /\ s.book.last_update_id = a.u
    /\ a.state = "invalid" => s.state \in {"GapDetected", "Resyncing"} /\ s.buffer = a.buffered

\* An event that covers the id of a valid book is applied, and the book is live.
LEMMA CoveringEvent ==
    ASSUME AlwaysQuoted, NEW s, Aligning(s), s.book.valid, NEW e \in DepthEvents,
           e.previous_final_update_id <= s.book.last_update_id,
           s.book.last_update_id <= e.final_update_id
    PROVE  LET r == ApplyEvent(s, e, TRUE)
           IN  /\ r.state = "Live" /\ r.result = "Applied" /\ r.first_event_applied
               /\ r.book.valid /\ r.book.last_update_id = e.final_update_id
               /\ r.buffer = s.buffer /\ r.draining = s.draining
<1> DEFINE after == ApplyDepthEvent(s.book, e)
<1>1. s \in Synchronizer /\ s.book \in Book /\ s.snapshot_update_id \in Ids
      /\ s.book.last_update_id \in Ids /\ Mirrors(s.book, s.snapshot_update_id)
  BY DEF Aligning, Synchronizer
<1>2. after \in Book /\ after.last_update_id \in Ids
  BY <1>1, ApplyIsBook
<1>3. Mirrors(after, s.snapshot_update_id) /\ after.last_update_id = e.final_update_id
  BY <1>1, ApplyKeepsMirror
<1>4. after.valid = Uncrossed(after.levels)
  BY DEF ApplyDepthEvent
<1> HIDE DEF after
<1>5. Uncrossed(after.levels)
  BY <1>1, <1>2, <1>3 DEF AlwaysQuoted, Mirrors, Book
<1>6. ApplyEvent(s, e, TRUE)
        = [s EXCEPT !.book = after, !.first_event_applied = TRUE,
                    !.state = "Live", !.result = "Applied"]
  BY <1>4, <1>5 DEF ApplyEvent, after
<1> QED
  BY <1>1, <1>3, <1>4, <1>5, <1>6 DEF Synchronizer

\* A gap met while aligning leaves the event in the buffer of a resync.
LEMMA GapWhileAligning ==
    ASSUME NEW s \in Synchronizer, NEW e
    PROVE  LET r == NeedSnapshotOnGap(DetectGap(s, e))
           IN  r.state = "Resyncing" /\ r.buffer = <<e>> /\ r.result = "NeedSnapshot"
               /\ r.draining = s.draining
  BY DEF NeedSnapshotOnGap, DetectGap, BeginResync, Synchronizer

\* While on_snapshot runs its loops, the rest of its buffer leads to where the
\* packer takes it to be.
Heading(v, id, a) ==
    /\ v.draining => v.book.valid
    /\ v.draining /\ ~v.first_event_applied =>
          v.book.last_update_id = id /\ Realigned(v.buffer, id) = a
    /\ v.draining /\ v.first_event_applied =>
          Walked(WalkBuffered(v.book.last_update_id, v.buffer)) = a
    /\ ~v.draining => Pictured(a, v)

LEMMA DrainStepHeading ==
    ASSUME AlwaysQuoted, NEW s, SyncInv(s), s.draining, NEW id \in Ids, NEW a, Heading(s, id, a)
    PROVE  Heading(DrainStep(s), id, a)
<1> DEFINE e == Head(s.buffer)
           popped == [s EXCEPT !.buffer = Tail(@)]
           first == ApplyFirstEvent(popped, e)
           next == ApplyContiguousEvent(popped, e)
<1>1. /\ s \in Synchronizer /\ s.state \in {"Syncing", "Live"} /\ s.buffer \in Seq(DepthEvents)
      /\ s.book.valid /\ s.book.last_update_id \in Int /\ id \in Int
  BY ExchangeAssumption DEF SyncInv, Synchronizer, Heading, Ids
<1>2. CASE s.buffer = <<>> /\ ~s.first_event_applied
  <2>1. Realigned(<<>>, id) = [state |-> "awaiting_bridge", u |-> id, buffered |-> <<>>]
    <3>1. <<>> \in Seq(DepthEvents)
      OBVIOUS
    <3>2. FromId(<<>>, id) = <<>>
      BY <3>1, FromIdFirst
    <3> QED
      BY <3>2 DEF Realigned
  <2>2. s.state = "Syncing" /\ s.book.last_update_id = id /\ a = Realigned(<<>>, id)
    BY <1>1, <1>2 DEF SyncInv, Heading
  <2>3. /\ ~DrainStep(s).draining /\ DrainStep(s).state = s.state
        /\ DrainStep(s).book = s.book
    BY <1>1, <1>2 DEF DrainStep, Synchronizer
  <2> QED
    BY <1>1, <2>1, <2>2, <2>3 DEF Heading, Pictured
<1>3. CASE s.buffer = <<>> /\ s.first_event_applied
  <2>1. s.state = "Live" /\ a = Walked([u |-> s.book.last_update_id, gap |-> <<>>])
    BY <1>1, <1>3, WalkEmpty DEF SyncInv, Heading
  <2>2. /\ ~DrainStep(s).draining /\ DrainStep(s).state = s.state
        /\ DrainStep(s).book = s.book
    BY <1>1, <1>3 DEF DrainStep, Synchronizer
  <2>3. a.state = "live" /\ a.u = s.book.last_update_id
    BY <2>1 DEF Walked
  <2> QED
    BY <1>1, <2>1, <2>2, <2>3 DEF Heading, Pictured, IsLive
<1>4. ASSUME s.buffer # <<>>
      PROVE  /\ e \in DepthEvents
             /\ Aligning(popped) /\ popped.draining /\ popped \in Synchronizer
             /\ popped.first_event_applied = s.first_event_applied
             /\ popped.state = s.state
             /\ popped.snapshot_update_id = s.snapshot_update_id
             /\ popped.book = s.book /\ popped.buffer = Tail(s.buffer)
             /\ e.first_update_id \in Int /\ e.final_update_id \in Int
             /\ e.previous_final_update_id \in Int
             /\ e.previous_final_update_id < e.first_update_id
  <2>1. /\ e \in DepthEvents /\ Tail(s.buffer) \in Seq(DepthEvents)
        /\ Len(Tail(s.buffer)) <= MaxBufferedEvents
    BY <1>1, <1>4, BufferAssumption DEF SyncInv
  <2> HIDE DEF e
  <2>2. Aligning(popped)
    BY <1>1, <2>1 DEF SyncInv, Aligning, Synchronizer
  <2>3. /\ e.first_update_id \in Int /\ e.final_update_id \in Int
        /\ e.previous_final_update_id \in Int
        /\ e.previous_final_update_id < e.first_update_id
    BY <2>1, GenuineEvent, ExchangeAssumption DEF Ids
  <2> QED
    BY <1>1, <2>1, <2>2, <2>3 DEF Synchronizer
<1>5. CASE s.buffer # <<>> /\ ~s.first_event_applied /\ e.final_update_id < id
  <2>1. s.snapshot_update_id = id /\ a = Realigned(s.buffer, id)
    BY <1>1, <1>5 DEF SyncInv, Heading
  <2>2. DrainStep(s) = popped
    BY <1>5, <2>1 DEF DrainStep
  <2>3. FromId(s.buffer, id) = FromId(Tail(s.buffer), id)
    <3>1. ~(e.final_update_id >= id)
      BY <1>1, <1>4, <1>5
    <3> QED
      BY <1>1, <1>5, <3>1, FromIdFirst
  <2>4. Realigned(Tail(s.buffer), id) = a
    BY <2>1, <2>3 DEF Realigned
  <2> HIDE DEF popped, e
  <2> QED
    BY <1>1, <1>4, <1>5, <2>1, <2>2, <2>4 DEF Heading
<1>6. CASE s.buffer # <<>> /\ ~s.first_event_applied /\ ~(e.final_update_id < id)
  <2>1. /\ s.snapshot_update_id = id /\ a = Realigned(s.buffer, id)
        /\ s.book.last_update_id = id /\ s.state = "Syncing"
    BY <1>1, <1>6 DEF SyncInv, Heading
  <2>2. DrainStep(s) = Settled(first, {"Applied"})
    BY <1>6, <2>1 DEF DrainStep, Settled
  <2>3. FromId(s.buffer, id) = s.buffer
    <3>1. e.final_update_id >= id
      BY <1>1, <1>4, <1>6
    <3> QED
      BY <1>1, <1>6, <3>1, FromIdFirst
  <2> HIDE DEF popped, e
  <2>4. CASE e.first_update_id > id
    <3>1. first = DetectGap(popped, e)
      BY <1>4, <1>6, <2>1, <2>4 DEF ApplyFirstEvent
    <3> DEFINE n == NeedSnapshotOnGap(first)
    <3>2. n.state = "Resyncing" /\ n.buffer = <<e>> /\ n.result = "NeedSnapshot"
      BY <1>4, <1>6, <3>1, GapWhileAligning
    <3>3. n \in Synchronizer
      <4>1. Outcome(popped, first)
        BY <1>4, <1>6, <2>1, FirstEventOp
      <4> QED
        BY <4>1, OutcomeTypes
    <3> HIDE DEF n
    <3>4. DrainStep(s) = [n EXCEPT !.draining = n.result \in {"Applied"}]
      BY <2>2 DEF Settled, n
    <3>5. /\ ~DrainStep(s).draining /\ DrainStep(s).state = "Resyncing"
          /\ DrainStep(s).buffer = <<e>>
      BY <3>2, <3>3, <3>4 DEF Synchronizer
    <3>6. a = [state |-> "invalid", u |-> id, buffered |-> <<e>>]
      <4>1. ~Bridges(e, id)
        BY <1>1, <1>4, <1>6, <2>4 DEF Bridges
      <4> QED
        BY <1>6, <2>1, <2>3, <4>1 DEF Realigned, e
    <3> QED
      BY <3>5, <3>6 DEF Heading, Pictured
  <2>5. CASE ~(e.first_update_id > id)
    <3>1. first = ApplyEvent(popped, e, TRUE)
      BY <1>4, <1>6, <2>1, <2>5 DEF ApplyFirstEvent
    <3>2. /\ first.state = "Live" /\ first.result = "Applied" /\ first.first_event_applied
          /\ first.book.valid /\ first.book.last_update_id = e.final_update_id
          /\ first.buffer = Tail(s.buffer) /\ first.draining
      <4>1. /\ Aligning(popped) /\ popped.book.valid /\ e \in DepthEvents
            /\ popped.book.last_update_id = id /\ popped.draining /\ popped.buffer = Tail(s.buffer)
        BY <1>1, <1>4, <1>6, <2>1
      <4>2. e.previous_final_update_id <= id /\ id <= e.final_update_id
        BY <1>1, <1>4, <1>6, <2>5
      <4>3. /\ e.previous_final_update_id <= popped.book.last_update_id
            /\ popped.book.last_update_id <= e.final_update_id
        BY <4>1, <4>2
      <4> HIDE DEF first
      <4>4. /\ first.state = "Live" /\ first.result = "Applied" /\ first.first_event_applied
            /\ first.book.valid /\ first.book.last_update_id = e.final_update_id
            /\ first.buffer = popped.buffer /\ first.draining = popped.draining
        BY <3>1, <4>1, <4>3, CoveringEvent
      <4> QED
        BY <4>1, <4>4
    <3>3. first \in Synchronizer
      <4>1. Outcome(popped, first)
        BY <1>4, <1>6, <2>1, FirstEventOp
      <4> QED
        BY <4>1 DEF Outcome
    <3> HIDE DEF first
    <3>4. DrainStep(s) = first
      <4>1. NeedSnapshotOnGap(first) = first
        BY <3>2 DEF NeedSnapshotOnGap
      <4>2. DrainStep(s) = [first EXCEPT !.draining = first.result \in {"Applied"}]
        BY <2>2, <4>1 DEF Settled
      <4> QED
        BY <3>2, <3>3, <4>2 DEF Synchronizer
    <3>5. a = Walked(WalkBuffered(e.final_update_id, Tail(s.buffer)))
      <4>1. Bridges(e, id)
        BY <1>1, <1>4, <1>6, <2>5 DEF Bridges
      <4> QED
        BY <1>6, <2>1, <2>3, <4>1 DEF Realigned, e
    <3> QED
      BY <3>2, <3>4, <3>5 DEF Heading
  <2> QED
    BY <2>4, <2>5
<1>7. CASE s.buffer # <<>> /\ s.first_event_applied
  <2> DEFINE u == s.book.last_update_id
  <2>1. a = Walked(WalkBuffered(u, s.buffer)) /\ s.state = "Live"
    BY <1>1, <1>7 DEF SyncInv, Heading
  <2>2. DrainStep(s) = Settled(next, {"Applied", "Stale"})
    BY <1>7 DEF DrainStep, Settled
  <2>3. /\ e.final_update_id <= u =>
              WalkBuffered(u, s.buffer) = WalkBuffered(u, Tail(s.buffer))
        /\ ~(e.final_update_id <= u) /\ Follows(e, u) =>
              WalkBuffered(u, s.buffer) = WalkBuffered(e.final_update_id, Tail(s.buffer))
        /\ ~(e.final_update_id <= u) /\ ~Follows(e, u) =>
              WalkBuffered(u, s.buffer) = [u |-> u, gap |-> <<e>>]
    BY <1>1, <1>7, WalkFirst
  <2> HIDE DEF popped, e
  <2>4. Outcome(popped, next)
    BY <1>4, <1>7, ContiguousEventOp
  <2>5. next \in Synchronizer
    BY <2>4 DEF Outcome
  <2>6. CASE e.final_update_id <= u
    <3>1. next = [popped EXCEPT !.result = "Stale"]
      BY <1>4, <1>7, <2>6 DEF ApplyContiguousEvent
    <3>2. next.result = "Stale" /\ NeedSnapshotOnGap(next) = next
      BY <1>4, <1>7, <3>1 DEF NeedSnapshotOnGap, Synchronizer
    <3>3. DrainStep(s) = [next EXCEPT !.draining = next.result \in {"Applied", "Stale"}]
      BY <2>2, <3>2 DEF Settled
    <3>4. /\ DrainStep(s).draining /\ DrainStep(s).book = s.book
          /\ DrainStep(s).first_event_applied /\ DrainStep(s).buffer = Tail(s.buffer)
      <4>1. /\ next.book = s.book /\ next.first_event_applied = s.first_event_applied
            /\ next.buffer = Tail(s.buffer)
        BY <1>4, <1>7, <3>1 DEF Synchronizer
      <4> HIDE DEF next
      <4> QED
        BY <1>7, <2>5, <3>2, <3>3, <4>1 DEF Synchronizer
    <3> QED
      BY <1>1, <2>1, <2>3, <2>6, <3>4 DEF Heading
  <2>7. CASE ~(e.final_update_id <= u) /\ ~Follows(e, u)
    <3>1. next = DetectGap(popped, e)
      BY <1>4, <1>7, <2>7 DEF ApplyContiguousEvent, Follows
    <3> DEFINE n == NeedSnapshotOnGap(next)
    <3>2. n.state = "Resyncing" /\ n.buffer = <<e>> /\ n.result = "NeedSnapshot"
      BY <1>4, <1>7, <3>1, GapWhileAligning
    <3>3. n \in Synchronizer
      BY <2>4, OutcomeTypes
    <3> HIDE DEF n
    <3>4. DrainStep(s) = [n EXCEPT !.draining = n.result \in {"Applied", "Stale"}]
      BY <2>2 DEF Settled, n
    <3>5. /\ ~DrainStep(s).draining /\ DrainStep(s).state = "Resyncing"
          /\ DrainStep(s).buffer = <<e>>
      BY <3>2, <3>3, <3>4 DEF Synchronizer
    <3>6. a.state = "invalid" /\ a.buffered = <<e>>
      BY <2>1, <2>3, <2>7 DEF Walked
    <3> QED
      BY <3>5, <3>6 DEF Heading, Pictured
  <2>8. CASE ~(e.final_update_id <= u) /\ Follows(e, u)
    <3>1. next = ApplyEvent(popped, e, TRUE)
      <4>1. popped.first_event_applied = TRUE
        BY <1>4, <1>7 DEF Synchronizer
      <4> QED
        BY <1>4, <1>7, <2>8, <4>1 DEF ApplyContiguousEvent, Follows
    <3>2. /\ next.state = "Live" /\ next.result = "Applied" /\ next.first_event_applied
          /\ next.book.valid /\ next.book.last_update_id = e.final_update_id
          /\ next.buffer = Tail(s.buffer) /\ next.draining
      <4>1. /\ Aligning(popped) /\ popped.book.valid /\ e \in DepthEvents
            /\ popped.book.last_update_id = u /\ popped.draining /\ popped.buffer = Tail(s.buffer)
        BY <1>1, <1>4, <1>7
      <4>2. e.previous_final_update_id = u /\ ~(e.final_update_id <= u)
        BY <2>8 DEF Follows
      <4>3. u \in Int /\ e.final_update_id \in Int
        BY <1>1, <1>4, <1>7
      <4> HIDE DEF u
      <4>4. e.previous_final_update_id <= u /\ u <= e.final_update_id
        BY <4>2, <4>3
      <4>5. /\ e.previous_final_update_id <= popped.book.last_update_id
            /\ popped.book.last_update_id <= e.final_update_id
        BY <4>1, <4>4
      <4> HIDE DEF next
      <4>6. /\ next.state = "Live" /\ next.result = "Applied" /\ next.first_event_applied
            /\ next.book.valid /\ next.book.last_update_id = e.final_update_id
            /\ next.buffer = popped.buffer /\ next.draining = popped.draining
        BY <3>1, <4>1, <4>5, CoveringEvent
      <4> QED
        BY <4>1, <4>6
    <3> HIDE DEF next
    <3>3. DrainStep(s) = next
      <4>1. NeedSnapshotOnGap(next) = next
        BY <3>2 DEF NeedSnapshotOnGap
      <4>2. DrainStep(s) = [next EXCEPT !.draining = next.result \in {"Applied", "Stale"}]
        BY <2>2, <4>1 DEF Settled
      <4> QED
        BY <2>5, <3>2, <4>2 DEF Synchronizer
    <3> QED
      BY <2>1, <2>3, <2>8, <3>2, <3>3 DEF Heading
  <2> QED
    BY <2>6, <2>7, <2>8
<1> QED
  BY <1>2, <1>3, <1>5, <1>6, <1>7

\* A connected synchronizer takes a snapshot as the packer does.
LEMMA SnapshotAsPictured ==
    ASSUME AlwaysQuoted, NEW s, SyncInv(s), ~s.draining, s.state # "Disconnected",
           NEW id \in Ids
    PROVE  LET r == ReturnFromSnapshot(s, Snapshot(id))
           IN  SyncInv(r) /\ ~r.draining /\ Pictured(Realigned(s.buffer, id), r)
<1> DEFINE r0 == OnSnapshot(s, Snapshot(id))
           loaded == LoadSnapshot(Snapshot(id))
           a == Realigned(s.buffer, id)
           T == {v \in Synchronizer : Heading(v, id, a)}
<1>1. SyncInv(r0) /\ r0 \in Synchronizer
  BY OnSnapshotOp DEF SyncInv
<1>2. loaded.valid /\ loaded.last_update_id = id
  <2>1. /\ Snapshot(id).levels \in Ladder /\ Snapshot(id).last_update_id = id
        /\ MirrorsAt(Snapshot(id).levels, id, id)
    BY GenuineSnapshot DEF MirrorsAt
  <2>2. Uncrossed(Snapshot(id).levels)
    BY <2>1 DEF AlwaysQuoted
  <2> QED
    BY <2>1, <2>2 DEF LoadSnapshot
<1>3. s \in Synchronizer
  BY DEF SyncInv
<1>4. /\ r0.book = loaded /\ r0.draining /\ ~r0.first_event_applied /\ r0.buffer = s.buffer
  <2>1. r0 = [s EXCEPT !.book = loaded, !.first_event_applied = FALSE,
                       !.snapshot_update_id = Snapshot(id).last_update_id,
                       !.state = "Syncing", !.result = "None", !.draining = TRUE]
    BY <1>2, <1>3 DEF OnSnapshot, Synchronizer
  <2> HIDE DEF loaded, r0
  <2> QED
    BY <1>3, <2>1 DEF Synchronizer
<1> HIDE DEF r0, loaded
<1>5. r0 \in T
  BY <1>1, <1>2, <1>4 DEF Heading
<1>6. \A v \in T : SyncInv(v) /\ v.draining => DrainStep(v) \in T
  <2> HIDE DEF a
  <2> QED
    BY DrainStepHeading, DrainStepOp DEF SyncInv
<1>7. SyncInv(RunLoops(r0)) /\ ~RunLoops(r0).draining /\ RunLoops(r0) \in T
  <2> HIDE DEF T
  <2> QED
    BY <1>1, <1>5, <1>6, LoopsEnd
<1>8. Pictured(a, RunLoops(r0))
  <2> HIDE DEF a
  <2> QED
    BY <1>7 DEF Heading
<1> QED
  BY <1>7, <1>8 DEF ReturnFromSnapshot, r0

-------------------------------------------------------------------------------
(* HistoricalL2: what the replayer makes of each record. *)

Replayers == [sync : Synchronizer, depth_connected : BOOLEAN]

\* A replayer of an open connection, between two records.
Replays(r) == r \in Replayers /\ SyncInv(r.sync) /\ ~r.sync.draining /\ r.depth_connected

LiveAt(r, u) == Replays(r) /\ IsLive(r.sync) /\ r.sync.book.last_update_id = u

AwaitingAt(r, id) ==
    /\ Replays(r) /\ r.sync.state = "Syncing"
    /\ r.sync.book.valid /\ r.sync.book.last_update_id = id

InvalidWith(r, events) ==
    Replays(r) /\ r.sync.state \in {"GapDetected", "Resyncing"} /\ r.sync.buffer = events

UpdateMessages == {UpdateMessage(time, event) : time \in Times, event \in Depths}

\* The records the packer writes.
Records ==
    {OpenRecord(t) : t \in Nat} \cup {CloseRecord(t) : t \in Nat}
    \cup {SnapshotRecord(t, m) : t \in Nat, m \in VendorSnapshots}
    \cup {UpdateRecord(m) : m \in UpdateMessages}

\* Messages of the archive and of the stream are genuine.
LEMMA Messages ==
    /\ NoMessage \notin VendorSnapshots
    /\ \A m \in VendorSnapshots :
          /\ m.event_type = "snapshot" /\ m.received_time \in Times /\ m.received_time \in Nat
          /\ m.depth.last_update_id \in SnapshotIds
          /\ m.depth.last_update_id \in Ids /\ m.depth.last_update_id # 0
          /\ m.depth = Snapshot(m.depth.last_update_id)
    /\ \A m \in UpdateMessages :
          /\ m.event_type = "update" /\ m.received_time \in Times /\ m.received_time \in Nat
          /\ m.depth \in Depths /\ m.depth \in DepthEvents
          /\ m.depth.first_update_id \in Ids /\ m.depth.final_update_id \in Ids
          /\ m.depth.previous_final_update_id \in Ids
          /\ m.depth.previous_final_update_id < m.depth.first_update_id
          /\ m.depth.first_update_id <= m.depth.final_update_id
<1>1. ASSUME NEW m \in VendorSnapshots
      PROVE  /\ m.event_type = "snapshot" /\ m.received_time \in Times /\ m.received_time \in Nat
             /\ m.depth.last_update_id \in SnapshotIds
             /\ m.depth.last_update_id \in Ids /\ m.depth.last_update_id # 0
             /\ m.depth = Snapshot(m.depth.last_update_id)
  <2>1. PICK t \in Times, id \in SnapshotIds, usable \in BOOLEAN :
            m = SnapshotMessage(t, id, usable)
    BY DEF VendorSnapshots
  <2>2. /\ m.event_type = "snapshot" /\ m.received_time = t /\ m.depth = Snapshot(id)
    BY <2>1 DEF SnapshotMessage
  <2>3. Snapshot(id).last_update_id = id
    BY DEF Snapshot
  <2> QED
    BY <2>2, <2>3, HistoricalAssumption
<1>2. NoMessage \notin VendorSnapshots
  <2>1. NoMessage.event_type = "none"
    BY DEF NoMessage
  <2> QED
    BY <1>1, <2>1
<1>3. ASSUME NEW m \in UpdateMessages
      PROVE  /\ m.event_type = "update" /\ m.received_time \in Times /\ m.received_time \in Nat
             /\ m.depth \in Depths /\ m.depth \in DepthEvents
  <2>1. PICK t \in Times, e \in Depths : m = UpdateMessage(t, e)
    BY DEF UpdateMessages
  <2> QED
    BY <2>1, HistoricalAssumption DEF UpdateMessage
<1> QED
  BY <1>1, <1>2, <1>3, GenuineEvent

LEMMA RecordTypes ==
    /\ \A t \in Nat : OpenRecord(t) \in Records /\ CloseRecord(t) \in Records
    /\ \A t \in Nat, m \in VendorSnapshots : SnapshotRecord(t, m) \in Records
    /\ \A m \in UpdateMessages : UpdateRecord(m) \in Records
  BY DEF Records

\* Which function of the replayer takes a record.
LEMMA ReadWhich ==
    ASSUME NEW r
    PROVE  /\ \A t : ReadRecord(r, OpenRecord(t)) = OnOpenRecord(r)
           /\ \A t : ReadRecord(r, CloseRecord(t)) = OnCloseRecord(r)
           /\ \A t, m : ReadRecord(r, SnapshotRecord(t, m)) = OnSnapshotRecord(r, m.depth)
           /\ \A m : ReadRecord(r, UpdateRecord(m)) = OnUpdateRecord(r, m.depth)
<1>1. \A t : OpenRecord(t).type = "ConnectionOpen"
  BY DEF OpenRecord
<1>2. \A t : CloseRecord(t).type = "ConnectionClose"
  BY DEF CloseRecord
<1>3. \A t, m : SnapshotRecord(t, m).type = "DepthSnapshot" /\ SnapshotRecord(t, m).depth = m.depth
  BY DEF SnapshotRecord
<1>4. \A m : UpdateRecord(m).type = "DepthUpdate" /\ UpdateRecord(m).depth = m.depth
  BY DEF UpdateRecord
<1> QED
  BY <1>1, <1>2, <1>3, <1>4 DEF ReadRecord

\* An update, for a replayer whose connection is open.
LEMMA ReadUpdate ==
    ASSUME NEW r, Replays(r), NEW m \in UpdateMessages
    PROVE  /\ Replays(ReadRecord(r, UpdateRecord(m)))
           /\ ReadRecord(r, UpdateRecord(m)).sync = OnDepth(r.sync, m.depth)
<1>1. ReadRecord(r, UpdateRecord(m)) = [r EXCEPT !.sync = OnDepth(@, m.depth)]
  BY ReadWhich DEF OnUpdateRecord, Replays
<1>2. SyncInv(OnDepth(r.sync, m.depth))
  BY OnDepthOp, Messages DEF Replays
<1>3. ~OnDepth(r.sync, m.depth).draining
  <2> DEFINE s == r.sync
             e == m.depth
  <2> SUFFICES ~OnDepth(s, e).draining
    OBVIOUS
  <2>1. s \in Synchronizer /\ e \in DepthEvents /\ SyncInv(s) /\ ~s.draining
    BY Messages DEF Replays, SyncInv
  <2> HIDE DEF s, e
  <2>2. CASE s.state \in {"Disconnected", "Invalid"}
    BY <2>1, <2>2 DEF OnDepth, Synchronizer
  <2>3. CASE s.state \in {"Buffering", "SnapshotPending", "Resyncing", "GapDetected"}
    BY <2>1, <2>3 DEF OnDepth, BufferEvent, Synchronizer
  <2>4. ASSUME NEW q, Outcome(s, q)
        PROVE  ~q.draining /\ ~NeedSnapshotOnGap(q).draining
    BY <2>1, <2>4 DEF Outcome, NeedSnapshotOnGap, BeginResync, Synchronizer
  <2>5. CASE s.state = "Syncing"
    <3>1. OnDepth(s, e) = NeedSnapshotOnGap(ApplyFirstEvent(s, e))
          /\ Aligning(s) /\ s.book.last_update_id = s.snapshot_update_id
      BY <2>1, <2>5 DEF OnDepth, SyncInv, Aligning
    <3> QED
      BY <2>1, <2>4, <3>1, FirstEventOp
  <2>6. CASE s.state = "Live"
    <3>1. OnDepth(s, e) = ApplyContiguousEvent(s, e) /\ Aligning(s) /\ s.first_event_applied
      BY <2>1, <2>6 DEF OnDepth, SyncInv, Aligning
    <3> QED
      BY <2>1, <2>4, <3>1, ContiguousEventOp
  <2> QED
    BY <2>1, <2>2, <2>3, <2>5, <2>6 DEF Synchronizer, SyncState
<1> QED
  BY <1>1, <1>2, <1>3 DEF Replays, Replayers, SyncInv

LEMMA ReadContiguous ==
    ASSUME AlwaysQuoted, NEW u, NEW r, LiveAt(r, u), NEW m \in UpdateMessages, Follows(m.depth, u)
    PROVE  LiveAt(ReadRecord(r, UpdateRecord(m)), m.depth.final_update_id)
<1> DEFINE s == r.sync
           e == m.depth
           after == ApplyEvent(s, e, TRUE)
<1>1. /\ s \in Synchronizer /\ e \in DepthEvents /\ SyncInv(s) /\ ~s.draining
      /\ s.state = "Live" /\ s.book.valid /\ s.first_event_applied /\ s.book.last_update_id = u
  BY Messages DEF LiveAt, Replays, SyncInv, IsLive
<1>2. /\ e.previous_final_update_id = u /\ e.previous_final_update_id \in Int
      /\ e.final_update_id \in Int /\ u < e.final_update_id /\ u \in Int
  BY <1>1, Messages, ExchangeAssumption DEF Follows, Ids
<1>3. Aligning(s)
  BY <1>1 DEF SyncInv, Aligning
<1> HIDE DEF s, e
<1>4. OnDepth(s, e) = after
  <2>1. OnDepth(s, e) = ApplyContiguousEvent(s, e)
    BY <1>1 DEF OnDepth
  <2>2. s.first_event_applied = TRUE
    BY <1>1 DEF Synchronizer
  <2>3. ~(e.final_update_id <= s.book.last_update_id)
    BY <1>1, <1>2
  <2>4. ~(e.previous_final_update_id # s.book.last_update_id)
    BY <1>1, <1>2
  <2> QED
    BY <2>1, <2>2, <2>3, <2>4 DEF ApplyContiguousEvent
<1>5. after.state = "Live" /\ after.book.valid /\ after.book.last_update_id = e.final_update_id
  <2>1. e.previous_final_update_id <= s.book.last_update_id
        /\ s.book.last_update_id <= e.final_update_id
    BY <1>1, <1>2
  <2> QED
    BY <1>1, <1>3, <2>1, CoveringEvent
<1>6. Replays(ReadRecord(r, UpdateRecord(m))) /\ ReadRecord(r, UpdateRecord(m)).sync = after
  BY <1>4, ReadUpdate DEF LiveAt, s, e
<1> HIDE DEF after
<1> QED
  BY <1>5, <1>6 DEF LiveAt, IsLive, e

LEMMA ReadGap ==
    ASSUME NEW u, NEW r, LiveAt(r, u), NEW m \in UpdateMessages,
           ~Follows(m.depth, u), ~(m.depth.final_update_id <= u)
    PROVE  InvalidWith(ReadRecord(r, UpdateRecord(m)), <<m.depth>>)
<1>1. OnDepth(r.sync, m.depth) = DetectGap(r.sync, m.depth) /\ r.sync \in Synchronizer
  BY DEF LiveAt, Replays, Replayers, IsLive, OnDepth, ApplyContiguousEvent, Follows
<1>2. DetectGap(r.sync, m.depth).state = "GapDetected"
      /\ DetectGap(r.sync, m.depth).buffer = <<m.depth>>
  BY <1>1 DEF DetectGap, Synchronizer
<1> QED
  BY <1>1, <1>2, ReadUpdate DEF LiveAt, InvalidWith

LEMMA ReadFirst ==
    ASSUME AlwaysQuoted, NEW id \in Ids, NEW r, AwaitingAt(r, id), NEW m \in UpdateMessages,
           ~(m.depth.final_update_id < id)
    PROVE  /\ Bridges(m.depth, id) =>
                 LiveAt(ReadRecord(r, UpdateRecord(m)), m.depth.final_update_id)
           /\ ~Bridges(m.depth, id) =>
                 InvalidWith(ReadRecord(r, UpdateRecord(m)), <<m.depth>>)
<1> DEFINE s == r.sync
           e == m.depth
           first == ApplyFirstEvent(s, e)
<1>1. /\ s \in Synchronizer /\ e \in DepthEvents /\ SyncInv(s)
      /\ s.state = "Syncing" /\ s.book.valid /\ s.book.last_update_id = id
      /\ ~s.first_event_applied /\ s.snapshot_update_id = id
  BY Messages DEF AwaitingAt, Replays, SyncInv
<1>2. /\ e.previous_final_update_id \in Int /\ e.first_update_id \in Int
      /\ e.final_update_id \in Int /\ id \in Int
      /\ e.previous_final_update_id < e.first_update_id
  BY Messages, ExchangeAssumption DEF Ids
<1>3. Aligning(s)
  BY <1>1 DEF SyncInv, Aligning
<1>4. /\ Replays(ReadRecord(r, UpdateRecord(m)))
      /\ ReadRecord(r, UpdateRecord(m)).sync = OnDepth(s, e)
  BY ReadUpdate DEF AwaitingAt
<1>5. OnDepth(s, e) = NeedSnapshotOnGap(first)
  BY <1>1 DEF OnDepth
<1>8. ~(e.final_update_id < s.snapshot_update_id) /\ id <= e.final_update_id
  <2>1. ~(e.final_update_id < id)
    OBVIOUS
  <2> HIDE DEF s, e
  <2> QED
    BY <1>1, <1>2, <2>1
<1>6. CASE e.first_update_id > id
  <2>1. first = DetectGap(s, e)
    BY <1>1, <1>6, <1>8 DEF ApplyFirstEvent
  <2>3. ~Bridges(e, id)
    BY <1>2, <1>6 DEF Bridges
  <2>2. OnDepth(s, e).state = "Resyncing" /\ OnDepth(s, e).buffer = <<e>>
    BY <1>1, <1>5, <2>1, GapWhileAligning
  <2> QED
    BY <1>4, <2>2, <2>3 DEF InvalidWith
<1>7. CASE ~(e.first_update_id > id)
  <2> HIDE DEF s, e
  <2>1. first = ApplyEvent(s, e, TRUE) /\ Bridges(e, id)
    <3>1. Bridges(e, id)
      BY <1>2, <1>7, <1>8 DEF Bridges
    <3>2. ~(e.first_update_id > s.snapshot_update_id)
      BY <1>1, <1>7
    <3> QED
      BY <1>8, <3>1, <3>2 DEF ApplyFirstEvent
  <2>2. e.previous_final_update_id <= s.book.last_update_id
        /\ s.book.last_update_id <= e.final_update_id
    BY <1>1, <1>2, <1>7, <1>8
  <2>3. first.state = "Live" /\ first.book.valid /\ first.result = "Applied"
        /\ first.book.last_update_id = e.final_update_id
    BY <1>1, <1>3, <2>1, <2>2, CoveringEvent
  <2> HIDE DEF first
  <2>4. OnDepth(s, e) = first
    BY <1>5, <2>3 DEF NeedSnapshotOnGap
  <2> QED
    BY <1>4, <2>1, <2>3, <2>4 DEF LiveAt, IsLive, e
<1> QED
  BY <1>6, <1>7

LEMMA ReadWhileInvalid ==
    ASSUME NEW r, NEW events, InvalidWith(r, events), Len(events) < MaxBufferedEvents,
           NEW m \in UpdateMessages
    PROVE  InvalidWith(ReadRecord(r, UpdateRecord(m)), Append(events, m.depth))
<1>1. r.sync \in Synchronizer /\ r.sync.buffer = events
  BY DEF InvalidWith, Replays, Replayers
<1>2. Len(events) \in Int /\ MaxBufferedEvents \in Int
  BY <1>1, BufferAssumption DEF Synchronizer
<1>3. OnDepth(r.sync, m.depth)
        = [r.sync EXCEPT !.buffer = Append(@, m.depth), !.result = "Buffered"]
  BY <1>1, <1>2 DEF InvalidWith, OnDepth, BufferEvent
<1>4. /\ OnDepth(r.sync, m.depth).state = r.sync.state
      /\ OnDepth(r.sync, m.depth).buffer = Append(events, m.depth)
  BY <1>1, <1>3 DEF Synchronizer
<1> QED
  BY <1>4, ReadUpdate DEF InvalidWith

LEMMA ReadSnapshot ==
    ASSUME AlwaysQuoted, NEW r, Replays(r), r.sync.state # "Disconnected",
           NEW m \in VendorSnapshots, NEW t
    PROVE  LET read == ReadRecord(r, SnapshotRecord(t, m))
           IN  Replays(read)
               /\ Pictured(Realigned(r.sync.buffer, m.depth.last_update_id), read.sync)
<1> DEFINE id == m.depth.last_update_id
           after == ReturnFromSnapshot(r.sync, Snapshot(id))
<1>1. id \in Ids /\ m.depth = Snapshot(id)
  BY Messages
<1> HIDE DEF id
<1>2. ReadRecord(r, SnapshotRecord(t, m)) = [r EXCEPT !.sync = after]
  BY <1>1, ReadWhich DEF OnSnapshotRecord
<1>3. SyncInv(after) /\ ~after.draining /\ Pictured(Realigned(r.sync.buffer, id), after)
  BY <1>1, SnapshotAsPictured DEF Replays
<1> HIDE DEF after
<1> QED
  BY <1>2, <1>3 DEF Replays, Replayers, SyncInv, id

LEMMA ReadOpenOrClose ==
    ASSUME NEW r \in Replayers, SyncInv(r.sync), ~r.sync.draining, NEW t
    PROVE  /\ ReadRecord(r, CloseRecord(t)) \in Replayers
           /\ ReadRecord(r, CloseRecord(t)).sync = r.sync
           /\ Replays(ReadRecord(r, OpenRecord(t)))
           /\ ReadRecord(r, OpenRecord(t)).sync.state = "Buffering"
           /\ ReadRecord(r, OpenRecord(t)).sync.buffer = <<>>
<1>1. ReadRecord(r, CloseRecord(t)) = [r EXCEPT !.depth_connected = FALSE]
  BY ReadWhich DEF OnCloseRecord
<1>2. ReadRecord(r, OpenRecord(t)) = [sync |-> OnConnected(r.sync), depth_connected |-> TRUE]
  BY ReadWhich DEF OnOpenRecord
<1>3. SyncInv(OnConnected(r.sync)) /\ OnConnected(r.sync) \in Synchronizer
  BY DroppingOps DEF SyncInv
<1>4. /\ ~OnConnected(r.sync).draining /\ OnConnected(r.sync).state = "Buffering"
      /\ OnConnected(r.sync).buffer = <<>>
  BY DEF OnConnected, Replayers, Synchronizer
<1> DEFINE opened == OnConnected(r.sync)
<1>5. Replays(ReadRecord(r, OpenRecord(t))) /\ ReadRecord(r, OpenRecord(t)).sync = opened
  <2> HIDE DEF opened
  <2> QED
    BY <1>2, <1>3, <1>4 DEF Replays, Replayers, opened
<1> QED
  BY <1>1, <1>4, <1>5 DEF Replayers

-------------------------------------------------------------------------------
(* HistoricalL2: what a call of the packer writes, and what the replayer     *)
(* makes of it.                                                              *)

\* Reading the records s from r ends in Z, whatever it is in between.
Reads(r, s, Z) ==
    \E T : /\ r \in T[0] /\ T[Len(s)] \subseteq Z
           /\ \A i \in 1 .. Len(s) : \A v \in T[i - 1] : ReadRecord(v, s[i]) \in T[i]

LEMMA ReadsAll ==
    ASSUME NEW r, NEW s \in Seq(Records), NEW Z, Reads(r, s, Z)
    PROVE  ReadAll(r, s) \in Z
<1>1. PICK T : /\ r \in T[0] /\ T[Len(s)] \subseteq Z
               /\ \A i \in 1 .. Len(s) : \A v \in T[i - 1] : ReadRecord(v, s[i]) \in T[i]
  BY DEF Reads
<1>2. Len(s) \in Nat /\ Len(s) = Len(s)
  OBVIOUS
<1>3. ReadAll(r, s) \in T[Len(s)]
  BY <1>1, <1>2, ReadThrough
<1> QED
  BY <1>1, <1>3

LEMMA ReadsNil ==
    ASSUME NEW Z, NEW r \in Z
    PROVE  Reads(r, <<>>, Z)
<1> DEFINE T == [i \in 0 .. 0 |-> Z]
<1>1. T[0] = Z /\ Len(<<>>) = 0
  OBVIOUS
<1>2. \A i \in 1 .. Len(<<>>) : \A v \in T[i - 1] : ReadRecord(v, <<>>[i]) \in T[i]
  BY <1>1
<1> HIDE DEF T
<1> QED
  BY <1>1, <1>2 DEF Reads

LEMMA ReadsAppend ==
    ASSUME NEW r, NEW s \in Seq(Records), NEW record \in Records, NEW Y, NEW Z,
           Reads(r, s, Y), \A v \in Y : ReadRecord(v, record) \in Z
    PROVE  Reads(r, Append(s, record), Z)
<1>1. PICK T : /\ r \in T[0] /\ T[Len(s)] \subseteq Y
               /\ \A i \in 1 .. Len(s) : \A v \in T[i - 1] : ReadRecord(v, s[i]) \in T[i]
  BY DEF Reads
<1> DEFINE N == Len(s)
           longer == Append(s, record)
           U == [i \in 0 .. N + 1 |-> IF i = N + 1 THEN Z ELSE T[i]]
<1>2. /\ N \in Nat /\ Len(longer) = N + 1 /\ longer[N + 1] = record
      /\ \A i \in 1 .. N : longer[i] = s[i]
  OBVIOUS
<1>3. /\ U[N + 1] = Z /\ \A i \in 0 .. N : U[i] = T[i]
  BY <1>2
<1> HIDE DEF U, longer
<1>4. ASSUME NEW i \in 1 .. N + 1, NEW v \in U[i - 1]
      PROVE  ReadRecord(v, longer[i]) \in U[i]
  <2>1. CASE i = N + 1
    <3>1. i - 1 = N /\ N \in 0 .. N
      BY <1>2, <2>1
    <3>2. v \in Y
      BY <1>1, <1>3, <3>1
    <3> QED
      BY <1>2, <1>3, <2>1, <3>2
  <2>2. CASE i # N + 1
    <3>1. i \in 1 .. N /\ i - 1 \in 0 .. N /\ i \in 0 .. N
      BY <1>2, <2>2
    <3>2. v \in T[i - 1] /\ longer[i] = s[i] /\ U[i] = T[i]
      BY <1>2, <1>3, <3>1
    <3> QED
      BY <1>1, <3>1, <3>2
  <2> QED
    BY <2>1, <2>2
<1>5. r \in U[0]
  <2>1. 0 \in 0 .. N
    BY <1>2
  <2> QED
    BY <1>1, <1>3, <2>1
<1>6. U[Len(longer)] \subseteq Z
  BY <1>2, <1>3
<1> QED
  BY <1>2, <1>4, <1>5, <1>6 DEF Reads, longer

\* The deferred updates d, each of which follows the one before.
Chain(d) ==
    \A i \in 1 .. Len(d) - 1 : Follows(d[i + 1].depth, d[i].depth.final_update_id)

LEMMA ReadsDeferred ==
    ASSUME AlwaysQuoted, NEW d \in Seq(UpdateMessages), d # <<>>, Chain(d),
           NEW r, LiveAt(r, Head(d).depth.previous_final_update_id)
    PROVE  LET flushed == [i \in DOMAIN d |-> UpdateRecord(d[i])]
               last == Last(d).depth.final_update_id
           IN  /\ flushed \in Seq(Records)
               /\ Reads(r, flushed, {v \in Replayers : LiveAt(v, last)})
<1> DEFINE flushed == [i \in DOMAIN d |-> UpdateRecord(d[i])]
           N == Len(d)
           before(i) == IF i = 0 THEN Head(d).depth.previous_final_update_id
                        ELSE d[i].depth.final_update_id
           T == [i \in 0 .. N |-> {v \in Replayers : LiveAt(v, before(i))}]
<1>1. /\ N \in Nat /\ N # 0 /\ DOMAIN d = 1 .. N /\ Head(d) = d[1] /\ Last(d) = d[N]
      /\ \A i \in 1 .. N : d[i] \in UpdateMessages
  BY DEF Last
<1>2. flushed \in Seq(Records) /\ Len(flushed) = N
      /\ \A i \in 1 .. N : flushed[i] = UpdateRecord(d[i])
  <2>1. flushed \in [1 .. N -> Records]
    BY <1>1, RecordTypes
  <2> QED
    BY <1>1, <2>1
<1>3. /\ \A i \in 0 .. N : T[i] = {v \in Replayers : LiveAt(v, before(i))}
  OBVIOUS
<1>4. ASSUME NEW i \in 1 .. N
      PROVE  Follows(d[i].depth, before(i - 1)) /\ before(i) = d[i].depth.final_update_id
             /\ i - 1 \in 0 .. N /\ i \in 0 .. N
  <2>1. CASE i = 1
    BY <1>1, <2>1 DEF Follows
  <2>2. CASE i # 1
    <3>1. i - 1 \in 1 .. N - 1 /\ (i - 1) + 1 = i /\ i - 1 # 0
      BY <1>1, <2>2
    <3>2. Follows(d[(i - 1) + 1].depth, d[i - 1].depth.final_update_id)
      BY <3>1 DEF Chain
    <3> QED
      BY <1>1, <3>1, <3>2
  <2> QED
    BY <2>1, <2>2
<1> HIDE DEF T, flushed
<1>5. ASSUME NEW i \in 1 .. N, NEW v \in T[i - 1]
      PROVE  ReadRecord(v, flushed[i]) \in T[i]
  <2>1. LiveAt(v, before(i - 1)) /\ Follows(d[i].depth, before(i - 1))
    BY <1>3, <1>4
  <2>2. d[i] \in UpdateMessages /\ flushed[i] = UpdateRecord(d[i])
    BY <1>1, <1>2
  <2> DEFINE u == before(i - 1)
             m == d[i]
  <2>3. LiveAt(ReadRecord(v, UpdateRecord(m)), m.depth.final_update_id)
    <3>1. LiveAt(v, u) /\ Follows(m.depth, u) /\ m \in UpdateMessages
      BY <2>1, <2>2
    <3> HIDE DEF u, m
    <3> QED
      BY <3>1, ReadContiguous
  <2>4. LiveAt(ReadRecord(v, flushed[i]), before(i))
    BY <1>4, <2>2, <2>3
  <2> HIDE DEF before
  <2> QED
    BY <1>3, <1>4, <2>4 DEF LiveAt, Replays
<1>6. r \in T[0]
  <2>1. 0 \in 0 .. N /\ before(0) = Head(d).depth.previous_final_update_id
    BY <1>1
  <2> HIDE DEF before
  <2> QED
    BY <1>3, <2>1 DEF LiveAt, Replays
<1>7. T[Len(flushed)] = {v \in Replayers : LiveAt(v, Last(d).depth.final_update_id)}
  <2>1. N \in 0 .. N /\ before(N) = Last(d).depth.final_update_id
    BY <1>1
  <2> HIDE DEF before
  <2> QED
    BY <1>2, <1>3, <2>1
<1>8. Reads(r, flushed, {v \in Replayers : LiveAt(v, Last(d).depth.final_update_id)})
  BY <1>2, <1>5, <1>6, <1>7 DEF Reads
<1> QED
  BY <1>2, <1>8 DEF flushed

\* What is kept of a buffer, and what the packer takes up from it, are genuine.
LEMMA FromIdTypes ==
    ASSUME NEW V, NEW events \in Seq(V), NEW id
    PROVE  FromId(events, id) \in Seq(V) /\ Len(FromId(events, id)) <= Len(events)
<1> DEFINE I == {i \in 1 .. Len(events) : events[i].final_update_id >= id}
           first == IF I # {} THEN Min(I) ELSE 0
<1>1. FromId(events, id) = IF first = 0 THEN <<>> ELSE SubSeq(events, first, Len(events))
  BY DEF FromId, SelectInSeq
<1>2. first = 0 \/ first \in 1 .. Len(events)
  <2>1. CASE I # {}
    <3>1. I \in SUBSET Nat /\ I \subseteq 1 .. Len(events)
      OBVIOUS
    <3> HIDE DEF I
    <3>2. PICK n \in I : \A m \in I : n <= m
      BY <2>1, <3>1, LeastNumber
    <3>3. Min(I) \in I
      BY <3>2 DEF Min
    <3> QED
      BY <2>1, <3>1, <3>3
  <2> QED
    BY <2>1
<1> HIDE DEF first
<1>3. CASE first = 0
  BY <1>1, <1>3
<1>4. CASE first \in 1 .. Len(events)
  <2>1. first # 0 /\ SubSeq(events, first, Len(events)) \in Seq(V)
        /\ Len(SubSeq(events, first, Len(events))) <= Len(events)
    BY <1>4
  <2> QED
    BY <1>1, <2>1
<1> QED
  BY <1>2, <1>3, <1>4

LEMMA WalkTypes ==
    ASSUME NEW events \in Seq(Depths), NEW u \in Ids
    PROVE  WalkBuffered(u, events) \in [u : Ids, gap : {<<>>} \cup {<<e>> : e \in Depths}]
<1> DEFINE W == [u : Ids, gap : {<<>>} \cup {<<e>> : e \in Depths}]
           N == Len(events)
<1>1. N \in Nat /\ \A i \in 1 .. N : events[i] \in Depths
  OBVIOUS
<1>2. PICK walk : /\ WalkBuffered(u, events) = walk[N]
                  /\ walk[0] = [u |-> u, gap |-> <<>>]
                  /\ \A i \in 1 .. N : walk[i] = WalkPast(walk[i - 1], events[i])
  <2> HIDE DEF N
  <2> QED
    BY <1>1, Walks DEF N
<1> HIDE DEF N
<1>3. ASSUME NEW w \in W, NEW e \in Depths
      PROVE  WalkPast(w, e) \in W
  <2>1. e.final_update_id \in Ids
    BY GenuineEvent, HistoricalAssumption
  <2> QED
    BY <2>1 DEF WalkPast
<1> DEFINE U == {n \in Nat : n <= N => walk[n] \in W}
<1>4. 0 \in U
  BY <1>2
<1>5. ASSUME NEW n \in Nat, n \in U PROVE n + 1 \in U
  <2>1. CASE n + 1 <= N
    <3>1. n + 1 \in 1 .. N /\ (n + 1) - 1 = n /\ walk[n] \in W
      BY <1>1, <1>5, <2>1
    <3> HIDE DEF W
    <3> QED
      BY <1>1, <1>2, <1>3, <3>1
  <2> QED
    BY <2>1
<1>6. Nat \subseteq U
  <2> HIDE DEF U
  <2> QED
    BY <1>4, <1>5, NumbersInduct
<1> HIDE DEF W
<1>7. walk[N] \in W
  BY <1>1, <1>6
<1> QED
  BY <1>2, <1>7 DEF W

LEMMA RealignedTypes ==
    ASSUME NEW events \in Seq(Depths), NEW id \in Ids
    PROVE  LET a == Realigned(events, id)
           IN  /\ a.state \in {"live", "awaiting_bridge", "invalid"} /\ a.u \in Ids
               /\ a.buffered \in Seq(Depths) /\ Len(a.buffered) <= Len(events)
               /\ a.state # "invalid" => a.buffered = <<>>
<1> DEFINE a == Realigned(events, id)
           rest == FromId(events, id)
           walk == WalkBuffered(Head(rest).final_update_id, Tail(rest))
<1>1. rest \in Seq(Depths) /\ Len(rest) <= Len(events) /\ Len(events) \in Nat
  BY FromIdTypes
<1>2. a = IF rest = <<>> THEN [state |-> "awaiting_bridge", u |-> id, buffered |-> <<>>]
          ELSE IF ~Bridges(Head(rest), id)
          THEN [state |-> "invalid", u |-> id, buffered |-> <<Head(rest)>>]
          ELSE Walked(walk)
  BY DEF Realigned
<1> HIDE DEF rest, a
<1>3. CASE rest = <<>>
  BY <1>1, <1>2, <1>3 DEF a
<1>4. ASSUME rest # <<>>
      PROVE  /\ Head(rest) \in Depths /\ Tail(rest) \in Seq(Depths)
             /\ Head(rest).final_update_id \in Ids
             /\ 1 <= Len(events)
  <2>1. Head(rest) \in Depths /\ Tail(rest) \in Seq(Depths) /\ 1 <= Len(rest)
    BY <1>1, <1>4
  <2> QED
    BY <1>1, <2>1, GenuineEvent, HistoricalAssumption
<1>5. CASE rest # <<>> /\ ~Bridges(Head(rest), id)
  <2>1. <<Head(rest)>> \in Seq(Depths) /\ Len(<<Head(rest)>>) = 1
    BY <1>4, <1>5
  <2> QED
    BY <1>2, <1>4, <1>5, <2>1 DEF a
<1>6. CASE rest # <<>> /\ Bridges(Head(rest), id)
  <2>1. walk \in [u : Ids, gap : {<<>>} \cup {<<e>> : e \in Depths}]
    BY <1>4, <1>6, WalkTypes
  <2> HIDE DEF walk
  <2>2. walk.gap = <<>> \/ \E e \in Depths : walk.gap = <<e>>
    BY <2>1
  <2>4. walk.u \in Ids
    BY <2>1
  <2>5. walk.gap \in Seq(Depths) /\ Len(walk.gap) <= 1 /\ Len(walk.gap) \in Nat
    <3>1. /\ <<>> \in Seq(Depths) /\ Len(<<>>) <= 1 /\ Len(<<>>) \in Nat
          /\ \A e \in Depths : <<e>> \in Seq(Depths) /\ Len(<<e>>) <= 1 /\ Len(<<e>>) \in Nat
      OBVIOUS
    <3> DEFINE gap == walk.gap
    <3>2. gap = <<>> \/ \E e \in Depths : gap = <<e>>
      BY <2>2
    <3> HIDE DEF gap
    <3>3. gap \in Seq(Depths) /\ Len(gap) <= 1 /\ Len(gap) \in Nat
      BY <3>1, <3>2
    <3> QED
      BY <3>3 DEF gap
  <2>3. a = Walked(walk)
    BY <1>2, <1>6
  <2>6. Len(walk.gap) <= Len(events)
    BY <1>1, <1>4, <1>6, <2>5
  <2> QED
    BY <2>3, <2>4, <2>5, <2>6 DEF a, Walked
<1> QED
  BY <1>3, <1>5, <1>6

-------------------------------------------------------------------------------
(* HistoricalL2: the locals of the packer. *)

Packers ==
    [state : {"live", "awaiting_bridge", "invalid"}, previous_u : Ids,
     snapshot_anchor : SnapshotIds, buffered_while_invalid : Seq(Depths),
     pending_live_snapshot : {NoMessage} \cup VendorSnapshots,
     deferred_live_updates : Seq(UpdateMessages),
     last_update_received : Nat, out : Seq(Records)]

\* Updates are deferred behind a pending snapshot only, up to the last one
\* taken; and it is a live book that has a pending snapshot, a lost one that
\* has a buffer.
Held(p) ==
    LET d == p.deferred_live_updates
    IN  /\ d # <<>> => p.pending_live_snapshot # NoMessage
                       /\ Last(d).depth.final_update_id = p.previous_u
        /\ Chain(d)
        /\ p.state # "live" => p.pending_live_snapshot = NoMessage
        /\ p.state # "invalid" => p.buffered_while_invalid = <<>>

\* Where the replayer is that has read everything the packer wrote.
Tracks(p, r) ==
    /\ p.state = "live" =>
          LiveAt(r, IF p.deferred_live_updates = <<>> THEN p.previous_u
                    ELSE Head(p.deferred_live_updates).depth.previous_final_update_id)
    /\ p.state = "awaiting_bridge" => AwaitingAt(r, p.snapshot_anchor)
    /\ p.state = "invalid" => InvalidWith(r, p.buffered_while_invalid)

Tracking(p) == {v \in Replayers : Tracks(p, v)}

LiveSet(u) == {v \in Replayers : LiveAt(v, u)}

\* q is a packer that a replayer r tracks when it has read what q wrote.
Leads(q, r, n) ==
    /\ q \in Packers /\ Held(q) /\ Len(q.buffered_while_invalid) <= n
    /\ Reads(r, q.out, Tracking(q))

LEMMA NothingDeferred ==
    /\ Chain(<<>>) /\ <<>> \in Seq(UpdateMessages) /\ <<>> \in Seq(Records) /\ <<>> \in Seq(Depths)
    /\ Len(<<>>) = 0
  BY DEF Chain

\* A replayer that tracks is one: the sets above leave nothing out.
LEMMA TrackersReplay ==
    /\ \A r, u : LiveAt(r, u) => r \in LiveSet(u)
    /\ \A p \in Packers : \A r : Tracks(p, r) => Replays(r) /\ r \in Tracking(p)
<1>1. \A r : Replays(r) => r \in Replayers
  BY DEF Replays
<1>2. \A p \in Packers : \A r : Tracks(p, r) => Replays(r)
  <2> SUFFICES ASSUME NEW p \in Packers, NEW r, Tracks(p, r) PROVE Replays(r)
    OBVIOUS
  <2>1. p.state \in {"live", "awaiting_bridge", "invalid"}
    BY DEF Packers
  <2> QED
    BY <2>1 DEF Tracks, LiveAt, AwaitingAt, InvalidWith
<1> QED
  BY <1>1, <1>2 DEF LiveSet, Tracking, LiveAt

\* A call that writes nothing and moves nothing the replayer sees.
LEMMA LeadsNowhere ==
    ASSUME NEW q \in Packers, Held(q), NEW n, Len(q.buffered_while_invalid) <= n,
           q.out = <<>>, NEW r, Tracks(q, r)
    PROVE  Leads(q, r, n)
<1>1. Reads(r, <<>>, Tracking(q))
  BY TrackersReplay, ReadsNil
<1> QED
  BY <1>1 DEF Leads

LEMMA FlushedPacker ==
    ASSUME AlwaysQuoted, NEW p \in Packers, p.out = <<>>, Held(p), p.state = "live",
           NEW r, Tracks(p, r)
    PROVE  LET f == FlushDeferred(p)
           IN  /\ f \in Packers /\ Held(f)
               /\ f.state = "live" /\ f.previous_u = p.previous_u
               /\ f.deferred_live_updates = <<>>
               /\ f.snapshot_anchor = p.snapshot_anchor
               /\ f.pending_live_snapshot = p.pending_live_snapshot
               /\ f.buffered_while_invalid = <<>>
               /\ Reads(r, f.out, LiveSet(p.previous_u))
<1> DEFINE d == p.deferred_live_updates
           flushed == [i \in DOMAIN d |-> UpdateRecord(d[i])]
           received == IF d = <<>> THEN p.last_update_received ELSE Last(d).received_time
           f == FlushDeferred(p)
<1>1. d \in Seq(UpdateMessages) /\ p.last_update_received \in Nat /\ p.out \in Seq(Records)
  BY DEF Packers
<1>2. f = [p EXCEPT !.out = p.out \o flushed, !.last_update_received = received,
                    !.deferred_live_updates = <<>>]
  BY DEF FlushDeferred
<1>3. flushed \in Seq(Records) /\ Reads(r, flushed, LiveSet(p.previous_u))
  <2>1. CASE d = <<>>
    <3>1. LiveAt(r, p.previous_u)
      BY <2>1 DEF Tracks
    <3>2. flushed = <<>>
      BY <2>1
    <3> HIDE DEF flushed
    <3> QED
      BY <3>1, <3>2, NothingDeferred, TrackersReplay, ReadsNil
  <2>2. CASE d # <<>>
    <3>1. LiveAt(r, Head(d).depth.previous_final_update_id)
      BY <2>2 DEF Tracks
    <3>2. Last(d).depth.final_update_id = p.previous_u /\ Chain(d)
      BY <2>2 DEF Held
    <3> HIDE DEF d
    <3>3. /\ flushed \in Seq(Records)
          /\ Reads(r, flushed, {v \in Replayers : LiveAt(v, Last(d).depth.final_update_id)})
      BY <1>1, <2>2, <3>1, <3>2, ReadsDeferred
    <3> QED
      BY <3>2, <3>3 DEF LiveSet
  <2> QED
    BY <2>1, <2>2
<1>4. received \in Nat
  <2>1. d # <<>> => Last(d) \in UpdateMessages
    BY <1>1 DEF Last
  <2> QED
    BY <1>1, <2>1, Messages
<1>5. p.out \o flushed = flushed
  <2> HIDE DEF flushed
  <2> QED
    BY <1>3
<1> HIDE DEF flushed, received
<1>6. /\ f \in Packers /\ f.out = flushed
      /\ f.state = "live" /\ f.previous_u = p.previous_u
      /\ f.deferred_live_updates = <<>>
      /\ f.snapshot_anchor = p.snapshot_anchor
      /\ f.pending_live_snapshot = p.pending_live_snapshot
      /\ f.buffered_while_invalid = p.buffered_while_invalid
  <2>1. p.out \o flushed \in Seq(Records) /\ <<>> \in Seq(UpdateMessages)
    BY <1>3, <1>5, NothingDeferred
  <2> HIDE DEF f
  <2> QED
    BY <1>2, <1>4, <1>5, <2>1 DEF Packers
<1>7. p.buffered_while_invalid = <<>>
  BY DEF Held
<1> HIDE DEF f
<1>8. Held(f)
  BY <1>6, <1>7, NothingDeferred DEF Held
<1> QED
  BY <1>3, <1>6, <1>7, <1>8 DEF f

-------------------------------------------------------------------------------
(* HistoricalL2: the operations of the packer, one by one. *)

\* A packer between two calls, and a replayer of all it wrote.
Ready(p, r) == p \in Packers /\ p.out = <<>> /\ Held(p) /\ Tracks(p, r)

\* The first record a call writes, and the one after others.
LEMMA ReadsFirst ==
    ASSUME NEW r, NEW record \in Records, NEW Z, ReadRecord(r, record) \in Z
    PROVE  Reads(r, Append(<<>>, record), Z)
<1>1. Reads(r, <<>>, {r}) /\ \A v \in {r} : ReadRecord(v, record) \in Z
  BY ReadsNil
<1> QED
  BY <1>1, NothingDeferred, ReadsAppend

LEMMA BridgeLeads ==
    ASSUME AlwaysQuoted, NEW p, NEW r, Ready(p, r), p.state = "awaiting_bridge",
           NEW m \in UpdateMessages, NEW n \in Nat, 1 <= n
    PROVE  Leads(PackBridge(p, m), r, n)
<1> DEFINE id == p.snapshot_anchor
           record == UpdateRecord(m)
           emitted == [EmitUpdate(p, m) EXCEPT !.previous_u = m.depth.final_update_id]
           live == [emitted EXCEPT !.state = "live"]
           lost == [emitted EXCEPT !.state = "invalid", !.buffered_while_invalid = <<m.depth>>]
<1>1. /\ p \in Packers /\ Held(p) /\ p.out = <<>> /\ AwaitingAt(r, id) /\ id \in Ids
      /\ p.pending_live_snapshot = NoMessage /\ p.buffered_while_invalid = <<>>
      /\ p.deferred_live_updates = <<>> /\ p.deferred_live_updates \in Seq(UpdateMessages)
  BY HistoricalAssumption DEF Ready, Tracks, Held, Packers
<1>2. /\ record \in Records /\ m.depth.final_update_id \in Ids /\ m.received_time \in Nat
      /\ m.depth \in Depths
  BY Messages, RecordTypes
<1>3. CASE m.depth.final_update_id < id
  <2>1. PackBridge(p, m) = p
    BY <1>3 DEF PackBridge
  <2>2. Len(p.buffered_while_invalid) <= n
    BY <1>1
  <2> QED
    BY <1>1, <2>1, <2>2, LeadsNowhere DEF Ready
<1>4. CASE ~(m.depth.final_update_id < id)
  <2>1. PackBridge(p, m) = IF Bridges(m.depth, id) THEN live ELSE lost
    BY <1>4 DEF PackBridge
  <2>2. /\ Bridges(m.depth, id) => LiveAt(ReadRecord(r, record), m.depth.final_update_id)
        /\ ~Bridges(m.depth, id) => InvalidWith(ReadRecord(r, record), <<m.depth>>)
    BY <1>1, <1>4, ReadFirst
  <2>3. Append(<<>>, record) \in Seq(Records) /\ <<m.depth>> \in Seq(Depths)
        /\ Len(<<m.depth>>) <= n /\ Len(<<>>) <= n
    BY <1>2, NothingDeferred
  <2>4. /\ live \in Packers /\ live.out = Append(<<>>, record) /\ live.state = "live"
        /\ live.previous_u = m.depth.final_update_id /\ live.deferred_live_updates = <<>>
        /\ live.pending_live_snapshot = NoMessage /\ live.buffered_while_invalid = <<>>
        /\ lost \in Packers /\ lost.out = Append(<<>>, record) /\ lost.state = "invalid"
        /\ lost.buffered_while_invalid = <<m.depth>> /\ lost.deferred_live_updates = <<>>
        /\ lost.pending_live_snapshot = NoMessage
    <3> HIDE DEF record
    <3> QED
      BY <1>1, <1>2, <2>3 DEF Packers, EmitUpdate, record
  <2> HIDE DEF live, lost, record, id
  <2>5. Held(live) /\ Held(lost)
    BY <2>4, NothingDeferred DEF Held
  <2>6. CASE Bridges(m.depth, id)
    <3>1. Tracks(live, ReadRecord(r, record))
      BY <2>2, <2>4, <2>6 DEF Tracks
    <3>2. ReadRecord(r, record) \in Tracking(live)
      BY <2>4, <3>1, TrackersReplay
    <3>3. Reads(r, live.out, Tracking(live))
      BY <1>2, <2>4, <3>2, ReadsFirst
    <3> QED
      BY <2>1, <2>3, <2>4, <2>5, <2>6, <3>3 DEF Leads
  <2>7. CASE ~Bridges(m.depth, id)
    <3>1. Tracks(lost, ReadRecord(r, record))
      BY <2>2, <2>4, <2>7 DEF Tracks
    <3>2. ReadRecord(r, record) \in Tracking(lost)
      BY <2>4, <3>1, TrackersReplay
    <3>3. Reads(r, lost.out, Tracking(lost))
      BY <1>2, <2>4, <3>2, ReadsFirst
    <3> QED
      BY <2>1, <2>3, <2>4, <2>5, <2>7, <3>3 DEF Leads
  <2> QED
    BY <2>6, <2>7
<1> QED
  BY <1>3, <1>4

LEMMA InvalidLeads ==
    ASSUME NEW p, NEW r, Ready(p, r), p.state = "invalid", NEW m \in UpdateMessages,
           NEW n \in Nat, Len(p.buffered_while_invalid) < n, n <= MaxBufferedEvents
    PROVE  Leads(PackInvalid(p, m), r, n)
<1> DEFINE record == UpdateRecord(m)
           events == p.buffered_while_invalid
           q == PackInvalid(p, m)
<1>1. /\ p \in Packers /\ Held(p) /\ p.out = <<>> /\ InvalidWith(r, events)
      /\ p.pending_live_snapshot = NoMessage /\ events \in Seq(Depths)
      /\ p.deferred_live_updates = <<>> /\ p.deferred_live_updates \in Seq(UpdateMessages)
  BY DEF Ready, Tracks, Held, Packers
<1>2. record \in Records /\ m.received_time \in Nat /\ m.depth \in Depths
  BY Messages, RecordTypes
<1>3. /\ Append(<<>>, record) \in Seq(Records) /\ Append(events, m.depth) \in Seq(Depths)
      /\ Len(Append(events, m.depth)) <= n /\ Len(events) < MaxBufferedEvents
  BY <1>1, <1>2, NothingDeferred, BufferAssumption
<1>4. /\ q \in Packers /\ q.out = Append(<<>>, record) /\ q.state = "invalid"
      /\ q.buffered_while_invalid = Append(events, m.depth) /\ q.deferred_live_updates = <<>>
      /\ q.pending_live_snapshot = NoMessage
  <2>1. q = [p EXCEPT !.out = Append(p.out, record), !.last_update_received = m.received_time,
                      !.buffered_while_invalid = Append(events, m.depth)]
    BY <1>1 DEF PackInvalid, EmitUpdate, Packers
  <2> HIDE DEF record, q, events
  <2> QED
    BY <1>1, <1>2, <1>3, <2>1 DEF Packers
<1> HIDE DEF record, q
<1>5. Held(q)
  BY <1>4, NothingDeferred DEF Held
<1>6. InvalidWith(ReadRecord(r, record), Append(events, m.depth))
  BY <1>1, <1>3, ReadWhileInvalid DEF record
<1>7. ReadRecord(r, record) \in Tracking(q)
  <2>1. Tracks(q, ReadRecord(r, record))
    BY <1>4, <1>6 DEF Tracks
  <2> QED
    BY <1>4, <2>1, TrackersReplay
<1>8. Reads(r, q.out, Tracking(q))
  BY <1>2, <1>4, <1>7, ReadsFirst
<1> QED
  BY <1>3, <1>4, <1>5, <1>8 DEF Leads, q

\* What a snapshot makes of a packer that is not live.
LEMMA RealignIs ==
    ASSUME NEW p \in Packers, Held(p), p.out = <<>>, p.state # "live", NEW m \in VendorSnapshots
    PROVE  LET id == m.depth.last_update_id
               record == SnapshotRecord(m.received_time, m)
               a == Realigned(p.buffered_while_invalid, id)
               q == Realign([p EXCEPT !.out = Append(@, record)], id)
           IN  /\ q \in Packers /\ Held(q)
               /\ q.out = Append(<<>>, record) /\ q.state = a.state
               /\ q.previous_u = a.u /\ q.snapshot_anchor = id
               /\ q.buffered_while_invalid = a.buffered /\ q.deferred_live_updates = <<>>
               /\ q.pending_live_snapshot = NoMessage
               /\ q.last_update_received = p.last_update_received
               /\ Len(a.buffered) <= Len(p.buffered_while_invalid)
               /\ a.state \in {"live", "awaiting_bridge", "invalid"}
               /\ a.state = "awaiting_bridge" => a.u = id
<1> DEFINE id == m.depth.last_update_id
           record == SnapshotRecord(m.received_time, m)
           events == p.buffered_while_invalid
           a == Realigned(events, id)
           shown == [p EXCEPT !.out = Append(@, record)]
           q == Realign(shown, id)
<1>1. /\ p.pending_live_snapshot = NoMessage /\ events \in Seq(Depths)
      /\ p.deferred_live_updates = <<>> /\ p.deferred_live_updates \in Seq(UpdateMessages)
  BY DEF Held, Packers
<1>2. record \in Records /\ id \in SnapshotIds /\ id \in Ids
  BY Messages, RecordTypes
<1>3. /\ a.state \in {"live", "awaiting_bridge", "invalid"} /\ a.u \in Ids
      /\ a.buffered \in Seq(Depths) /\ Len(a.buffered) <= Len(events)
      /\ a.state # "invalid" => a.buffered = <<>>
  BY <1>1, <1>2, RealignedTypes
<1>4. /\ shown.buffered_while_invalid = events /\ shown \in Packers
      /\ shown.out = Append(<<>>, record)
      /\ shown.pending_live_snapshot = NoMessage /\ shown.deferred_live_updates = <<>>
      /\ shown.last_update_received = p.last_update_received
  <2>1. Append(p.out, record) \in Seq(Records)
    BY <1>1, <1>2, NothingDeferred
  <2> HIDE DEF record
  <2> QED
    BY <1>1, <2>1 DEF Packers
<1> HIDE DEF shown
<1>5. q = [shown EXCEPT !.snapshot_anchor = id, !.previous_u = a.u, !.state = a.state,
                        !.buffered_while_invalid = a.buffered]
  <2> DEFINE rest == FromId(events, id)
             walk == WalkBuffered(Head(rest).final_update_id, Tail(rest))
  <2>1. CASE rest = <<>>
    <3>1. a = [state |-> "awaiting_bridge", u |-> id, buffered |-> <<>>]
      BY <2>1 DEF Realigned
    <3> HIDE DEF a
    <3> QED
      BY <1>4, <2>1, <3>1 DEF Realign, Packers
  <2>2. CASE rest # <<>> /\ ~Bridges(Head(rest), id)
    <3>1. a = [state |-> "invalid", u |-> id, buffered |-> <<Head(rest)>>]
      BY <2>2 DEF Realigned
    <3> HIDE DEF a
    <3> QED
      BY <1>4, <2>2, <3>1 DEF Realign, Packers
  <2>3. CASE rest # <<>> /\ Bridges(Head(rest), id)
    <3>1. a = Walked(walk)
      BY <2>3 DEF Realigned
    <3>2. q = [[shown EXCEPT !.snapshot_anchor = id, !.previous_u = id,
                             !.buffered_while_invalid = <<>>]
               EXCEPT !.state = IF walk.gap = <<>> THEN "live" ELSE "invalid",
                      !.previous_u = walk.u, !.buffered_while_invalid = walk.gap]
      BY <1>4, <2>3 DEF Realign
    <3> HIDE DEF a, walk
    <3> QED
      BY <1>4, <3>1, <3>2 DEF Walked, Packers
  <2> QED
    BY <2>1, <2>2, <2>3
<1>6. a.state = "awaiting_bridge" => a.u = id
  <2> DEFINE rest == FromId(events, id)
             walk == WalkBuffered(Head(rest).final_update_id, Tail(rest))
  <2>1. a = IF rest = <<>> THEN [state |-> "awaiting_bridge", u |-> id, buffered |-> <<>>]
            ELSE IF ~Bridges(Head(rest), id)
            THEN [state |-> "invalid", u |-> id, buffered |-> <<Head(rest)>>]
            ELSE Walked(walk)
    BY DEF Realigned
  <2> HIDE DEF rest, walk, a
  <2> QED
    BY <2>1 DEF Walked
<1> HIDE DEF q, a
<1>7. /\ q \in Packers /\ q.out = Append(<<>>, record) /\ q.state = a.state
      /\ q.previous_u = a.u /\ q.snapshot_anchor = id
      /\ q.buffered_while_invalid = a.buffered /\ q.deferred_live_updates = <<>>
      /\ q.pending_live_snapshot = NoMessage
      /\ q.last_update_received = p.last_update_received
  <2> HIDE DEF record, id
  <2> QED
    BY <1>2, <1>3, <1>4, <1>5 DEF Packers
<1>8. Held(q)
  BY <1>3, <1>7, NothingDeferred DEF Held
<1> QED
  BY <1>3, <1>6, <1>7, <1>8 DEF q, a, shown

LEMMA RealignLeads ==
    ASSUME AlwaysQuoted, NEW p, NEW r, Ready(p, r), p.state # "live",
           NEW m \in VendorSnapshots, NEW n \in Nat, Len(p.buffered_while_invalid) <= n
    PROVE  LET shown == [p EXCEPT !.out = Append(@, SnapshotRecord(m.received_time, m))]
           IN  Leads(Realign(shown, m.depth.last_update_id), r, n)
<1> DEFINE id == m.depth.last_update_id
           record == SnapshotRecord(m.received_time, m)
           events == p.buffered_while_invalid
           a == Realigned(events, id)
           q == Realign([p EXCEPT !.out = Append(@, record)], id)
           read == ReadRecord(r, record)
<1>1. /\ p \in Packers /\ Held(p) /\ p.out = <<>> /\ Tracks(p, r) /\ Replays(r)
      /\ events \in Seq(Depths) /\ record \in Records
  BY TrackersReplay, RecordTypes, Messages DEF Ready, Packers
<1>2. /\ q \in Packers /\ Held(q) /\ q.out = Append(<<>>, record) /\ q.state = a.state
      /\ q.previous_u = a.u /\ q.snapshot_anchor = id
      /\ q.buffered_while_invalid = a.buffered /\ q.deferred_live_updates = <<>>
      /\ Len(a.buffered) <= Len(events)
      /\ a.state \in {"live", "awaiting_bridge", "invalid"}
      /\ a.state = "awaiting_bridge" => a.u = id
  BY <1>1, RealignIs
<1>3. r.sync.state # "Disconnected" /\ r.sync.buffer = events
  <2>1. CASE p.state = "awaiting_bridge"
    <3>1. AwaitingAt(r, p.snapshot_anchor) /\ events = <<>>
      BY <1>1, <2>1 DEF Tracks, Held
    <3>2. SyncInv(r.sync) /\ ~r.sync.draining /\ r.sync.state = "Syncing"
      BY <3>1 DEF AwaitingAt, Replays
    <3> QED
      BY <3>1, <3>2 DEF SyncInv
  <2>2. CASE p.state = "invalid"
    BY <1>1, <2>2 DEF Tracks, InvalidWith
  <2> QED
    BY <1>1, <2>1, <2>2 DEF Packers
<1>4. Replays(read) /\ Pictured(a, read.sync)
  BY <1>1, <1>3, ReadSnapshot
<1>5. Len(q.buffered_while_invalid) <= n
  <2>1. q.buffered_while_invalid \in Seq(Depths)
    <3> HIDE DEF q
    <3> QED
      BY <1>2 DEF Packers
  <2>2. Len(q.buffered_while_invalid) \in Nat /\ Len(events) \in Nat
    <3> HIDE DEF q
    <3> QED
      BY <1>1, <2>1
  <2> HIDE DEF q, a
  <2> QED
    BY <1>2, <2>2
<1> HIDE DEF q, a, read
<1>6. Tracks(q, read)
  BY <1>2, <1>4 DEF Tracks, Pictured, LiveAt, AwaitingAt, InvalidWith
<1>7. Reads(r, q.out, Tracking(q))
  <2>1. read \in Tracking(q)
    BY <1>2, <1>6, TrackersReplay
  <2> QED
    BY <1>1, <1>2, <2>1, ReadsFirst DEF read
<1> QED
  BY <1>2, <1>5, <1>7 DEF Leads, q

LEMMA LiveSnapshotLeads ==
    ASSUME AlwaysQuoted, NEW p, NEW r, Ready(p, r), p.state = "live",
           NEW m \in VendorSnapshots, NEW n \in Nat
    PROVE  Leads(PackLiveSnapshot(p, m), r, n)
<1> DEFINE id == m.depth.last_update_id
           f == FlushDeferred(p)
           kept == [p EXCEPT !.pending_live_snapshot = m]
           q == [f EXCEPT !.pending_live_snapshot = m]
<1>1. /\ p \in Packers /\ Held(p) /\ p.out = <<>> /\ Tracks(p, r)
      /\ p.buffered_while_invalid = <<>> /\ Len(<<>>) <= n
  BY NothingDeferred DEF Ready, Held
<1>2. Leads(p, r, n)
  BY <1>1, LeadsNowhere
<1>3. Leads(kept, r, n)
  <2>1. /\ kept \in Packers /\ kept.out = <<>> /\ kept.state = "live"
        /\ kept.buffered_while_invalid = <<>> /\ kept.pending_live_snapshot = m
        /\ kept.deferred_live_updates = p.deferred_live_updates
        /\ kept.previous_u = p.previous_u
    BY <1>1 DEF Packers
  <2> HIDE DEF kept
  <2>2. Held(kept) /\ Tracks(kept, r)
    BY <1>1, <2>1, Messages DEF Held, Tracks
  <2> QED
    BY <1>1, <2>1, <2>2, LeadsNowhere
<1>4. Leads(q, r, n)
  <2>1. /\ f \in Packers /\ Held(f) /\ f.state = "live" /\ f.previous_u = p.previous_u
        /\ f.deferred_live_updates = <<>> /\ f.buffered_while_invalid = <<>>
        /\ Reads(r, f.out, LiveSet(p.previous_u))
    BY <1>1, FlushedPacker
  <2> HIDE DEF f
  <2>2. /\ q \in Packers /\ q.state = "live" /\ q.previous_u = p.previous_u
        /\ q.deferred_live_updates = <<>> /\ q.buffered_while_invalid = <<>>
        /\ q.out = f.out
    BY <2>1 DEF Packers
  <2> HIDE DEF q
  <2>3. Held(q) /\ LiveSet(p.previous_u) \subseteq Tracking(q)
    BY <2>2, NothingDeferred DEF Held, LiveSet, Tracking, Tracks
  <2>4. Reads(r, q.out, Tracking(q))
    BY <2>1, <2>2, <2>3 DEF Reads
  <2> QED
    BY <1>1, <2>2, <2>3, <2>4 DEF Leads
<1>5. PackLiveSnapshot(p, m) \in {p, kept, q}
  BY DEF PackLiveSnapshot
<1> QED
  BY <1>2, <1>3, <1>4, <1>5

\* A live book that holds back one update more.
LEMMA DeferredIs ==
    ASSUME NEW p \in Packers, Held(p), p.out = <<>>, p.state = "live",
           p.pending_live_snapshot # NoMessage,
           NEW m \in UpdateMessages, Follows(m.depth, p.previous_u)
    PROVE  LET d == p.deferred_live_updates
               longer == Append(d, m)
               deferred == [p EXCEPT !.previous_u = m.depth.final_update_id,
                                     !.deferred_live_updates = Append(@, m)]
           IN  /\ d \in Seq(UpdateMessages) /\ longer # <<>>
               /\ Head(longer) = IF d = <<>> THEN m ELSE Head(d)
               /\ deferred \in Packers /\ deferred.out = <<>> /\ deferred.state = "live"
               /\ deferred.previous_u = m.depth.final_update_id
               /\ deferred.deferred_live_updates = longer
               /\ deferred.buffered_while_invalid = <<>>
               /\ deferred.pending_live_snapshot # NoMessage
               /\ deferred.snapshot_anchor = p.snapshot_anchor
               /\ deferred.last_update_received = p.last_update_received
               /\ Held(deferred)
<1> DEFINE d == p.deferred_live_updates
           u == m.depth.final_update_id
           longer == Append(d, m)
           deferred == [p EXCEPT !.previous_u = u, !.deferred_live_updates = Append(@, m)]
<1>1. p.buffered_while_invalid = <<>> /\ d \in Seq(UpdateMessages) /\ u \in Ids
  BY Messages DEF Held, Packers
<1>2. /\ longer \in Seq(UpdateMessages) /\ longer # <<>> /\ Last(longer) = m
      /\ Head(longer) = IF d = <<>> THEN m ELSE Head(d)
  BY <1>1 DEF Last
<1>3. Chain(longer)
  <2>1. Len(longer) = Len(d) + 1 /\ Len(d) \in Nat
        /\ \A i \in 1 .. Len(d) : longer[i] = d[i]
        /\ longer[Len(d) + 1] = m
    BY <1>1
  <2>2. ASSUME NEW i \in 1 .. Len(longer) - 1
        PROVE  Follows(longer[i + 1].depth, longer[i].depth.final_update_id)
    <3>1. CASE i = Len(d)
      <4>1. d # <<>> /\ Last(d) = d[i] /\ longer[i] = d[i] /\ longer[i + 1] = m
        BY <1>1, <2>1, <2>2, <3>1 DEF Last
      <4>2. Last(d).depth.final_update_id = p.previous_u
        BY <4>1 DEF Held
      <4> QED
        BY <4>1, <4>2
    <3>2. CASE i # Len(d)
      <4>1. i \in 1 .. Len(d) - 1 /\ i \in 1 .. Len(d) /\ i + 1 \in 1 .. Len(d)
        BY <2>1, <2>2, <3>2
      <4>2. Follows(d[i + 1].depth, d[i].depth.final_update_id)
        BY <4>1 DEF Held, Chain
      <4> QED
        BY <2>1, <4>1, <4>2
    <3> QED
      BY <3>1, <3>2
  <2> QED
    BY <2>2 DEF Chain
<1>4. /\ deferred \in Packers /\ deferred.out = <<>> /\ deferred.state = "live"
      /\ deferred.previous_u = u /\ deferred.deferred_live_updates = longer
      /\ deferred.buffered_while_invalid = <<>>
      /\ deferred.pending_live_snapshot # NoMessage
      /\ deferred.snapshot_anchor = p.snapshot_anchor
      /\ deferred.last_update_received = p.last_update_received
  <2>1. deferred = [p EXCEPT !.previous_u = u, !.deferred_live_updates = longer]
    BY DEF Packers
  <2> HIDE DEF deferred, longer, u
  <2> QED
    BY <1>1, <1>2, <2>1 DEF Packers
<1> HIDE DEF deferred, longer
<1>5. Held(deferred)
  BY <1>2, <1>3, <1>4 DEF Held
<1> QED
  BY <1>1, <1>2, <1>4, <1>5 DEF deferred, longer

LEMMA ContiguousLeads ==
    ASSUME AlwaysQuoted, NEW p, NEW r, Ready(p, r), p.state = "live",
           NEW m \in UpdateMessages, Follows(m.depth, p.previous_u), NEW n \in Nat
    PROVE  Leads(PackContiguous(p, m), r, n)
<1> DEFINE d == p.deferred_live_updates
           u == m.depth.final_update_id
           record == UpdateRecord(m)
           advanced == [p EXCEPT !.previous_u = u]
           emitted == EmitUpdate(advanced, m)
           deferred == [advanced EXCEPT !.deferred_live_updates = Append(@, m)]
           f == FlushDeferred(deferred)
           passed == [f EXCEPT !.pending_live_snapshot = NoMessage]
<1>1. /\ p \in Packers /\ Held(p) /\ p.out = <<>> /\ Tracks(p, r)
      /\ p.buffered_while_invalid = <<>> /\ Len(<<>>) <= n
      /\ d \in Seq(UpdateMessages) /\ p.previous_u \in Ids
  BY NothingDeferred DEF Ready, Held, Packers
<1>2. record \in Records /\ m.received_time \in Nat /\ u \in Ids
  BY Messages, RecordTypes
<1>3. CASE p.pending_live_snapshot = NoMessage
  <2>1. d = <<>> /\ LiveAt(r, p.previous_u)
    BY <1>1, <1>3 DEF Held, Tracks
  <2>2. PackContiguous(p, m) = emitted
    BY <1>3 DEF PackContiguous
  <2>3. /\ emitted \in Packers /\ emitted.out = Append(<<>>, record)
        /\ emitted.state = "live" /\ emitted.previous_u = u
        /\ emitted.deferred_live_updates = <<>> /\ emitted.buffered_while_invalid = <<>>
    <3>1. Append(<<>>, record) \in Seq(Records)
      BY <1>2, NothingDeferred
    <3>2. emitted = [p EXCEPT !.previous_u = u, !.out = Append(<<>>, record),
                              !.last_update_received = m.received_time]
      BY <1>1 DEF EmitUpdate, Packers
    <3> HIDE DEF record, emitted, u, d
    <3>3. p.deferred_live_updates = <<>>
      BY <2>1 DEF d
    <3> QED
      BY <1>1, <1>2, <3>1, <3>2, <3>3 DEF Packers
  <2>4. LiveAt(ReadRecord(r, record), u)
    BY <2>1, ReadContiguous
  <2> HIDE DEF emitted, record
  <2>5. Held(emitted) /\ ReadRecord(r, record) \in Tracking(emitted)
    <3>1. Tracks(emitted, ReadRecord(r, record))
      BY <2>3, <2>4 DEF Tracks
    <3> QED
      BY <2>3, <3>1, TrackersReplay, NothingDeferred DEF Held
  <2>6. Reads(r, emitted.out, Tracking(emitted))
    BY <1>2, <2>3, <2>5, ReadsFirst
  <2> QED
    BY <1>1, <2>2, <2>3, <2>5, <2>6 DEF Leads
<1>4. CASE p.pending_live_snapshot # NoMessage
  <2> DEFINE longer == Append(d, m)
  <2>1. /\ longer # <<>> /\ Head(longer) = IF d = <<>> THEN m ELSE Head(d)
        /\ deferred \in Packers /\ deferred.out = <<>> /\ deferred.state = "live"
        /\ deferred.previous_u = u /\ deferred.deferred_live_updates = longer
        /\ deferred.buffered_while_invalid = <<>> /\ Held(deferred)
    <3> DEFINE late == [p EXCEPT !.previous_u = u, !.deferred_live_updates = Append(@, m)]
    <3>1. deferred = late
      BY <1>1 DEF Packers
    <3>2. /\ p \in Packers /\ Held(p) /\ p.out = <<>> /\ p.state = "live"
          /\ Follows(m.depth, p.previous_u)
      BY <1>1
    <3>3. /\ longer # <<>> /\ Head(longer) = IF d = <<>> THEN m ELSE Head(d)
          /\ late \in Packers /\ late.out = <<>> /\ late.state = "live"
          /\ late.previous_u = u /\ late.deferred_live_updates = longer
          /\ late.buffered_while_invalid = <<>> /\ Held(late)
      BY <1>4, <3>2, DeferredIs
    <3> HIDE DEF late, deferred, longer, u, d
    <3> QED
      BY <3>1, <3>3
  <2> HIDE DEF deferred, longer
  <2>5. Tracks(deferred, r)
    <3>1. LiveAt(r, Head(longer).depth.previous_final_update_id)
      <4>1. CASE d = <<>>
        <5>1. LiveAt(r, p.previous_u) /\ Head(longer) = m
          BY <1>1, <2>1, <4>1 DEF Tracks
        <5> QED
          BY <5>1 DEF Follows
      <4>2. CASE d # <<>>
        BY <1>1, <2>1, <4>2 DEF Tracks
      <4> QED
        BY <4>1, <4>2
    <3> QED
      BY <2>1, <3>1 DEF Tracks
  <2>6. Leads(deferred, r, n)
    BY <1>1, <2>1, <2>5, LeadsNowhere
  <2>7. Leads(passed, r, n)
    <3>1. /\ f \in Packers /\ Held(f) /\ f.state = "live" /\ f.previous_u = u
          /\ f.deferred_live_updates = <<>> /\ f.buffered_while_invalid = <<>>
          /\ Reads(r, f.out, LiveSet(u))
      BY <2>1, <2>5, FlushedPacker
    <3> HIDE DEF f, u
    <3>2. /\ passed \in Packers /\ passed.state = "live" /\ passed.previous_u = u
          /\ passed.deferred_live_updates = <<>> /\ passed.buffered_while_invalid = <<>>
          /\ passed.out = f.out
      BY <3>1 DEF Packers
    <3> HIDE DEF passed
    <3>3. Held(passed) /\ LiveSet(u) \subseteq Tracking(passed)
      BY <3>2, NothingDeferred DEF Held, LiveSet, Tracking, Tracks
    <3>4. Reads(r, passed.out, Tracking(passed))
      BY <3>1, <3>2, <3>3 DEF Reads
    <3> QED
      BY <1>1, <3>2, <3>3, <3>4 DEF Leads
  <2>8. PackContiguous(p, m) \in {deferred, passed}
    BY <1>4 DEF PackContiguous, deferred
  <2> QED
    BY <2>6, <2>7, <2>8
<1> QED
  BY <1>3, <1>4

LEMMA GapLeads ==
    ASSUME AlwaysQuoted, NEW p, NEW r, Ready(p, r), p.state = "live",
           NEW m \in UpdateMessages, ~Follows(m.depth, p.previous_u),
           ~(m.depth.final_update_id <= p.previous_u), NEW n \in Nat, 1 <= n
    PROVE  Leads(PackGap(p, m), r, n)
<1> DEFINE f == FlushDeferred(p)
           u == p.previous_u
           record == UpdateRecord(m)
           q == PackGap(p, m)
<1>1. /\ f \in Packers /\ f.deferred_live_updates = <<>> /\ Reads(r, f.out, LiveSet(u))
  BY FlushedPacker DEF Ready
<1>2. /\ record \in Records /\ m.received_time \in Nat /\ m.depth.final_update_id \in Ids
      /\ m.depth \in Depths
  BY Messages, RecordTypes
<1>3. /\ Append(f.out, record) \in Seq(Records) /\ <<m.depth>> \in Seq(Depths)
      /\ Len(<<m.depth>>) <= n /\ f.out \in Seq(Records)
  <2>1. f.out \in Seq(Records)
    BY <1>1 DEF Packers
  <2> QED
    BY <1>2, <2>1
<1>4. /\ q \in Packers /\ q.out = Append(f.out, record) /\ q.state = "invalid"
      /\ q.buffered_while_invalid = <<m.depth>> /\ q.deferred_live_updates = <<>>
      /\ q.pending_live_snapshot = NoMessage
  <2>1. q = [[f EXCEPT !.out = Append(@, record), !.last_update_received = m.received_time]
             EXCEPT !.pending_live_snapshot = NoMessage, !.state = "invalid",
                    !.buffered_while_invalid = <<m.depth>>,
                    !.previous_u = m.depth.final_update_id]
    BY DEF PackGap, EmitUpdate
  <2> HIDE DEF record, q, f
  <2> QED
    BY <1>1, <1>2, <1>3, <2>1 DEF Packers
<1> HIDE DEF q, f, record
<1>5. Held(q)
  BY <1>4, NothingDeferred DEF Held
<1>6. ASSUME NEW v \in LiveSet(u)
      PROVE  ReadRecord(v, record) \in Tracking(q)
  <2>1. InvalidWith(ReadRecord(v, record), <<m.depth>>)
    <3>1. LiveAt(v, u) /\ ~Follows(m.depth, u) /\ ~(m.depth.final_update_id <= u)
      BY DEF LiveSet
    <3> HIDE DEF u
    <3> QED
      BY <3>1, ReadGap DEF record
  <2>2. Tracks(q, ReadRecord(v, record))
    BY <1>4, <2>1 DEF Tracks
  <2> QED
    BY <1>4, <2>2, TrackersReplay
<1>7. Reads(r, q.out, Tracking(q))
  BY <1>1, <1>2, <1>3, <1>4, <1>6, ReadsAppend
<1> QED
  BY <1>3, <1>4, <1>5, <1>7 DEF Leads, q

\* The earlier of two stamps is one of them.
LEMMA EarlierStamp ==
    ASSUME NEW a \in Nat, NEW b \in Nat
    PROVE  /\ Min({a, b}) \in Nat /\ Min({a, b}) <= a /\ Min({a, b}) <= b
           /\ Min({a, b}) \in {a, b}
<1> DEFINE S == {a, b}
<1>1. S \in SUBSET Nat /\ S # {}
  OBVIOUS
<1>2. PICK n \in S : \A k \in S : n <= k
  BY <1>1, LeastNumber
<1>3. Min(S) \in S /\ \A k \in S : Min(S) <= k
  <2> HIDE DEF S
  <2> QED
    BY <1>2 DEF Min
<1> QED
  BY <1>1, <1>3

\* The snapshot after a connection was opened: a replayer awaits the bridge.
LEMMA ReadsOpening ==
    ASSUME AlwaysQuoted, NEW m \in VendorSnapshots, NEW t, NEW r, Replays(r),
           r.sync.state = "Buffering", r.sync.buffer = <<>>
    PROVE  AwaitingAt(ReadRecord(r, SnapshotRecord(t, m)), m.depth.last_update_id)
<1> DEFINE shown == ReadRecord(r, SnapshotRecord(t, m))
           id == m.depth.last_update_id
<1>1. Replays(shown) /\ Pictured(Realigned(<<>>, id), shown.sync)
  BY ReadSnapshot
<1>2. Realigned(<<>>, id) = [state |-> "awaiting_bridge", u |-> id, buffered |-> <<>>]
  <2>1. FromId(<<>>, id) = <<>>
    BY NothingDeferred, FromIdFirst
  <2> QED
    BY <2>1 DEF Realigned
<1> HIDE DEF shown, id
<1>3. AwaitingAt(shown, id)
  BY <1>1, <1>2 DEF Pictured, AwaitingAt
<1> QED
  BY <1>3 DEF shown, id

\* Three records joined to a sequence, or appended one after the other.
LEMMA JoinThree ==
    ASSUME NEW s \in Seq(Records), NEW a \in Records, NEW b \in Records, NEW c \in Records
    PROVE  s \o <<a, b, c>> = Append(Append(Append(s, a), b), c)
<1> DEFINE joined == s \o <<a, b, c>>
           appended == Append(Append(Append(s, a), b), c)
<1>1. joined \in Seq(Records) /\ Len(joined) = Len(s) + 3
  OBVIOUS
<1>2. appended \in Seq(Records) /\ Len(appended) = Len(s) + 3
  OBVIOUS
<1>3. ASSUME NEW i \in 1 .. Len(s) + 3 PROVE joined[i] = appended[i]
  <2>1. CASE i <= Len(s)
    BY <2>1
  <2>2. CASE i = Len(s) + 1
    BY <2>2
  <2>3. CASE i = Len(s) + 2
    BY <2>3
  <2>4. CASE i = Len(s) + 3
    BY <2>4
  <2> QED
    BY <1>3, <2>1, <2>2, <2>3, <2>4
<1> HIDE DEF joined, appended
<1>4. joined = appended
  BY <1>1, <1>2, <1>3, SeqEqual
<1> QED
  BY <1>4 DEF joined, appended

LEMMA CoveredGapLeads ==
    ASSUME AlwaysQuoted, NEW p, NEW r, Ready(p, r), p.state = "live",
           NEW m \in UpdateMessages, p.pending_live_snapshot # NoMessage,
           Bridges(m.depth, p.pending_live_snapshot.depth.last_update_id), NEW n \in Nat
    PROVE  Leads(PackCoveredGap(p, m), r, n)
<1> DEFINE f == FlushDeferred(p)
           u == m.depth.final_update_id
           pending == p.pending_live_snapshot
           id == pending.depth.last_update_id
           last == IF f.last_update_received = 0 THEN m.received_time
                   ELSE f.last_update_received
           closing == CloseRecord(Min({last + 1, m.received_time}))
           first_open == OpenRecord(m.received_time)
           showing == SnapshotRecord(m.received_time, pending)
           record == UpdateRecord(m)
           q == PackCoveredGap(p, m)
           Closed == {v \in Replayers : SyncInv(v.sync) /\ ~v.sync.draining}
           Opened == {v \in Replayers : Replays(v) /\ v.sync.state = "Buffering"
                                        /\ v.sync.buffer = <<>>}
           Shown == {v \in Replayers : AwaitingAt(v, id)}
<1>1. /\ f \in Packers /\ f.deferred_live_updates = <<>> /\ f.state = "live"
      /\ f.buffered_while_invalid = <<>>
      /\ Reads(r, f.out, LiveSet(p.previous_u)) /\ f.out \in Seq(Records)
      /\ f.last_update_received \in Nat
  BY FlushedPacker DEF Ready, Packers
<1>2. /\ record \in Records /\ m.received_time \in Nat /\ u \in Ids
      /\ pending \in VendorSnapshots /\ id \in Ids
  BY Messages, RecordTypes DEF Ready, Packers
<1>3. closing \in Records /\ first_open \in Records /\ showing \in Records
  <2>1. last + 1 \in Nat
    <3> HIDE DEF f
    <3> QED
      BY <1>1, <1>2
  <2>2. Min({last + 1, m.received_time}) \in Nat
    <3> HIDE DEF last
    <3> QED
      BY <1>2, <2>1, EarlierStamp
  <2> QED
    BY <1>2, <2>2, RecordTypes
<1> DEFINE one == Append(f.out, closing)
           two == Append(one, first_open)
           three == Append(two, showing)
           four == Append(three, record)
<1>4. /\ one \in Seq(Records) /\ two \in Seq(Records) /\ three \in Seq(Records)
      /\ four \in Seq(Records)
  <2> HIDE DEF f, closing, first_open, showing, record
  <2> QED
    BY <1>1, <1>2, <1>3
<1>5. f.out \o <<closing, first_open, showing>> = three
  <2>1. f.out \in Seq(Records)
    BY <1>1
  <2> HIDE DEF f, closing, first_open, showing, record
  <2> QED
    BY <1>3, <2>1, JoinThree
<1>6. /\ q \in Packers /\ q.out = four /\ q.state = "live" /\ q.previous_u = u
      /\ q.deferred_live_updates = <<>> /\ q.buffered_while_invalid = <<>>
      /\ q.pending_live_snapshot = NoMessage
  <2>1. q = [[[f EXCEPT !.out = @ \o <<closing, first_open, showing>>]
              EXCEPT !.out = Append(@, record), !.last_update_received = m.received_time]
             EXCEPT !.previous_u = u, !.pending_live_snapshot = NoMessage]
    BY DEF PackCoveredGap, EmitUpdate
  <2> DEFINE g == [f EXCEPT !.out = three]
  <2>2. [f EXCEPT !.out = @ \o <<closing, first_open, showing>>] = g
    <3> HIDE DEF f, closing, first_open, showing, three
    <3> QED
      BY <1>1, <1>5 DEF Packers
  <2>3. q = [[g EXCEPT !.out = Append(@, record), !.last_update_received = m.received_time]
             EXCEPT !.previous_u = u, !.pending_live_snapshot = NoMessage]
    <3> HIDE DEF f, closing, first_open, showing, record, three, q, g
    <3> QED
      BY <2>1, <2>2
  <2> HIDE DEF f, record, q, three, u
  <2>4. g \in Packers /\ g.out = three /\ g.state = "live" /\ g.deferred_live_updates = <<>>
        /\ g.buffered_while_invalid = <<>>
    BY <1>1, <1>4 DEF Packers
  <2> HIDE DEF g
  <2> QED
    BY <1>2, <1>4, <2>3, <2>4 DEF Packers
<1>7. \A v \in LiveSet(p.previous_u) : ReadRecord(v, closing) \in Closed
  <2> SUFFICES ASSUME NEW v \in LiveSet(p.previous_u) PROVE ReadRecord(v, closing) \in Closed
    OBVIOUS
  <2>1. v \in Replayers /\ SyncInv(v.sync) /\ ~v.sync.draining
    BY DEF LiveSet, LiveAt, Replays
  <2> QED
    BY <2>1, ReadOpenOrClose
<1>8. \A v \in Closed : ReadRecord(v, first_open) \in Opened
  <2> SUFFICES ASSUME NEW v \in Closed PROVE ReadRecord(v, first_open) \in Opened
    OBVIOUS
  <2>1. v \in Replayers /\ SyncInv(v.sync) /\ ~v.sync.draining
    OBVIOUS
  <2>2. /\ Replays(ReadRecord(v, first_open))
        /\ ReadRecord(v, first_open).sync.state = "Buffering"
        /\ ReadRecord(v, first_open).sync.buffer = <<>>
    BY <2>1, ReadOpenOrClose
  <2> QED
    BY <2>2 DEF Replays
<1>9. \A v \in Opened : ReadRecord(v, showing) \in Shown
  <2> SUFFICES ASSUME NEW v \in Opened PROVE ReadRecord(v, showing) \in Shown
    OBVIOUS
  <2>1. Replays(v) /\ v.sync.state = "Buffering" /\ v.sync.buffer = <<>>
    OBVIOUS
  <2>2. AwaitingAt(ReadRecord(v, showing), id)
    BY <1>2, <2>1, ReadsOpening
  <2> HIDE DEF showing
  <2> QED
    BY <2>2 DEF AwaitingAt, Replays
<1> HIDE DEF f, closing, first_open, showing, last, q, three
<1>10. \A v \in Shown : ReadRecord(v, record) \in Tracking(q)
  <2> SUFFICES ASSUME NEW v \in Shown PROVE ReadRecord(v, record) \in Tracking(q)
    OBVIOUS
  <2>1. AwaitingAt(v, id) /\ Bridges(m.depth, id)
    OBVIOUS
  <2>2. ~(u < id)
    <3>1. id <= u
      BY <2>1 DEF Bridges
    <3> HIDE DEF u, id
    <3> QED
      BY <1>2, <3>1, ExchangeAssumption DEF Ids
  <2>3. LiveAt(ReadRecord(v, record), u)
    <3> HIDE DEF id
    <3> QED
      BY <1>2, <2>1, <2>2, ReadFirst
  <2> HIDE DEF record, u
  <2>4. Tracks(q, ReadRecord(v, record))
    BY <1>6, <2>3 DEF Tracks
  <2> QED
    BY <1>6, <2>4, TrackersReplay
<1>11. Held(q)
  BY <1>6, NothingDeferred DEF Held
<1> HIDE DEF one, two, four, Closed, Opened, Shown, record
<1>12. Reads(r, one, Closed)
  BY <1>1, <1>3, <1>7, ReadsAppend DEF one
<1>13. Reads(r, two, Opened)
  BY <1>3, <1>4, <1>8, <1>12, ReadsAppend DEF two
<1>14. Reads(r, three, Shown)
  BY <1>3, <1>4, <1>9, <1>13, ReadsAppend DEF three
<1>15. Reads(r, four, Tracking(q))
  BY <1>2, <1>4, <1>10, <1>14, ReadsAppend DEF four
<1>16. Len(<<>>) <= n
  BY NothingDeferred
<1> QED
  BY <1>6, <1>11, <1>15, <1>16 DEF Leads, q

\* The first call.
LEMMA NewPackerIs ==
    ASSUME NEW m \in VendorSnapshots
    PROVE  LET id == m.depth.last_update_id
               first_open == OpenRecord(BaseTime(m) + 1)
               showing == SnapshotRecord(m.received_time, m)
               q == NewPacker(m)
           IN  /\ first_open \in Records /\ showing \in Records
               /\ q.state = "awaiting_bridge" /\ q.previous_u = id /\ q.snapshot_anchor = id
               /\ q.buffered_while_invalid = <<>> /\ q.pending_live_snapshot = NoMessage
               /\ q.deferred_live_updates = <<>> /\ q.out = <<first_open, showing>>
               /\ q.last_update_received = 0
               /\ q \in Packers /\ Held(q)
<1> DEFINE id == m.depth.last_update_id
           first_open == OpenRecord(BaseTime(m) + 1)
           showing == SnapshotRecord(m.received_time, m)
           q == NewPacker(m)
<1>1. id \in Ids /\ id \in SnapshotIds /\ m.received_time \in Nat
  BY Messages
<1>2. first_open \in Records /\ showing \in Records
  <2>1. BaseTime(m) + 1 \in Nat
    BY <1>1, HistoricalAssumption DEF BaseTime
  <2> QED
    BY <1>1, <2>1, RecordTypes
<1>3. /\ q.state = "awaiting_bridge" /\ q.previous_u = id /\ q.snapshot_anchor = id
      /\ q.buffered_while_invalid = <<>> /\ q.pending_live_snapshot = NoMessage
      /\ q.deferred_live_updates = <<>> /\ q.out = <<first_open, showing>>
      /\ q \in Packers /\ q.last_update_received = 0
  <2>1. <<first_open, showing>> \in Seq(Records)
    BY <1>2
  <2> HIDE DEF first_open, showing
  <2> QED
    BY <1>1, <2>1, NothingDeferred DEF NewPacker, Packers, first_open, showing
<1> HIDE DEF q
<1>4. Held(q)
  BY <1>3, NothingDeferred DEF Held
<1> QED
  BY <1>2, <1>3, <1>4 DEF q

\* The first call, for a replayer of a new file.
LEMMA NewPackerLeads ==
    ASSUME AlwaysQuoted, NEW m \in VendorSnapshots, NEW n \in Nat
    PROVE  Leads(NewPacker(m), NewReplay, n)
<1> DEFINE id == m.depth.last_update_id
           first_open == OpenRecord(BaseTime(m) + 1)
           showing == SnapshotRecord(m.received_time, m)
           q == NewPacker(m)
           Opened == {v \in Replayers : Replays(v) /\ v.sync.state = "Buffering"
                                        /\ v.sync.buffer = <<>>}
<1>1. /\ first_open \in Records /\ showing \in Records
      /\ q.state = "awaiting_bridge" /\ q.snapshot_anchor = id
      /\ q.buffered_while_invalid = <<>> /\ q.out = <<first_open, showing>>
      /\ q \in Packers /\ Held(q)
  BY NewPackerIs
<1>4. ReadRecord(NewReplay, first_open) \in Opened
  <2>1. NewReplay \in Replayers /\ SyncInv(NewReplay.sync) /\ ~NewReplay.sync.draining
    BY BookOps, NoBuffer, ExchangeAssumption
       DEF NewReplay, NewSynchronizer, Replayers, SyncInv, Synchronizer, SyncState, SyncResult,
           Ids, ClearedBook
  <2>2. /\ Replays(ReadRecord(NewReplay, first_open))
        /\ ReadRecord(NewReplay, first_open).sync.state = "Buffering"
        /\ ReadRecord(NewReplay, first_open).sync.buffer = <<>>
    <3> HIDE DEF first_open
    <3> QED
      BY <2>1, ReadOpenOrClose DEF first_open
  <2> QED
    BY <2>2 DEF Replays
<1> HIDE DEF q
<1>5. \A v \in Opened : ReadRecord(v, showing) \in Tracking(q)
  <2> SUFFICES ASSUME NEW v \in Opened PROVE ReadRecord(v, showing) \in Tracking(q)
    OBVIOUS
  <2>1. AwaitingAt(ReadRecord(v, showing), id)
    <3>1. Replays(v) /\ v.sync.state = "Buffering" /\ v.sync.buffer = <<>>
      OBVIOUS
    <3> QED
      BY <3>1, ReadsOpening
  <2> HIDE DEF showing
  <2>2. Tracks(q, ReadRecord(v, showing))
    BY <1>1, <2>1 DEF Tracks
  <2> QED
    BY <1>1, <2>2, TrackersReplay
<1>6. q.out = Append(Append(<<>>, first_open), showing)
  BY <1>1
<1>7. Append(<<>>, first_open) \in Seq(Records)
  BY <1>1, NothingDeferred
<1> HIDE DEF first_open, showing, Opened
<1>8. Reads(NewReplay, Append(<<>>, first_open), Opened)
  BY <1>1, <1>4, ReadsFirst
<1>9. Reads(NewReplay, q.out, Tracking(q))
  BY <1>1, <1>5, <1>6, <1>7, <1>8, ReadsAppend
<1>10. Len(q.buffered_while_invalid) <= n
  BY <1>1, NothingDeferred
<1> QED
  BY <1>1, <1>9, <1>10 DEF Leads, q

\* Any message of the stream.
LEMMA PackLeads ==
    ASSUME AlwaysQuoted, NEW p, NEW r, Ready(p, r), NEW n \in Nat,
           Len(p.buffered_while_invalid) <= n
    PROVE  /\ \A m \in VendorSnapshots : Leads(Pack(p, m), r, n)
           /\ n + 1 <= MaxBufferedEvents =>
                 \A m \in UpdateMessages : Leads(Pack(p, m), r, n + 1)
<1>1. /\ p \in Packers /\ Held(p) /\ p.out = <<>> /\ Tracks(p, r)
      /\ p.state \in {"live", "awaiting_bridge", "invalid"}
      /\ Len(p.buffered_while_invalid) \in Nat
  BY DEF Ready, Packers
<1>2. Leads(p, r, n) /\ Leads(p, r, n + 1)
  <2>1. Len(p.buffered_while_invalid) <= n + 1
    BY <1>1
  <2> QED
    BY <1>1, <2>1, LeadsNowhere
<1>3. ASSUME NEW m \in VendorSnapshots
      PROVE  Leads(Pack(p, m), r, n)
  <2>1. Pack(p, m) \in {p, PackSnapshot(p, m)}
    BY Messages DEF Pack
  <2>2. p.state = "live" => Leads(PackLiveSnapshot(p, m), r, n)
    BY LiveSnapshotLeads
  <2> DEFINE shown == [p EXCEPT !.out = Append(@, SnapshotRecord(m.received_time, m))]
  <2>3. p.state # "live" => Leads(Realign(shown, m.depth.last_update_id), r, n)
    BY RealignLeads
  <2>4. \/ PackSnapshot(p, m) = p
        \/ p.state = "live" /\ PackSnapshot(p, m) = PackLiveSnapshot(p, m)
        \/ p.state # "live" /\ PackSnapshot(p, m) = Realign(shown, m.depth.last_update_id)
    BY DEF PackSnapshot
  <2> HIDE DEF shown
  <2> QED
    BY <1>2, <2>1, <2>2, <2>3, <2>4
<1>4. ASSUME NEW m \in UpdateMessages, n + 1 <= MaxBufferedEvents
      PROVE  Leads(Pack(p, m), r, n + 1)
  <2>1. Pack(p, m) \in {p, PackUpdate(p, m)}
    BY Messages DEF Pack
  <2>2. n + 1 \in Nat /\ 1 <= n + 1 /\ Len(p.buffered_while_invalid) < n + 1
    BY <1>1
  <2>3. CASE p.state = "awaiting_bridge"
    <3>1. PackUpdate(p, m) = PackBridge(p, m)
      BY <2>3 DEF PackUpdate
    <3> QED
      BY <1>2, <2>1, <2>2, <2>3, <3>1, BridgeLeads
  <2>4. CASE p.state = "invalid"
    <3>1. PackUpdate(p, m) = PackInvalid(p, m)
      BY <2>4 DEF PackUpdate
    <3>2. Leads(PackInvalid(p, m), r, n + 1)
      BY <1>4, <2>2, <2>4, InvalidLeads
    <3> QED
      BY <1>2, <2>1, <3>1, <3>2
  <2>5. CASE p.state = "live"
    <3> DEFINE pending == p.pending_live_snapshot
    <3>1. PackUpdate(p, m) =
            IF m.depth.final_update_id <= p.previous_u THEN p
            ELSE IF Follows(m.depth, p.previous_u) THEN PackContiguous(p, m)
            ELSE IF pending # NoMessage /\ Bridges(m.depth, pending.depth.last_update_id)
            THEN PackCoveredGap(p, m)
            ELSE PackGap(p, m)
      BY <2>5 DEF PackUpdate
    <3>2. Follows(m.depth, p.previous_u) => Leads(PackContiguous(p, m), r, n + 1)
      BY <2>2, <2>5, ContiguousLeads
    <3>3. pending # NoMessage /\ Bridges(m.depth, pending.depth.last_update_id)
            => Leads(PackCoveredGap(p, m), r, n + 1)
      BY <2>2, <2>5, CoveredGapLeads
    <3>4. ~Follows(m.depth, p.previous_u) /\ ~(m.depth.final_update_id <= p.previous_u)
            => Leads(PackGap(p, m), r, n + 1)
      BY <2>2, <2>5, GapLeads
    <3> HIDE DEF pending
    <3> QED
      BY <1>2, <2>1, <3>1, <3>2, <3>3, <3>4
  <2> QED
    BY <1>1, <2>3, <2>4, <2>5
<1> QED
  BY <1>3, <1>4

\* The end of the stream.
LEMMA CloseLeads ==
    ASSUME AlwaysQuoted, NEW p, NEW r, Ready(p, r), NEW n \in Nat,
           Len(p.buffered_while_invalid) <= n
    PROVE  Leads(IF p.state = "live" THEN FlushDeferred(p) ELSE p, r, n)
<1> DEFINE f == FlushDeferred(p)
<1>1. p \in Packers /\ Held(p) /\ p.out = <<>> /\ Tracks(p, r)
  BY DEF Ready
<1>2. CASE p.state # "live"
  BY <1>1, <1>2, LeadsNowhere
<1>3. CASE p.state = "live"
  <2>1. /\ f \in Packers /\ Held(f) /\ f.state = "live" /\ f.previous_u = p.previous_u
        /\ f.deferred_live_updates = <<>> /\ f.buffered_while_invalid = <<>>
        /\ Reads(r, f.out, LiveSet(p.previous_u))
    BY <1>1, <1>3, FlushedPacker
  <2> HIDE DEF f
  <2>2. LiveSet(p.previous_u) \subseteq Tracking(f) /\ Len(f.buffered_while_invalid) <= n
    BY <2>1, NothingDeferred DEF LiveSet, Tracking, Tracks
  <2>3. Reads(r, f.out, Tracking(f))
    BY <2>1, <2>2 DEF Reads
  <2> QED
    BY <1>3, <2>1, <2>2, <2>3 DEF Leads, f
<1> QED
  BY <1>2, <1>3

-------------------------------------------------------------------------------
(* HistoricalL2: the order of messages, and the snapshot that is found. *)

AKey == {k \in Seq(Int) : Len(k) = 5}

LEMMA JoinedKey ==
    ASSUME NEW a1 \in Int, NEW a2 \in Int, NEW a3 \in Int, NEW a4 \in Int, NEW a5 \in Int
    PROVE  LET k == <<a1, a2>> \o <<a3, a4, a5>>
           IN  /\ k \in AKey
               /\ k[1] = a1 /\ k[2] = a2 /\ k[3] = a3 /\ k[4] = a4 /\ k[5] = a5
<1> DEFINE s == <<a1, a2>>
           t == <<a3, a4, a5>>
<1>1. /\ s \in Seq(Int) /\ t \in Seq(Int) /\ Len(s) = 2 /\ Len(t) = 3
      /\ s[1] = a1 /\ s[2] = a2 /\ t[1] = a3 /\ t[2] = a4 /\ t[3] = a5
  OBVIOUS
<1> HIDE DEF s, t
<1> DEFINE k == s \o t
           N == Len(s)
           M == Len(t)
<1>2. /\ k \in Seq(Int) /\ Len(k) = N + M
      /\ \A i \in 1 .. N + M : k[i] = IF i <= N THEN s[i] ELSE t[i - N]
  BY <1>1, ConcatProperties
<1>3. N = 2 /\ M = 3
  BY <1>1
<1> HIDE DEF k, N, M
<1>4. Len(k) = 5 /\ \A i \in 1 .. 5 : k[i] = IF i <= 2 THEN s[i] ELSE t[i - 2]
  BY <1>2, <1>3
<1>5. k[1] = s[1] /\ k[2] = s[2] /\ k[3] = t[1] /\ k[4] = t[2] /\ k[5] = t[3]
  BY <1>4
<1>6. k \in AKey /\ k[1] = a1 /\ k[2] = a2 /\ k[3] = a3 /\ k[4] = a4 /\ k[5] = a5
  BY <1>1, <1>2, <1>4, <1>5 DEF AKey
<1> QED
  BY <1>6 DEF s, t, k

LEMMA Keys ==
    /\ \A m \in VendorSnapshots :
          LET k == OrderingKey(m)
          IN  /\ k \in AKey /\ k[1] = m.received_time /\ k[2] = m.depth.last_update_id
              /\ k[3] = 0 /\ k[4] = -1 /\ k[5] = -1
    /\ \A m \in UpdateMessages :
          LET k == OrderingKey(m)
          IN  /\ k \in AKey /\ k[1] = m.received_time /\ k[2] = m.depth.final_update_id
              /\ k[3] = 1
<1>1. ASSUME NEW m \in VendorSnapshots
      PROVE  LET k == OrderingKey(m)
             IN  /\ k \in AKey /\ k[1] = m.received_time /\ k[2] = m.depth.last_update_id
                 /\ k[3] = 0 /\ k[4] = -1 /\ k[5] = -1
  <2>1. /\ m.event_type = "snapshot" /\ m.received_time \in Int /\ m.depth.last_update_id \in Int
        /\ 0 \in Int /\ -1 \in Int
    BY Messages, ExchangeAssumption DEF Ids
  <2>2. OrderingKey(m) = <<m.received_time, m.depth.last_update_id>> \o <<0, -1, -1>>
    BY <2>1 DEF OrderingKey, SequenceAnchor
  <2> DEFINE time == m.received_time
             id == m.depth.last_update_id
             key == OrderingKey(m)
  <2>3. time \in Int /\ id \in Int /\ key = <<time, id>> \o <<0, -1, -1>>
    BY <2>1, <2>2
  <2> HIDE DEF time, id, key
  <2>4. /\ key \in AKey /\ key[1] = time /\ key[2] = id
        /\ key[3] = 0 /\ key[4] = -1 /\ key[5] = -1
    <3>1. ASSUME NEW c \in Int, NEW z \in Int, key = <<time, id>> \o <<z, c, c>>
          PROVE  /\ key \in AKey /\ key[1] = time /\ key[2] = id
                 /\ key[3] = z /\ key[4] = c /\ key[5] = c
      BY <2>3, <3>1, JoinedKey
    <3> QED
      BY <2>1, <2>3, <3>1
  <2> QED
    BY <2>4 DEF time, id, key
<1>2. ASSUME NEW m \in UpdateMessages
      PROVE  LET k == OrderingKey(m)
             IN  /\ k \in AKey /\ k[1] = m.received_time /\ k[2] = m.depth.final_update_id
                 /\ k[3] = 1
  <2>1. /\ m.event_type = "update" /\ m.received_time \in Int /\ m.depth.final_update_id \in Int
        /\ m.depth.first_update_id \in Int /\ m.depth.previous_final_update_id \in Int
    BY Messages, ExchangeAssumption DEF Ids
  <2>2. OrderingKey(m) = <<m.received_time, m.depth.final_update_id>>
              \o <<1, m.depth.first_update_id, m.depth.previous_final_update_id>>
    BY <2>1 DEF OrderingKey, SequenceAnchor
  <2> QED
    BY <2>1, <2>2, JoinedKey
<1> QED
  BY <1>1, <1>2

\* Two keys compared.
LEMMA KeysCompare ==
    ASSUME NEW k \in AKey, NEW l \in AKey
    PROVE  Less(k, l) <=> \/ k[1] < l[1]
                          \/ k[1] = l[1] /\ k[2] < l[2]
                          \/ k[1] = l[1] /\ k[2] = l[2] /\ k[3] < l[3]
                          \/ k[1] = l[1] /\ k[2] = l[2] /\ k[3] = l[3] /\ k[4] < l[4]
                          \/ k[1] = l[1] /\ k[2] = l[2] /\ k[3] = l[3] /\ k[4] = l[4] /\ k[5] < l[5]
<1>1. DOMAIN k = 1 .. 5
  BY DEF AKey
<1>2. Less(k, l) <=> \E i \in 1 .. 5 : k[i] < l[i] /\ \A j \in 1 .. i - 1 : k[j] = l[j]
  BY <1>1 DEF Less
<1>3. \A i \in 1 .. 5 : i = 1 \/ i = 2 \/ i = 3 \/ i = 4 \/ i = 5
  OBVIOUS
<1>4. ASSUME NEW i \in 1 .. 5
      PROVE  (\A j \in 1 .. i - 1 : k[j] = l[j]) <=>
                /\ i > 1 => k[1] = l[1]
                /\ i > 2 => k[2] = l[2]
                /\ i > 3 => k[3] = l[3]
                /\ i > 4 => k[4] = l[4]
  <2>1. \A j \in 1 .. i - 1 : j = 1 \/ j = 2 \/ j = 3 \/ j = 4
    OBVIOUS
  <2>2. /\ 1 \in 1 .. i - 1 <=> i > 1
        /\ 2 \in 1 .. i - 1 <=> i > 2
        /\ 3 \in 1 .. i - 1 <=> i > 3
        /\ 4 \in 1 .. i - 1 <=> i > 4
    OBVIOUS
  <2> QED
    BY <2>1, <2>2
<1>5. Less(k, l) <=> \E i \in 1 .. 5 : k[i] < l[i] /\ (i > 1 => k[1] = l[1])
                        /\ (i > 2 => k[2] = l[2]) /\ (i > 3 => k[3] = l[3])
                        /\ (i > 4 => k[4] = l[4])
  BY <1>2, <1>4
<1>6. 1 \in 1 .. 5 /\ 2 \in 1 .. 5 /\ 3 \in 1 .. 5 /\ 4 \in 1 .. 5 /\ 5 \in 1 .. 5
  OBVIOUS
<1> QED
  BY <1>3, <1>5, <1>6

LEMMA SnapshotsCompare ==
    ASSUME NEW m \in VendorSnapshots, NEW n \in VendorSnapshots
    PROVE  Less(OrderingKey(m), OrderingKey(n)) <=>
               \/ m.received_time < n.received_time
               \/ /\ m.received_time = n.received_time
                  /\ m.depth.last_update_id < n.depth.last_update_id
<1> DEFINE k == OrderingKey(m)
           l == OrderingKey(n)
<1>1. /\ k \in AKey /\ k[1] = m.received_time /\ k[2] = m.depth.last_update_id
      /\ k[3] = 0 /\ k[4] = -1 /\ k[5] = -1
  BY Keys
<1>2. /\ l \in AKey /\ l[1] = n.received_time /\ l[2] = n.depth.last_update_id
      /\ l[3] = 0 /\ l[4] = -1 /\ l[5] = -1
  BY Keys
<1> HIDE DEF k, l
<1>3. k[3] = l[3] /\ k[4] = l[4] /\ k[5] = l[5]
      /\ l[3] \in Int /\ l[4] \in Int /\ l[5] \in Int
  BY <1>1, <1>2
<1>4. ~(k[3] < l[3]) /\ ~(k[4] < l[4]) /\ ~(k[5] < l[5])
  BY <1>3
<1>5. Less(k, l) <=> k[1] < l[1] \/ (k[1] = l[1] /\ k[2] < l[2])
  BY <1>1, <1>2, <1>4, KeysCompare
<1> QED
  BY <1>1, <1>2, <1>5 DEF k, l

\* Some snapshot comes first in a set of them.
LEMMA FirstOfIs ==
    ASSUME NEW S \in SUBSET VendorSnapshots, S # {}
    PROVE  FirstOf(S) \in S /\ \A n \in S : ~Less(OrderingKey(n), OrderingKey(FirstOf(S)))
<1> DEFINE times == {m.received_time : m \in S}
<1>1. \A m \in S : m.received_time \in Nat /\ m.depth.last_update_id \in Nat
  BY Messages, ExchangeAssumption DEF Ids
<1>2. PICK t \in times : \A k \in times : t <= k
  <2>1. times \in SUBSET Nat /\ times # {}
    BY <1>1
  <2> HIDE DEF times
  <2> QED
    BY <2>1, LeastNumber
<1> DEFINE now == {m \in S : m.received_time = t}
           ids == {m.depth.last_update_id : m \in now}
<1>3. PICK i \in ids : \A k \in ids : i <= k
  <2>1. ids \in SUBSET Nat /\ ids # {}
    BY <1>1
  <2> HIDE DEF ids
  <2> QED
    BY <2>1, LeastNumber
<1>4. PICK m \in S : m.received_time = t /\ m.depth.last_update_id = i
  OBVIOUS
<1>5. ASSUME NEW n \in S PROVE ~Less(OrderingKey(n), OrderingKey(m))
  <2>1. t <= n.received_time
    BY <1>2
  <2>2. n.received_time = t => i <= n.depth.last_update_id
    BY <1>3
  <2>3. ~(n.received_time < m.received_time)
        /\ ~(n.received_time = m.received_time /\ n.depth.last_update_id < m.depth.last_update_id)
    <3> HIDE DEF times, ids
    <3> QED
      BY <1>1, <1>4, <2>1, <2>2
  <2> QED
    BY <2>3, SnapshotsCompare
<1>6. \E v \in S : \A n \in S : ~Less(OrderingKey(n), OrderingKey(v))
  BY <1>5
<1> QED
  BY <1>6 DEF FirstOf

\* And some snapshot comes last in a set of them that ends.
LEMMA LastOfIs ==
    ASSUME NEW S \in SUBSET VendorSnapshots, S # {}, NEW limit \in Nat,
           \A m \in S : m.received_time <= limit
    PROVE  LastOf(S) \in S
<1> DEFINE left == {limit - m.received_time : m \in S}
<1>1. \A m \in S : /\ m.received_time \in Nat /\ limit - m.received_time \in Nat
                   /\ m.depth.last_update_id \in Nat /\ MaxId - m.depth.last_update_id \in Nat
  BY Messages, ExchangeAssumption DEF Ids
<1>2. PICK t \in left : \A k \in left : t <= k
  <2>1. left \in SUBSET Nat /\ left # {}
    BY <1>1
  <2> HIDE DEF left
  <2> QED
    BY <2>1, LeastNumber
<1> DEFINE now == {m \in S : limit - m.received_time = t}
           above == {MaxId - m.depth.last_update_id : m \in now}
<1>3. PICK i \in above : \A k \in above : i <= k
  <2>1. above \in SUBSET Nat /\ above # {}
    BY <1>1
  <2> HIDE DEF above
  <2> QED
    BY <2>1, LeastNumber
<1>4. PICK m \in S : limit - m.received_time = t /\ MaxId - m.depth.last_update_id = i
  OBVIOUS
<1>5. ASSUME NEW n \in S PROVE ~Less(OrderingKey(m), OrderingKey(n))
  <2>1. t <= limit - n.received_time
    BY <1>2
  <2>2. limit - n.received_time = t => i <= MaxId - n.depth.last_update_id
    BY <1>3
  <2>3. ~(m.received_time < n.received_time)
        /\ ~(m.received_time = n.received_time /\ m.depth.last_update_id < n.depth.last_update_id)
    <3> DEFINE mtime == m.received_time
               ntime == n.received_time
               mid == m.depth.last_update_id
               nid == n.depth.last_update_id
    <3>1. mtime \in Nat /\ ntime \in Nat /\ mid \in Nat /\ nid \in Nat /\ MaxId \in Nat
      BY <1>1, ExchangeAssumption
    <3>2. limit - mtime <= limit - ntime
      BY <1>4, <2>1
    <3>3. limit - ntime = limit - mtime => MaxId - mid <= MaxId - nid
      BY <1>4, <2>2
    <3> HIDE DEF mtime, ntime, mid, nid, left, above
    <3>4. ~(mtime < ntime) /\ ~(mtime = ntime /\ mid < nid)
      BY <3>1, <3>2, <3>3
    <3> QED
      BY <3>4 DEF mtime, ntime, mid, nid
  <2> QED
    BY <2>3, SnapshotsCompare
<1>6. \E v \in S : \A n \in S : ~Less(OrderingKey(v), OrderingKey(n))
  BY <1>5
<1> QED
  BY <1>6 DEF LastOf

LEMMA DiscoverFinds ==
    ASSUME archive \subseteq VendorSnapshots, NEW allow
    PROVE  DiscoverSnapshot(allow) = NoMessage \/ DiscoverSnapshot(allow) \in archive
<1> DEFINE hits == {back \in 0 .. Lookback : Candidates(back, allow) # {}}
           found == Candidates(Min(hits), allow)
<1>1. CASE hits = {}
  BY <1>1 DEF DiscoverSnapshot
<1>2. CASE hits # {}
  <2>1. Min(hits) \in hits
    <3>1. hits \in SUBSET Nat
      BY HistoricalAssumption
    <3> HIDE DEF hits
    <3>2. PICK n \in hits : \A m \in hits : n <= m
      BY <1>2, <3>1, LeastNumber
    <3> QED
      BY <3>2 DEF Min
  <2>2. found # {} /\ found \subseteq archive
    BY <2>1 DEF Candidates
  <2>3. ~(Min(hits) = 0 /\ allow) => \A m \in found : m.received_time <= StartTime
    BY DEF Candidates
  <2>4. DiscoverSnapshot(allow) = IF Min(hits) = 0 /\ allow THEN FirstOf(found) ELSE LastOf(found)
    BY <1>2 DEF DiscoverSnapshot
  <2> HIDE DEF found, hits
  <2>5. found \in SUBSET VendorSnapshots
    BY <2>2
  <2>6. FirstOf(found) \in found
    BY <2>2, <2>5, FirstOfIs
  <2>7. ~(Min(hits) = 0 /\ allow) => LastOf(found) \in found
    BY <2>2, <2>3, <2>5, LastOfIs, HistoricalAssumption
  <2> QED
    BY <2>2, <2>4, <2>6, <2>7
<1> QED
  BY <1>1, <1>2

-------------------------------------------------------------------------------
(* HistoricalL2: the packer tracks the replay. *)

L2Inv ==
    /\ archive \subseteq VendorSnapshots
    /\ updates \in 0 .. MaxUpdates
    /\ stage \in {"discover", "blocked_no_snapshot", "stream", "packed"}
    /\ stage = "discover" => replay = NewReplay
    /\ stage \in {"stream", "packed"} =>
          Ready(packer, replay) /\ Len(packer.buffered_while_invalid) <= updates

\* What Wrote makes of a call of the packer.
LEMMA WroteLeads ==
    ASSUME NEW q, NEW n, Leads(q, replay, n), Wrote(q)
    PROVE  Ready(packer', replay') /\ Len(packer'.buffered_while_invalid) <= n
           /\ packer' = [q EXCEPT !.out = <<>>]
<1> DEFINE after == ReadAll(replay, q.out)
           r == replay'
<1>1. q \in Packers /\ q.out \in Seq(Records) /\ Held(q)
      /\ Len(q.buffered_while_invalid) <= n /\ Reads(replay, q.out, Tracking(q))
  BY DEF Leads, Packers
<1>2. after \in Tracking(q)
  BY <1>1, ReadsAll
<1>3. packer' = [q EXCEPT !.out = <<>>] /\ ds' = after.sync /\ connected' = after.depth_connected
  BY DEF Wrote
<1>4. r = after
  <2>1. after \in Replayers /\ r = [sync |-> ds', depth_connected |-> connected']
    BY <1>2 DEF Tracking, replay
  <2> HIDE DEF after, r
  <2> QED
    BY <1>3, <2>1 DEF Replayers
<1> HIDE DEF after, r
<1>5. Tracks(q, r)
  BY <1>2, <1>4 DEF Tracking
<1>6. /\ packer' \in Packers /\ packer'.out = <<>> /\ packer'.state = q.state
      /\ packer'.previous_u = q.previous_u /\ packer'.snapshot_anchor = q.snapshot_anchor
      /\ packer'.buffered_while_invalid = q.buffered_while_invalid
      /\ packer'.pending_live_snapshot = q.pending_live_snapshot
      /\ packer'.deferred_live_updates = q.deferred_live_updates
  BY <1>1, <1>3, NothingDeferred DEF Packers
<1>7. Held(packer') /\ Tracks(packer', r)
  BY <1>1, <1>5, <1>6 DEF Held, Tracks
<1> QED
  BY <1>1, <1>3, <1>6, <1>7 DEF Ready, r

LEMMA L2Init == HInit => L2Inv
<1> SUFFICES ASSUME HInit PROVE L2Inv
  OBVIOUS
<1>1. archive \subseteq VendorSnapshots
  <2>1. archive = {} \/ \E s \in [1 .. MaxSnapshots -> VendorSnapshots] : archive = Range(s)
    BY DEF HInit
  <2> QED
    BY <2>1 DEF Range
<1>2. replay = NewReplay
  BY DEF HInit, replay, NewReplay
<1> QED
  BY <1>1, <1>2, HistoricalAssumption DEF HInit, L2Inv

LEMMA L2Next == AlwaysQuoted /\ RoomForAll /\ L2Inv /\ [HNext]_hvars => L2Inv'
<1> SUFFICES ASSUME AlwaysQuoted, RoomForAll, L2Inv, [HNext]_hvars PROVE L2Inv'
  OBVIOUS
<1>1. /\ archive \subseteq VendorSnapshots /\ updates \in 0 .. MaxUpdates /\ updates \in Nat
      /\ MaxUpdates \in Nat /\ MaxBufferedEvents \in Nat
  BY HistoricalAssumption, BufferAssumption DEF L2Inv
<1>2. ASSUME NEW allow \in BOOLEAN, Discover(allow) PROVE L2Inv'
  <2> DEFINE found == DiscoverSnapshot(allow)
  <2>1. stage = "discover" /\ updates' = updates /\ replay = NewReplay
    BY <1>2 DEF Discover, L2Inv
  <2>2. CASE found = NoMessage
    <3>1. stage' = "blocked_no_snapshot" /\ archive' = archive
      BY <1>2, <2>2 DEF Discover
    <3> QED
      BY <1>1, <2>1, <3>1 DEF L2Inv
  <2>3. CASE found # NoMessage
    <3>1. found \in VendorSnapshots
      BY <1>1, <2>3, DiscoverFinds
    <3>2. stage' = "stream" /\ archive' \subseteq archive /\ Wrote(NewPacker(found))
      BY <1>2, <2>3 DEF Discover
    <3> HIDE DEF found
    <3>3. Leads(NewPacker(found), replay, updates)
      BY <1>1, <2>1, <3>1, NewPackerLeads
    <3>4. Ready(packer', replay') /\ Len(packer'.buffered_while_invalid) <= updates
      BY <3>2, <3>3, WroteLeads
    <3> QED
      BY <1>1, <2>1, <3>2, <3>4 DEF L2Inv
  <2> QED
    BY <2>2, <2>3
<1>3. ASSUME NextSnapshot PROVE L2Inv'
  <2> DEFINE m == FirstOf(archive)
  <2>1. stage = "stream" /\ archive # {} /\ Read(m) /\ archive' \subseteq archive
        /\ updates' = updates /\ stage' = stage /\ Wrote(Pack(packer, m))
    BY <1>3 DEF NextSnapshot, Read
  <2>2. m \in VendorSnapshots
    BY <1>1, <2>1, FirstOfIs
  <2> HIDE DEF m
  <2>3. Leads(Pack(packer, m), replay, updates)
    BY <1>1, <2>1, <2>2, PackLeads DEF L2Inv
  <2>4. Ready(packer', replay') /\ Len(packer'.buffered_while_invalid) <= updates
    BY <2>1, <2>3, WroteLeads
  <2> QED
    BY <1>1, <2>1, <2>4 DEF L2Inv
<1>4. ASSUME NEW time \in Times, NEW event \in Depths, NextUpdate(UpdateMessage(time, event))
      PROVE  L2Inv'
  <2> DEFINE m == UpdateMessage(time, event)
  <2>1. stage = "stream" /\ updates < MaxUpdates /\ archive' = archive
        /\ updates' = updates + 1 /\ stage' = stage /\ Wrote(Pack(packer, m))
    BY <1>4 DEF NextUpdate, Read
  <2>2. m \in UpdateMessages
    BY DEF UpdateMessages
  <2> HIDE DEF m
  <2>3. updates + 1 <= MaxBufferedEvents /\ updates + 1 \in 0 .. MaxUpdates
    BY <1>1, <2>1 DEF RoomForAll
  <2>4. Leads(Pack(packer, m), replay, updates + 1)
    BY <1>1, <2>1, <2>2, <2>3, PackLeads DEF L2Inv
  <2>5. Ready(packer', replay') /\ Len(packer'.buffered_while_invalid) <= updates + 1
    BY <2>1, <2>4, WroteLeads
  <2> QED
    BY <1>1, <2>1, <2>3, <2>5 DEF L2Inv
<1>5. ASSUME CloseFile PROVE L2Inv'
  <2> DEFINE q == IF packer.state = "live" THEN FlushDeferred(packer) ELSE packer
  <2>1. stage = "stream" /\ stage' = "packed" /\ archive' = archive /\ updates' = updates
        /\ Wrote(q)
    BY <1>5 DEF CloseFile
  <2>2. Leads(q, replay, updates)
    BY <1>1, <2>1, CloseLeads DEF L2Inv
  <2> HIDE DEF q
  <2>3. Ready(packer', replay') /\ Len(packer'.buffered_while_invalid) <= updates
    BY <2>1, <2>2, WroteLeads
  <2> QED
    BY <1>1, <2>1, <2>3 DEF L2Inv
<1>6. CASE UNCHANGED hvars
  <2>1. /\ UNCHANGED <<ds, archive, stage, updates, packer, connected>>
    BY <1>6 DEF hvars
  <2>2. replay' = replay
    BY <2>1 DEF replay
  <2> QED
    BY <2>1, <2>2 DEF L2Inv
<1> QED
  BY <1>2, <1>3, <1>4, <1>5, <1>6 DEF HNext

LEMMA L2Safe == L2Inv => PackerTracksReplay
<1> SUFFICES ASSUME L2Inv, stage \in {"stream", "packed"}
             PROVE  LET deferred == packer.deferred_live_updates
                    IN  CASE packer.state = "live" ->
                                /\ ShowsBook(replay)
                                /\ ds.book.last_update_id =
                                       IF deferred = <<>> THEN packer.previous_u
                                       ELSE Head(deferred).depth.previous_final_update_id
                          [] packer.state = "awaiting_bridge" ->
                                /\ ds.state = "Syncing"
                                /\ ds.book.last_update_id = packer.snapshot_anchor
                          [] packer.state = "invalid" ->
                                /\ ds.state \in {"GapDetected", "Resyncing"}
                                /\ ds.buffer = packer.buffered_while_invalid
  BY DEF PackerTracksReplay
<1>1. /\ packer.state \in {"live", "awaiting_bridge", "invalid"}
      /\ Tracks(packer, replay) /\ replay.sync = ds
  BY DEF L2Inv, Ready, Packers, replay
<1>2. packer.state = "live" =>
          /\ ShowsBook(replay)
          /\ ds.book.last_update_id =
                 IF packer.deferred_live_updates = <<>> THEN packer.previous_u
                 ELSE Head(packer.deferred_live_updates).depth.previous_final_update_id
  BY <1>1 DEF Tracks, LiveAt, Replays, ShowsBook
<1>3. packer.state = "awaiting_bridge" =>
          ds.state = "Syncing" /\ ds.book.last_update_id = packer.snapshot_anchor
  BY <1>1 DEF Tracks, AwaitingAt
<1>4. packer.state = "invalid" =>
          ds.state \in {"GapDetected", "Resyncing"} /\ ds.buffer = packer.buffered_while_invalid
  BY <1>1 DEF Tracks, InvalidWith
<1> QED
  BY <1>1, <1>2, <1>3, <1>4

\* PackerTracksReplay (pack_for_existing_cpp_pipeline): the state the packer
\* keeps is the one the DepthSynchronizer is in that replays the raw file, for
\* every stream of at most as many updates as its buffer holds.
THEOREM PackerTracks ==
    ASSUME AlwaysQuoted, RoomForAll
    PROVE  HSpec => []PackerTracksReplay
<1>1. AlwaysQuoted /\ RoomForAll
  OBVIOUS
<1>2. L2Inv /\ [HNext]_hvars => L2Inv'
  BY L2Next
<1> QED
  BY <1>2, L2Init, L2Safe, PTL DEF HSpec

-------------------------------------------------------------------------------
(* HistoricalL2: messages come in the order of their keys. *)

LEMMA KeysOrdered ==
    /\ \A a, b, c \in AKey : ~Less(b, a) /\ ~Less(c, b) => ~Less(c, a)
    /\ \A a, b \in AKey : Less(a, b) => ~Less(b, a)
    /\ \A a, b \in AKey : ~Less(b, a) => a[1] <= b[1]
    /\ \A a \in AKey : ~Less(a, a)
<1>1. \A a \in AKey : a[1] \in Int /\ a[2] \in Int /\ a[3] \in Int /\ a[4] \in Int /\ a[5] \in Int
  <2> SUFFICES ASSUME NEW a \in AKey
               PROVE  /\ a[1] \in Int /\ a[2] \in Int /\ a[3] \in Int
                      /\ a[4] \in Int /\ a[5] \in Int
    OBVIOUS
  <2>1. a \in Seq(Int) /\ Len(a) = 5
    BY DEF AKey
  <2>2. \A i \in 1 .. Len(a) : a[i] \in Int
    BY <2>1, ElementOfSeq
  <2>3. \A i \in 1 .. 5 : a[i] \in Int
    BY <2>1, <2>2
  <2>4. 1 \in 1 .. 5 /\ 2 \in 1 .. 5 /\ 3 \in 1 .. 5 /\ 4 \in 1 .. 5 /\ 5 \in 1 .. 5
    OBVIOUS
  <2> QED
    BY <2>3, <2>4
<1>2. ASSUME NEW a \in AKey, NEW b \in AKey, NEW c \in AKey, ~Less(b, a), ~Less(c, b)
      PROVE  ~Less(c, a)
  BY <1>1, <1>2, KeysCompare
<1>3. ASSUME NEW a \in AKey, NEW b \in AKey, Less(a, b)
      PROVE  ~Less(b, a)
  BY <1>1, <1>3, KeysCompare
<1>4. ASSUME NEW a \in AKey, NEW b \in AKey, ~Less(b, a)
      PROVE  a[1] <= b[1]
  BY <1>1, <1>4, KeysCompare
<1> QED
  BY <1>2, <1>3, <1>4

\* What is still to come is not older than what was read, and nothing that is
\* read is older than the selected snapshot.
OrderInv ==
    /\ archive \subseteq VendorSnapshots
    /\ stage = "discover" => written = <<>> /\ in_order = TRUE
    /\ stage \in {"stream", "packed"} =>
          /\ initial \in VendorSnapshots /\ cursor \in AKey
          /\ ~Less(cursor, OrderingKey(initial))
          /\ \A s \in archive : ~Less(OrderingKey(s), cursor)

\* A step of an open stream reads a message or ends it.
LEMMA StreamSteps ==
    ASSUME OrderInv, [HNext]_hvars, stage \in {"stream", "packed"}
    PROVE  \/ UNCHANGED hvars
           \/ CloseFile
           \/ \E m \in VendorSnapshots \cup UpdateMessages :
                 /\ stage = "stream" /\ stage' = "stream" /\ initial' = initial
                 /\ Read(m) /\ ~Less(OrderingKey(m), cursor)
                 /\ \A s \in archive' : s \in archive /\ ~Less(OrderingKey(s), OrderingKey(m))
<1>1. CASE NextSnapshot
  <2> DEFINE m == FirstOf(archive)
  <2>1. /\ m \in archive /\ archive \subseteq VendorSnapshots
        /\ \A n \in archive : ~Less(OrderingKey(n), OrderingKey(m))
    BY <1>1, FirstOfIs DEF NextSnapshot, OrderInv
  <2>2. /\ stage = "stream" /\ Read(m) /\ archive' \subseteq archive
        /\ stage' = stage /\ initial' = initial
    BY <1>1 DEF NextSnapshot, Read
  <2> HIDE DEF m
  <2> QED
    BY <2>1, <2>2 DEF OrderInv
<1>2. ASSUME NEW time \in Times, NEW event \in Depths, NextUpdate(UpdateMessage(time, event))
      PROVE  \E m \in VendorSnapshots \cup UpdateMessages :
                 /\ stage = "stream" /\ stage' = "stream" /\ initial' = initial
                 /\ Read(m) /\ ~Less(OrderingKey(m), cursor)
                 /\ \A s \in archive' : s \in archive /\ ~Less(OrderingKey(s), OrderingKey(m))
  <2> DEFINE m == UpdateMessage(time, event)
  <2>1. m \in UpdateMessages
    BY DEF UpdateMessages
  <2>2. /\ stage = "stream" /\ Read(m) /\ archive' = archive
        /\ stage' = stage /\ initial' = initial /\ ~Less(OrderingKey(m), cursor)
        /\ \A s \in archive : Less(OrderingKey(m), OrderingKey(s))
    BY <1>2 DEF NextUpdate, Read
  <2> HIDE DEF m
  <2>3. \A s \in archive : ~Less(OrderingKey(s), OrderingKey(m))
    BY <2>1, <2>2, Keys, KeysOrdered DEF OrderInv
  <2> QED
    BY <2>1, <2>2, <2>3
<1>3. ASSUME NEW allow \in BOOLEAN, Discover(allow) PROVE FALSE
  BY <1>3 DEF Discover
<1> QED
  BY <1>1, <1>2, <1>3 DEF HNext

LEMMA OrderNext == OrderInv /\ [HNext]_hvars => OrderInv'
<1> SUFFICES ASSUME OrderInv, [HNext]_hvars PROVE OrderInv'
  OBVIOUS
<1>1. CASE stage \in {"stream", "packed"}
  <2>0. /\ initial \in VendorSnapshots /\ cursor \in AKey
        /\ ~Less(cursor, OrderingKey(initial)) /\ OrderingKey(initial) \in AKey
        /\ \A s \in archive : ~Less(OrderingKey(s), cursor)
    BY <1>1, Keys DEF OrderInv
  <2>9. archive \subseteq VendorSnapshots
    BY DEF OrderInv
  <2>1. CASE UNCHANGED hvars
    BY <2>1 DEF hvars, OrderInv
  <2>2. CASE CloseFile
    BY <2>0, <2>9, <2>2 DEF CloseFile, OrderInv
  <2>3. ASSUME NEW m \in VendorSnapshots \cup UpdateMessages,
               stage' = "stream", initial' = initial, Read(m), ~Less(OrderingKey(m), cursor),
               \A s \in archive' : s \in archive /\ ~Less(OrderingKey(s), OrderingKey(m))
        PROVE  OrderInv'
    <3>1. OrderingKey(m) \in AKey
      BY Keys
    <3>2. cursor' = OrderingKey(m)
      BY <2>3 DEF Read
    <3>3. ~Less(OrderingKey(m), OrderingKey(initial))
      BY <2>0, <2>3, <3>1, KeysOrdered
    <3>4. OrderingKey(initial)' = OrderingKey(initial)
      BY <2>3 DEF OrderingKey, SequenceAnchor
    <3>5. \A s \in archive' : ~Less(OrderingKey(s), cursor')
      BY <2>3, <3>2
    <3>6. initial' \in VendorSnapshots /\ cursor' \in AKey /\ ~Less(cursor', OrderingKey(initial'))
      BY <2>0, <2>3, <3>1, <3>2, <3>3
    <3> QED
      BY <2>9, <2>3, <3>5, <3>6 DEF OrderInv, VendorSnapshots
  <2> QED
    BY <1>1, <2>1, <2>2, <2>3, StreamSteps
<1>2. CASE stage \notin {"stream", "packed"}
  <2>1. CASE UNCHANGED hvars
    BY <2>1 DEF hvars, OrderInv
  <2>2. ASSUME NEW allow \in BOOLEAN, Discover(allow) PROVE OrderInv'
    <3> DEFINE found == DiscoverSnapshot(allow)
    <3>1. CASE found = NoMessage
      BY <2>2, <3>1 DEF Discover, OrderInv
    <3>2. CASE found # NoMessage
      <4>1. found \in VendorSnapshots
        BY <3>2, DiscoverFinds DEF OrderInv
      <4>2. /\ stage' = "stream" /\ initial' = found /\ cursor' = OrderingKey(found)
            /\ archive' = {n \in archive : ~Less(OrderingKey(n), cursor')}
        BY <2>2, <3>2 DEF Discover
      <4> HIDE DEF found
      <4>3. cursor' \in AKey /\ ~Less(cursor', OrderingKey(initial'))
        BY <4>1, <4>2, Keys, KeysOrdered
      <4> QED
        BY <4>1, <4>2, <4>3 DEF OrderInv
    <3> QED
      BY <3>1, <3>2
  <2> QED
    BY <1>2, <2>1, <2>2 DEF HNext, NextSnapshot, NextUpdate, CloseFile
<1> QED
  BY <1>1, <1>2

LEMMA OrderInit == HInit => OrderInv
<1> SUFFICES ASSUME HInit PROVE OrderInv
  OBVIOUS
<1>1. archive \subseteq VendorSnapshots
  <2>1. archive = {} \/ \E s \in [1 .. MaxSnapshots -> VendorSnapshots] : archive = Range(s)
    BY DEF HInit
  <2> QED
    BY <2>1 DEF Range
<1> QED
  BY <1>1 DEF HInit, OrderInv

-------------------------------------------------------------------------------
(* HistoricalL2: the stamps of the raw file. *)

\* Records between two times, none before another but a close.
Stamps(s, lo, hi) ==
    /\ \A i \in 1 .. Len(s) : /\ s[i].stamp <= hi
                              /\ s[i].type # "ConnectionClose" => lo <= s[i].stamp
    /\ \A i, j \in 1 .. Len(s) : i < j => s[i].stamp <= s[j].stamp

\* What a packer holds back was received between two times.
Stamped(p, lo, hi) ==
    LET d == p.deferred_live_updates
    IN  /\ p.last_update_received <= hi
        /\ \A i \in 1 .. Len(d) : lo <= d[i].received_time /\ d[i].received_time <= hi
        /\ \A i, j \in 1 .. Len(d) : i < j => d[i].received_time <= d[j].received_time

\* A call of the packer with what it wrote and what it holds back.
Advances(q, lo, hi) ==
    /\ q \in Packers /\ Held(q)
    /\ Stamps(q.out, lo, hi)
    /\ Stamped(q, IF q.out = <<>> THEN lo ELSE Last(q.out).stamp, hi)

LEMMA RecordStamps ==
    /\ \A t : OpenRecord(t).stamp = t /\ CloseRecord(t).stamp = t
    /\ \A t, m : SnapshotRecord(t, m).stamp = t
    /\ \A m : UpdateRecord(m).stamp = m.received_time
    /\ \A v \in Records : v.stamp \in Nat
<1>1. /\ \A t : OpenRecord(t).stamp = t /\ CloseRecord(t).stamp = t
      /\ \A t, m : SnapshotRecord(t, m).stamp = t
      /\ \A m : UpdateRecord(m).stamp = m.received_time
  BY DEF OpenRecord, CloseRecord, SnapshotRecord, UpdateRecord
<1>2. ASSUME NEW v \in Records PROVE v.stamp \in Nat
  <2>1. \/ \E t \in Nat : v = OpenRecord(t) \/ v = CloseRecord(t)
        \/ \E t \in Nat, m \in VendorSnapshots : v = SnapshotRecord(t, m)
        \/ \E m \in UpdateMessages : v = UpdateRecord(m)
    BY DEF Records
  <2> QED
    BY <1>1, <2>1, Messages
<1> QED
  BY <1>1, <1>2

LEMMA StampsNil == \A lo, hi : Stamps(<<>>, lo, hi)
  BY DEF Stamps

LEMMA StampsLater ==
    ASSUME NEW s \in Seq(Records), NEW lo \in Nat, NEW hi \in Nat, Stamps(s, lo, hi),
           NEW now \in Nat, hi <= now
    PROVE  Stamps(s, lo, now)
<1>1. \A i \in 1 .. Len(s) : s[i].stamp \in Nat
  BY RecordStamps
<1>2. ASSUME NEW i \in 1 .. Len(s)
      PROVE  /\ s[i].stamp <= now
             /\ s[i].type # "ConnectionClose" => lo <= s[i].stamp
  <2>1. s[i].stamp \in Nat
    BY <1>1
  <2>2. s[i].stamp <= hi /\ (s[i].type # "ConnectionClose" => lo <= s[i].stamp)
    BY DEF Stamps
  <2>3. s[i].stamp <= now
    BY <2>1, <2>2
  <2> QED
    BY <2>2, <2>3
<1>3. \A i, j \in 1 .. Len(s) : i < j => s[i].stamp <= s[j].stamp
  BY DEF Stamps
<1> QED
  BY <1>2, <1>3 DEF Stamps

LEMMA StampsAppend ==
    ASSUME NEW s \in Seq(Records), NEW lo \in Nat, NEW hi \in Nat, Stamps(s, lo, hi),
           NEW record \in Records, hi <= record.stamp,
           record.type # "ConnectionClose" => lo <= record.stamp
    PROVE  Stamps(Append(s, record), lo, record.stamp)
<1> DEFINE N == Len(s)
           longer == Append(s, record)
<1>1. /\ N \in Nat /\ Len(longer) = N + 1 /\ longer[N + 1] = record
      /\ \A i \in 1 .. N : longer[i] = s[i] /\ s[i] \in Records
  OBVIOUS
<1>2. record.stamp \in Nat /\ \A i \in 1 .. N : s[i].stamp \in Nat /\ s[i].stamp <= hi
  BY <1>1, RecordStamps DEF Stamps
<1> HIDE DEF longer
<1>3. ASSUME NEW i \in 1 .. N + 1
      PROVE  /\ longer[i].stamp <= record.stamp
             /\ longer[i].type # "ConnectionClose" => lo <= longer[i].stamp
  <2>1. CASE i = N + 1
    BY <1>1, <1>2, <2>1
  <2>2. CASE i # N + 1
    <3>1. i \in 1 .. N
      BY <1>1, <2>2
    <3> QED
      BY <1>1, <1>2, <3>1 DEF Stamps
  <2> QED
    BY <2>1, <2>2
<1>4. ASSUME NEW i \in 1 .. N + 1, NEW j \in 1 .. N + 1, i < j
      PROVE  longer[i].stamp <= longer[j].stamp
  <2>1. CASE j = N + 1
    BY <1>1, <1>3, <2>1
  <2>2. CASE j # N + 1
    <3>1. i \in 1 .. N /\ j \in 1 .. N
      BY <1>1, <1>4, <2>2
    <3> QED
      BY <1>1, <1>4, <3>1 DEF Stamps
  <2> QED
    BY <2>1, <2>2
<1> QED
  BY <1>1, <1>3, <1>4 DEF Stamps, longer

\* A packer that holds nothing back.
LEMMA NothingBack ==
    ASSUME NEW q \in Packers, Held(q), q.deferred_live_updates = <<>>, NEW lo, NEW hi \in Nat,
           q.last_update_received <= hi, Stamps(q.out, lo, hi)
    PROVE  Advances(q, lo, hi)
  BY DEF Advances, Stamped

\* One that wrote nothing.
LEMMA NothingWritten ==
    ASSUME NEW p \in Packers, Held(p), p.out = <<>>, NEW lo \in Nat, NEW hi \in Nat,
           Stamped(p, lo, hi), NEW now \in Nat, hi <= now
    PROVE  Advances(p, lo, now)
<1> DEFINE d == p.deferred_live_updates
<1>1. d \in Seq(UpdateMessages) /\ p.last_update_received \in Nat
  BY DEF Packers
<1>2. \A i \in 1 .. Len(d) : d[i].received_time \in Nat
  <2>1. \A i \in 1 .. Len(d) : d[i] \in UpdateMessages
    BY <1>1
  <2> HIDE DEF d
  <2> QED
    BY <2>1, Messages
<1> QED
  BY <1>1, <1>2, StampsNil DEF Advances, Stamped

LEMMA FlushedStamps ==
    ASSUME NEW p \in Packers, Held(p), p.out = <<>>, NEW lo \in Nat, NEW hi \in Nat,
           Stamped(p, lo, hi)
    PROVE  LET f == FlushDeferred(p)
           IN  /\ f.out \in Seq(Records) /\ f.last_update_received \in Nat
               /\ f.last_update_received <= hi /\ f.deferred_live_updates = <<>>
               /\ Stamps(f.out, lo, f.last_update_received)
               /\ f \in Packers /\ Held(f) /\ f.pending_live_snapshot = p.pending_live_snapshot
               /\ f.snapshot_anchor = p.snapshot_anchor /\ f.previous_u = p.previous_u
               /\ f.state = p.state
               /\ f.buffered_while_invalid = p.buffered_while_invalid
<1> DEFINE d == p.deferred_live_updates
           N == Len(d)
           flushed == [i \in DOMAIN d |-> UpdateRecord(d[i])]
           received == IF d = <<>> THEN p.last_update_received ELSE Last(d).received_time
           f == FlushDeferred(p)
<1>1. /\ d \in Seq(UpdateMessages) /\ p.last_update_received \in Nat /\ p.out \in Seq(Records)
      /\ N \in Nat /\ DOMAIN d = 1 .. N
  BY DEF Packers
<1>2. \A i \in 1 .. N : d[i] \in UpdateMessages /\ d[i].received_time \in Nat
  <2>1. \A i \in 1 .. N : d[i] \in UpdateMessages
    BY <1>1
  <2> HIDE DEF d, N
  <2> QED
    BY <2>1, Messages
<1>3. /\ flushed \in Seq(Records) /\ Len(flushed) = N
      /\ \A i \in 1 .. N : flushed[i].stamp = d[i].received_time
  <2>1. flushed \in [1 .. N -> Records]
    BY <1>1, <1>2, RecordTypes
  <2>2. \A i \in 1 .. N : flushed[i] = UpdateRecord(d[i])
    BY <1>1
  <2>3. flushed \in Seq(Records) /\ Len(flushed) = N
    BY <1>1, <2>1
  <2> HIDE DEF flushed
  <2> QED
    BY <2>2, <2>3, RecordStamps
<1>4. received \in Nat /\ received <= hi /\ \A i \in 1 .. N : d[i].received_time <= received
  <2>1. CASE d = <<>>
    BY <1>1, <2>1 DEF Stamped
  <2>2. CASE d # <<>>
    <3>1. N \in 1 .. N /\ received = d[N].received_time
      BY <1>1, <2>2 DEF Last
    <3>2. received \in Nat /\ received <= hi
      BY <1>2, <3>1 DEF Stamped
    <3>3. ASSUME NEW i \in 1 .. N PROVE d[i].received_time <= received
      <4>1. CASE i = N
        BY <1>2, <3>1, <4>1
      <4>2. CASE i # N
        <5>1. i < N
          BY <1>1, <4>2
        <5> QED
          BY <3>1, <5>1 DEF Stamped
      <4> QED
        BY <4>1, <4>2
    <3> QED
      BY <3>2, <3>3
  <2> QED
    BY <2>1, <2>2
<1>5. f = [p EXCEPT !.out = p.out \o flushed, !.last_update_received = received,
                    !.deferred_live_updates = <<>>]
  BY DEF FlushDeferred
<1> HIDE DEF flushed, received
<1>6. p.out \o flushed = flushed
  BY <1>3
<1>7. Stamps(flushed, lo, received)
  BY <1>2, <1>3, <1>4 DEF Stamps, Stamped
<1>8. /\ f.out = flushed /\ f.last_update_received = received /\ f.deferred_live_updates = <<>>
      /\ f \in Packers /\ f.pending_live_snapshot = p.pending_live_snapshot
      /\ f.snapshot_anchor = p.snapshot_anchor /\ f.previous_u = p.previous_u
      /\ f.state = p.state
      /\ f.buffered_while_invalid = p.buffered_while_invalid
  <2> HIDE DEF f
  <2> QED
    BY <1>3, <1>4, <1>5, <1>6, NothingDeferred DEF Packers
<1> HIDE DEF f
<1>9. Held(f)
  BY <1>8, NothingDeferred DEF Held
<1> QED
  BY <1>3, <1>4, <1>7, <1>8, <1>9 DEF f

\* The operations, one by one.
LEMMA EmittedStamps ==
    ASSUME NEW g \in Packers, g.deferred_live_updates = <<>>, NEW lo \in Nat, NEW hi \in Nat,
           Stamps(g.out, lo, hi), lo <= hi, NEW m \in UpdateMessages, hi <= m.received_time
    PROVE  LET e == EmitUpdate(g, m)
           IN  /\ e \in Packers /\ e.deferred_live_updates = <<>>
               /\ e.last_update_received = m.received_time
               /\ Stamps(e.out, lo, m.received_time)
               /\ e.state = g.state /\ e.snapshot_anchor = g.snapshot_anchor
               /\ e.previous_u = g.previous_u
               /\ e.buffered_while_invalid = g.buffered_while_invalid
               /\ e.pending_live_snapshot = g.pending_live_snapshot
<1> DEFINE record == UpdateRecord(m)
           e == EmitUpdate(g, m)
<1>1. /\ m.received_time \in Nat /\ record \in Records /\ record.stamp = m.received_time
      /\ g.out \in Seq(Records)
  BY Messages, RecordTypes, RecordStamps DEF Packers
<1>2. Stamps(Append(g.out, record), lo, record.stamp)
  <2>1. hi <= record.stamp /\ lo <= record.stamp
    <3> HIDE DEF record
    <3> QED
      BY <1>1
  <2> HIDE DEF record
  <2> QED
    BY <1>1, <2>1, StampsAppend
<1>3. Append(g.out, record) \in Seq(Records)
  BY <1>1
<1>4. e = [g EXCEPT !.out = Append(g.out, record), !.last_update_received = m.received_time]
  BY DEF EmitUpdate, Packers
<1> HIDE DEF record, e
<1> QED
  BY <1>1, <1>2, <1>3, <1>4 DEF Packers, e

LEMMA SnapshotStamps ==
    ASSUME NEW p \in Packers, p.out = <<>>, Held(p), NEW lo \in Nat, NEW hi \in Nat, lo <= hi,
           Stamped(p, lo, hi), NEW m \in VendorSnapshots, hi <= m.received_time
    PROVE  Advances(PackSnapshot(p, m), lo, m.received_time)
<1> DEFINE now == m.received_time
           id == m.depth.last_update_id
           f == FlushDeferred(p)
           kept == [p EXCEPT !.pending_live_snapshot = m]
           flushed == [f EXCEPT !.pending_live_snapshot = m]
           record == SnapshotRecord(now, m)
           shown == [p EXCEPT !.out = Append(@, record)]
           q == Realign(shown, id)
<1>1. /\ now \in Nat /\ record \in Records /\ record.stamp = now /\ p.last_update_received \in Nat
      /\ p.out \in Seq(Records)
  BY Messages, RecordTypes, RecordStamps DEF Packers
<1>2. Advances(p, lo, now)
  BY <1>1, NothingWritten
<1>3. ASSUME p.state = "live" PROVE Advances(kept, lo, now)
  <2>1. /\ kept \in Packers /\ kept.out = <<>> /\ kept.state = p.state
        /\ kept.previous_u = p.previous_u /\ kept.pending_live_snapshot # NoMessage
        /\ kept.buffered_while_invalid = p.buffered_while_invalid
        /\ kept.deferred_live_updates = p.deferred_live_updates
        /\ kept.last_update_received = p.last_update_received
    BY Messages DEF Packers
  <2> HIDE DEF kept
  <2>2. Stamped(kept, lo, hi) /\ Held(kept)
    BY <1>3, <2>1 DEF Stamped, Held
  <2> QED
    BY <1>1, <2>1, <2>2, NothingWritten
<1>4. ASSUME p.state = "live" PROVE Advances(flushed, lo, now)
  <2>1. /\ f.out \in Seq(Records) /\ f.last_update_received \in Nat
        /\ f.last_update_received <= hi /\ f.deferred_live_updates = <<>>
        /\ Stamps(f.out, lo, f.last_update_received) /\ f \in Packers
        /\ f.state = "live" /\ f.buffered_while_invalid = p.buffered_while_invalid
    BY <1>4, FlushedStamps
  <2> HIDE DEF f
  <2>2. /\ flushed.out = f.out /\ flushed.deferred_live_updates = <<>>
        /\ flushed.last_update_received = f.last_update_received
        /\ flushed.state = "live" /\ flushed \in Packers
        /\ flushed.buffered_while_invalid = p.buffered_while_invalid
    BY <2>1 DEF Packers
  <2> HIDE DEF flushed
  <2>5. Held(flushed)
    BY <1>4, <2>2, NothingDeferred DEF Held
  <2>3. Stamps(f.out, lo, now)
    BY <1>1, <2>1, StampsLater
  <2>4. f.last_update_received <= now
    BY <1>1, <2>1
  <2> QED
    BY <1>1, <2>2, <2>3, <2>4, <2>5, NothingBack
<1>5. ASSUME p.state # "live" PROVE Advances(q, lo, now)
  <2>1. /\ q \in Packers /\ Held(q) /\ q.out = Append(<<>>, record)
        /\ q.deferred_live_updates = <<>> /\ q.last_update_received = p.last_update_received
    BY <1>5, RealignIs
  <2> HIDE DEF q, record
  <2>4. Stamps(Append(<<>>, record), lo, now)
    <3>1. Stamps(<<>>, lo, hi) /\ hi <= record.stamp /\ lo <= record.stamp
      BY <1>1, StampsNil
    <3> QED
      BY <1>1, <3>1, StampsAppend, NothingDeferred
  <2>5. q.last_update_received <= now
    BY <1>1, <2>1 DEF Stamped
  <2> QED
    BY <1>1, <2>1, <2>4, <2>5, NothingBack
<1>6. \/ PackSnapshot(p, m) = p
      \/ p.state = "live" /\ PackSnapshot(p, m) \in {kept, flushed}
      \/ p.state # "live" /\ PackSnapshot(p, m) = q
  BY DEF PackSnapshot, PackLiveSnapshot
<1> HIDE DEF kept, flushed, q
<1> QED
  BY <1>2, <1>3, <1>4, <1>5, <1>6

LEMMA CoveredGapStamps ==
    ASSUME NEW p \in Packers, p.out = <<>>, Held(p), p.state = "live",
           NEW lo \in Nat, NEW hi \in Nat, lo <= hi,
           Stamped(p, lo, hi), NEW m \in UpdateMessages, hi <= m.received_time,
           p.pending_live_snapshot # NoMessage
    PROVE  Advances(PackCoveredGap(p, m), lo, m.received_time)
<1> DEFINE now == m.received_time
           f == FlushDeferred(p)
           before == f.last_update_received
           last == IF before = 0 THEN now ELSE before
           at == Min({last + 1, now})
           pending == p.pending_live_snapshot
           closing == CloseRecord(at)
           first_open == OpenRecord(now)
           showing == SnapshotRecord(now, pending)
           one == Append(f.out, closing)
           two == Append(one, first_open)
           three == Append(two, showing)
           g == [f EXCEPT !.out = three]
           e == EmitUpdate(g, m)
           q == PackCoveredGap(p, m)
<1>1. /\ f.out \in Seq(Records) /\ before \in Nat /\ before <= hi
      /\ f.deferred_live_updates = <<>> /\ Stamps(f.out, lo, before) /\ f \in Packers
      /\ f.state = "live" /\ f.buffered_while_invalid = <<>>
  BY FlushedStamps DEF Held
<1>2. now \in Nat /\ pending \in VendorSnapshots
  BY Messages DEF Packers
<1> HIDE DEF f, before, now
<1>3. at \in Nat /\ before <= at /\ at <= now /\ lo <= now
  <2>1. last \in Nat /\ before <= last + 1 /\ before <= now /\ lo <= now /\ last + 1 \in Nat
    BY <1>1, <1>2 DEF now
  <2> HIDE DEF last
  <2>2. /\ at \in Nat /\ at <= last + 1 /\ at <= now /\ at \in {last + 1, now}
    BY <1>2, <2>1, EarlierStamp
  <2> HIDE DEF at
  <2> QED
    BY <2>1, <2>2
<1> HIDE DEF at
<1>4. /\ closing \in Records /\ first_open \in Records /\ showing \in Records
      /\ closing.stamp = at /\ first_open.stamp = now /\ showing.stamp = now
      /\ closing.type = "ConnectionClose"
  <2>1. closing.type = "ConnectionClose"
    BY DEF CloseRecord
  <2> QED
    BY <1>2, <1>3, <2>1, RecordTypes, RecordStamps
<1> HIDE DEF closing, first_open, showing
<1>5. one \in Seq(Records) /\ two \in Seq(Records) /\ three \in Seq(Records)
  BY <1>1, <1>4
<1>6. f.out \o <<closing, first_open, showing>> = three
  <2>1. f.out \in Seq(Records) /\ closing \in Records /\ first_open \in Records /\ showing \in Records
    BY <1>1, <1>4
  <2> QED
    BY <2>1, JoinThree
<1> HIDE DEF one, two, three
<1>7. Stamps(one, lo, at)
  BY <1>1, <1>3, <1>4, StampsAppend DEF one
<1>8. Stamps(two, lo, now)
  BY <1>2, <1>3, <1>4, <1>5, <1>7, StampsAppend DEF two
<1>9. Stamps(three, lo, now)
  <2>1. now <= showing.stamp /\ lo <= showing.stamp
    BY <1>2, <1>3, <1>4
  <2> QED
    BY <1>2, <1>4, <1>5, <1>8, <2>1, StampsAppend DEF three
<1>10. /\ g \in Packers /\ g.out = three /\ g.deferred_live_updates = <<>>
       /\ g.state = "live" /\ g.buffered_while_invalid = <<>>
  BY <1>1, <1>5 DEF Packers
<1>11. q = [e EXCEPT !.previous_u = m.depth.final_update_id,
                     !.pending_live_snapshot = NoMessage]
  <2>1. q = [EmitUpdate([f EXCEPT !.out = @ \o <<closing, first_open, showing>>], m)
             EXCEPT !.previous_u = m.depth.final_update_id, !.pending_live_snapshot = NoMessage]
    BY DEF PackCoveredGap, f, closing, first_open, showing, at, before, now
  <2>2. [f EXCEPT !.out = @ \o <<closing, first_open, showing>>] = g
    BY <1>1, <1>6 DEF Packers
  <2> HIDE DEF g, q
  <2> QED
    BY <2>1, <2>2
<1> HIDE DEF g, q
<1>12. /\ e \in Packers /\ e.deferred_live_updates = <<>>
       /\ e.last_update_received = now /\ Stamps(e.out, lo, now)
       /\ e.state = "live" /\ e.buffered_while_invalid = <<>>
  <2>1. Stamps(g.out, lo, m.received_time) /\ lo <= m.received_time /\ m.received_time \in Nat
        /\ m.received_time <= m.received_time
    BY <1>2, <1>3, <1>9, <1>10 DEF now
  <2> QED
    BY <1>10, <2>1, EmittedStamps DEF now
<1> HIDE DEF e
<1>13. /\ q.deferred_live_updates = <<>> /\ q.last_update_received = now /\ q.out = e.out
       /\ q \in Packers /\ q.state = "live" /\ q.buffered_while_invalid = <<>>
  BY <1>11, <1>12, Messages DEF Packers
<1>14. Held(q)
  BY <1>13, NothingDeferred DEF Held
<1>15. q.last_update_received <= now
  BY <1>2, <1>13
<1> QED
  BY <1>2, <1>12, <1>13, <1>15, <1>14, NothingBack DEF q, now

LEMMA BridgeStamps ==
    ASSUME NEW p \in Packers, p.out = <<>>, Held(p), p.state = "awaiting_bridge",
           NEW lo \in Nat, NEW hi \in Nat, lo <= hi,
           Stamped(p, lo, hi), NEW m \in UpdateMessages, hi <= m.received_time
    PROVE  Advances(PackBridge(p, m), lo, m.received_time)
<1> DEFINE now == m.received_time
           e == EmitUpdate(p, m)
           emitted == [e EXCEPT !.previous_u = m.depth.final_update_id]
           live == [emitted EXCEPT !.state = "live"]
           lost == [emitted EXCEPT !.state = "invalid", !.buffered_while_invalid = <<m.depth>>]
<1>1. /\ p.deferred_live_updates = <<>> /\ p.buffered_while_invalid = <<>>
      /\ p.pending_live_snapshot = NoMessage
      /\ now \in Nat /\ m.depth \in Depths /\ m.depth.final_update_id \in Ids
      /\ Stamps(p.out, lo, hi)
  BY Messages, StampsNil DEF Held
<1>2. /\ e \in Packers /\ e.deferred_live_updates = <<>> /\ e.last_update_received = now
      /\ Stamps(e.out, lo, now) /\ e.buffered_while_invalid = <<>>
      /\ e.pending_live_snapshot = NoMessage
  BY <1>1, EmittedStamps
<1> HIDE DEF e
<1>3. <<m.depth>> \in Seq(Depths)
  BY <1>1
<1>4. /\ live \in Packers /\ live.out = e.out /\ live.state = "live"
      /\ live.deferred_live_updates = <<>> /\ live.buffered_while_invalid = <<>>
      /\ live.last_update_received = now
  BY <1>1, <1>2 DEF Packers
<1>5. /\ lost \in Packers /\ lost.out = e.out /\ lost.state = "invalid"
      /\ lost.deferred_live_updates = <<>> /\ lost.pending_live_snapshot = NoMessage
      /\ lost.last_update_received = now
  BY <1>1, <1>2, <1>3 DEF Packers
<1>6. PackBridge(p, m) \in {p, live, lost}
  BY DEF PackBridge, e
<1> HIDE DEF live, lost
<1>7. Held(live) /\ Held(lost)
  BY <1>4, <1>5, NothingDeferred DEF Held
<1>8. now <= now
  BY <1>1
<1>9. Advances(p, lo, now)
  BY <1>1, NothingWritten
<1>10. Advances(live, lo, now) /\ Advances(lost, lo, now)
  BY <1>1, <1>2, <1>4, <1>5, <1>7, <1>8, NothingBack
<1> QED
  BY <1>6, <1>9, <1>10

LEMMA InvalidStamps ==
    ASSUME NEW p \in Packers, p.out = <<>>, Held(p), p.state = "invalid",
           NEW lo \in Nat, NEW hi \in Nat, lo <= hi,
           Stamped(p, lo, hi), NEW m \in UpdateMessages, hi <= m.received_time
    PROVE  Advances(PackInvalid(p, m), lo, m.received_time)
<1> DEFINE now == m.received_time
           e == EmitUpdate(p, m)
           q == PackInvalid(p, m)
<1>1. /\ p.deferred_live_updates = <<>> /\ p.pending_live_snapshot = NoMessage
      /\ now \in Nat /\ m.depth \in Depths /\ Stamps(p.out, lo, hi)
  BY Messages, StampsNil DEF Held
<1>2. /\ e \in Packers /\ e.deferred_live_updates = <<>> /\ e.last_update_received = now
      /\ Stamps(e.out, lo, now) /\ e.pending_live_snapshot = NoMessage /\ e.state = "invalid"
  BY <1>1, EmittedStamps
<1>3. q = [e EXCEPT !.buffered_while_invalid = Append(@, m.depth)]
  BY DEF PackInvalid
<1> HIDE DEF e, q
<1>4. Append(e.buffered_while_invalid, m.depth) \in Seq(Depths)
  BY <1>1, <1>2 DEF Packers
<1>5. /\ q \in Packers /\ q.out = e.out /\ q.state = "invalid"
      /\ q.deferred_live_updates = <<>> /\ q.pending_live_snapshot = NoMessage
      /\ q.last_update_received = now
  BY <1>2, <1>3, <1>4 DEF Packers
<1>6. Held(q) /\ now <= now
  BY <1>1, <1>5, NothingDeferred DEF Held
<1> QED
  BY <1>1, <1>2, <1>5, <1>6, NothingBack DEF q

LEMMA ContiguousStamps ==
    ASSUME NEW p \in Packers, p.out = <<>>, Held(p), p.state = "live",
           NEW lo \in Nat, NEW hi \in Nat, lo <= hi,
           Stamped(p, lo, hi), NEW m \in UpdateMessages, hi <= m.received_time,
           Follows(m.depth, p.previous_u)
    PROVE  Advances(PackContiguous(p, m), lo, m.received_time)
<1> DEFINE now == m.received_time
           u == m.depth.final_update_id
           d == p.deferred_live_updates
           advanced == [p EXCEPT !.previous_u = u]
           emitted == EmitUpdate(advanced, m)
           longer == Append(d, m)
           deferred == [advanced EXCEPT !.deferred_live_updates = Append(@, m)]
           f == FlushDeferred(deferred)
           passed == [f EXCEPT !.pending_live_snapshot = NoMessage]
<1>1. /\ p.buffered_while_invalid = <<>> /\ now \in Nat /\ u \in Ids
      /\ d \in Seq(UpdateMessages) /\ lo <= now /\ p.last_update_received \in Nat
  BY Messages DEF Held, Packers
<1>2. /\ advanced \in Packers /\ advanced.out = <<>> /\ advanced.state = "live"
      /\ advanced.deferred_live_updates = d /\ advanced.buffered_while_invalid = <<>>
      /\ advanced.pending_live_snapshot = p.pending_live_snapshot
  BY <1>1 DEF Packers
<1>3. CASE p.pending_live_snapshot = NoMessage
  <2>1. d = <<>> /\ PackContiguous(p, m) = emitted
    BY <1>3 DEF Held, PackContiguous
  <2> HIDE DEF advanced
  <2>2. /\ emitted \in Packers /\ emitted.deferred_live_updates = <<>>
        /\ emitted.last_update_received = now /\ Stamps(emitted.out, lo, now)
        /\ emitted.state = "live" /\ emitted.buffered_while_invalid = <<>>
    <3>1. Stamps(advanced.out, lo, hi)
      BY <1>2, StampsNil
    <3> QED
      BY <1>2, <2>1, <3>1, EmittedStamps
  <2> HIDE DEF emitted
  <2>3. Held(emitted) /\ now <= now
    BY <1>1, <2>2, NothingDeferred DEF Held
  <2> QED
    BY <1>1, <2>1, <2>2, <2>3, NothingBack
<1>4. CASE p.pending_live_snapshot # NoMessage
  <2>1. /\ deferred \in Packers /\ deferred.out = <<>> /\ deferred.state = "live"
        /\ deferred.deferred_live_updates = longer
        /\ deferred.buffered_while_invalid = <<>> /\ Held(deferred)
        /\ deferred.last_update_received = p.last_update_received
    <3>1. deferred = [p EXCEPT !.previous_u = u, !.deferred_live_updates = Append(@, m)]
      BY DEF Packers
    <3> DEFINE other == [p EXCEPT !.previous_u = u, !.deferred_live_updates = Append(@, m)]
    <3>2. /\ other \in Packers /\ other.out = <<>> /\ other.state = "live"
          /\ other.deferred_live_updates = longer
          /\ other.buffered_while_invalid = <<>> /\ Held(other)
          /\ other.last_update_received = p.last_update_received
      BY <1>4, DeferredIs
    <3> HIDE DEF other, deferred, longer
    <3> QED
      BY <3>1, <3>2 DEF other
  <2>2. PackContiguous(p, m) \in {deferred, passed}
    BY <1>4 DEF PackContiguous
  <2> HIDE DEF deferred
  <2>3. Stamped(deferred, lo, now)
    <3>1. /\ Len(d) \in Nat /\ Len(longer) = Len(d) + 1 /\ longer[Len(d) + 1] = m
          /\ \A i \in 1 .. Len(d) : longer[i] = d[i] /\ d[i] \in UpdateMessages
      BY <1>1
    <3>2. \A i \in 1 .. Len(d) : d[i].received_time \in Nat
      <4> HIDE DEF d
      <4> QED
        BY <3>1, Messages
    <3>3. /\ p.last_update_received <= hi
          /\ \A i \in 1 .. Len(d) : lo <= d[i].received_time /\ d[i].received_time <= hi
          /\ \A i, j \in 1 .. Len(d) : i < j => d[i].received_time <= d[j].received_time
      BY DEF Stamped
    <3> DEFINE N == Len(d)
    <3>4. /\ N \in Nat /\ Len(longer) = N + 1 /\ longer[N + 1] = m
          /\ \A i \in 1 .. N : longer[i] = d[i] /\ d[i].received_time \in Nat
                               /\ lo <= d[i].received_time /\ d[i].received_time <= hi
          /\ \A i, j \in 1 .. N : i < j => d[i].received_time <= d[j].received_time
      BY <3>1, <3>2, <3>3
    <3> HIDE DEF longer, d, N
    <3>5. ASSUME NEW i \in 1 .. N + 1
          PROVE  lo <= longer[i].received_time /\ longer[i].received_time <= now
      <4>1. CASE i = N + 1
        BY <1>1, <3>4, <4>1
      <4>2. CASE i # N + 1
        <5>1. i \in 1 .. N
          BY <3>4, <4>2
        <5> QED
          BY <1>1, <3>4, <5>1
      <4> QED
        BY <4>1, <4>2
    <3>6. ASSUME NEW i \in 1 .. N + 1, NEW j \in 1 .. N + 1, i < j
          PROVE  longer[i].received_time <= longer[j].received_time
      <4>1. CASE j = N + 1
        BY <1>1, <3>4, <3>5, <4>1
      <4>2. CASE j # N + 1
        <5>1. i \in 1 .. N /\ j \in 1 .. N
          BY <3>4, <3>6, <4>2
        <5> QED
          BY <3>4, <3>6, <5>1
      <4> QED
        BY <4>1, <4>2
    <3>7. p.last_update_received <= now
      BY <1>1, <3>3
    <3> QED
      BY <2>1, <3>4, <3>5, <3>6, <3>7 DEF Stamped
  <2>4. Advances(deferred, lo, now)
    <3>1. now <= now
      BY <1>1
    <3> QED
      BY <1>1, <2>1, <2>3, <3>1, NothingWritten
  <2>5. Advances(passed, lo, now)
    <3>1. /\ f.out \in Seq(Records) /\ f.last_update_received \in Nat
          /\ f.last_update_received <= now /\ f.deferred_live_updates = <<>>
          /\ Stamps(f.out, lo, f.last_update_received) /\ f \in Packers
          /\ f.state = "live" /\ f.buffered_while_invalid = <<>>
      BY <1>1, <2>1, <2>3, FlushedStamps
    <3> HIDE DEF f
    <3>2. /\ passed \in Packers /\ passed.state = "live" /\ passed.out = f.out
          /\ passed.deferred_live_updates = <<>> /\ passed.buffered_while_invalid = <<>>
          /\ passed.last_update_received = f.last_update_received
      BY <3>1 DEF Packers
    <3> HIDE DEF passed
    <3>3. Held(passed)
      BY <3>2, NothingDeferred DEF Held
    <3>4. Stamps(passed.out, lo, now)
      BY <1>1, <3>1, <3>2, StampsLater
    <3>5. passed.last_update_received <= now
      BY <3>1, <3>2
    <3> QED
      BY <1>1, <3>2, <3>3, <3>4, <3>5, NothingBack
  <2> QED
    BY <2>2, <2>4, <2>5
<1> QED
  BY <1>3, <1>4

LEMMA GapStamps ==
    ASSUME NEW p \in Packers, p.out = <<>>, Held(p), p.state = "live",
           NEW lo \in Nat, NEW hi \in Nat, lo <= hi,
           Stamped(p, lo, hi), NEW m \in UpdateMessages, hi <= m.received_time
    PROVE  Advances(PackGap(p, m), lo, m.received_time)
<1> DEFINE now == m.received_time
           f == FlushDeferred(p)
           e == EmitUpdate(f, m)
           q == PackGap(p, m)
<1>1. /\ f.out \in Seq(Records) /\ f.last_update_received \in Nat
      /\ f.last_update_received <= hi /\ f.deferred_live_updates = <<>>
      /\ Stamps(f.out, lo, f.last_update_received) /\ f \in Packers
  BY FlushedStamps
<1>2. /\ now \in Nat /\ m.depth \in Depths /\ m.depth.final_update_id \in Ids
      /\ <<m.depth>> \in Seq(Depths)
  BY Messages
<1> HIDE DEF f
<1>3. Stamps(f.out, lo, hi)
  BY <1>1, StampsLater
<1>4. /\ e \in Packers /\ e.deferred_live_updates = <<>> /\ e.last_update_received = now
      /\ Stamps(e.out, lo, now)
  BY <1>1, <1>3, EmittedStamps
<1>5. q = [e EXCEPT !.pending_live_snapshot = NoMessage, !.state = "invalid",
                    !.buffered_while_invalid = <<m.depth>>,
                    !.previous_u = m.depth.final_update_id]
  BY DEF PackGap, f
<1> HIDE DEF e, q
<1>6. /\ q \in Packers /\ q.out = e.out /\ q.state = "invalid"
      /\ q.deferred_live_updates = <<>> /\ q.pending_live_snapshot = NoMessage
      /\ q.last_update_received = now
  BY <1>2, <1>4, <1>5 DEF Packers
<1>7. Held(q) /\ now <= now
  BY <1>2, <1>6, NothingDeferred DEF Held
<1> QED
  BY <1>2, <1>4, <1>6, <1>7, NothingBack DEF q

LEMMA PackStamps ==
    ASSUME NEW p \in Packers, p.out = <<>>, Held(p), NEW lo \in Nat, NEW hi \in Nat, lo <= hi,
           Stamped(p, lo, hi),
           NEW m \in VendorSnapshots \cup UpdateMessages, hi <= m.received_time
    PROVE  Advances(Pack(p, m), lo, m.received_time)
<1>1. m.received_time \in Nat /\ p.state \in {"live", "awaiting_bridge", "invalid"}
  BY Messages DEF Packers
<1>2. Advances(p, lo, m.received_time)
  BY <1>1, NothingWritten
<1>3. CASE m \in VendorSnapshots
  <2>1. Advances(PackSnapshot(p, m), lo, m.received_time)
    BY <1>3, SnapshotStamps
  <2>2. m.event_type = "snapshot"
    BY <1>3, Messages
  <2> QED
    BY <1>2, <2>1, <2>2 DEF Pack
<1>4. CASE m \in UpdateMessages
  <2>1. m.event_type = "update"
    BY <1>4, Messages
  <2>2. p.state = "awaiting_bridge" => Advances(PackBridge(p, m), lo, m.received_time)
    BY <1>4, BridgeStamps
  <2>3. p.state = "invalid" => Advances(PackInvalid(p, m), lo, m.received_time)
    BY <1>4, InvalidStamps
  <2>4. ASSUME p.state = "live", Follows(m.depth, p.previous_u)
        PROVE  Advances(PackContiguous(p, m), lo, m.received_time)
    BY <1>4, <2>4, ContiguousStamps
  <2>5. ASSUME p.state = "live", p.pending_live_snapshot # NoMessage
        PROVE  Advances(PackCoveredGap(p, m), lo, m.received_time)
    BY <1>4, <2>5, CoveredGapStamps
  <2>6. ASSUME p.state = "live"
        PROVE  Advances(PackGap(p, m), lo, m.received_time)
    BY <1>4, <2>6, GapStamps
  <2>7. Advances(PackUpdate(p, m), lo, m.received_time)
    BY <1>1, <1>2, <2>2, <2>3, <2>4, <2>5, <2>6 DEF PackUpdate
  <2> QED
    BY <1>2, <2>1, <2>7 DEF Pack
<1> QED
  BY <1>3, <1>4

-------------------------------------------------------------------------------
(* HistoricalL2: the raw file never steps back in time. *)

\* Nothing was written, or is held back, that came after the last message, nor
\* is anything held back that is older than what was written.
StampInv ==
    stage \in {"stream", "packed"} =>
        /\ packer \in Packers /\ Held(packer) /\ packer.out = <<>>
        /\ written \in Seq(Records) /\ written # <<>>
        /\ cursor[1] \in Nat /\ Last(written).stamp <= cursor[1]
        /\ Stamped(packer, Last(written).stamp, cursor[1])

LEMMA LastStamp ==
    /\ \A s \in Seq(Records) : s # <<>> => Last(s).stamp \in Nat
    /\ \A s \in Seq(Records) : \A lo, hi : s # <<>> /\ Stamps(s, lo, hi) => Last(s).stamp <= hi
<1>1. \A s \in Seq(Records) : s # <<>> => /\ Len(s) \in 1 .. Len(s) /\ Last(s) = s[Len(s)]
                                          /\ s[Len(s)] \in Records
  BY DEF Last
<1> QED
  BY <1>1, RecordStamps DEF Stamps

\* What Wrote makes of a call of the packer.
LEMMA WroteStamps ==
    ASSUME NEW q, NEW hi \in Nat, written \in Seq(Records), written # <<>>,
           Last(written).stamp <= hi, Advances(q, Last(written).stamp, hi), Wrote(q)
    PROVE  /\ packer' \in Packers /\ Held(packer') /\ packer'.out = <<>>
           /\ written' \in Seq(Records) /\ written' # <<>>
           /\ Last(written').stamp <= hi
           /\ Stamped(packer', Last(written').stamp, hi)
           /\ written' # written => Advance(written, written')
<1> DEFINE lo == Last(written).stamp
           first == IF q.out = <<>> THEN lo ELSE Last(q.out).stamp
<1>1. /\ q \in Packers /\ q.out \in Seq(Records) /\ Held(q) /\ Stamps(q.out, lo, hi)
      /\ Stamped(q, first, hi)
  BY DEF Advances, Packers
<1>2. /\ packer' = [q EXCEPT !.out = <<>>]
      /\ written' = IF q.out = <<>> THEN written ELSE q.out
  BY DEF Wrote
<1>3. /\ packer' \in Packers /\ packer'.out = <<>> /\ packer'.state = q.state
      /\ packer'.previous_u = q.previous_u
      /\ packer'.buffered_while_invalid = q.buffered_while_invalid
      /\ packer'.pending_live_snapshot = q.pending_live_snapshot
      /\ packer'.deferred_live_updates = q.deferred_live_updates
      /\ packer'.last_update_received = q.last_update_received
  BY <1>1, <1>2, NothingDeferred DEF Packers
<1>4. Held(packer') /\ Stamped(packer', first, hi)
  BY <1>1, <1>3 DEF Held, Stamped
<1>5. written' \in Seq(Records) /\ written' # <<>> /\ Last(written').stamp = first
  BY <1>1, <1>2
<1>6. first <= hi
  BY <1>1, LastStamp
<1>7. ASSUME written' # written PROVE Advance(written, written')
  <2>1. written' = q.out
    BY <1>2, <1>7
  <2> HIDE DEF lo
  <2>2. /\ \A i \in 1 .. Len(written') : written'[i].type # "ConnectionClose" =>
                                             lo <= written'[i].stamp
        /\ \A i, j \in 1 .. Len(written') : i < j => written'[i].stamp <= written'[j].stamp
    BY <1>1, <2>1 DEF Stamps
  <2>3. DOMAIN written' = 1 .. Len(written')
    BY <1>5
  <2> QED
    BY <2>2, <2>3 DEF Advance, lo
<1> HIDE DEF first
<1> QED
  BY <1>3, <1>4, <1>5, <1>6, <1>7

LEMMA StampStep ==
    ASSUME 0 \notin Times, OrderInv, StampInv, [HNext]_hvars
    PROVE  StampInv' /\ (written' # written => Advance(written, written'))
<1>1. CASE stage \in {"stream", "packed"}
  <2> DEFINE lo == Last(written).stamp
             hi == cursor[1]
  <2>1. /\ packer \in Packers /\ Held(packer) /\ packer.out = <<>>
        /\ written \in Seq(Records) /\ written # <<>>
        /\ hi \in Nat /\ lo \in Nat /\ lo <= hi /\ Stamped(packer, lo, hi) /\ cursor \in AKey
    BY <1>1, LastStamp DEF StampInv, OrderInv
  <2>2. CASE UNCHANGED hvars
    BY <2>2 DEF hvars, StampInv
  <2>3. CASE CloseFile
    <3> DEFINE f == FlushDeferred(packer)
               q == IF packer.state = "live" THEN f ELSE packer
    <3>1. Wrote(q) /\ cursor' = cursor
      BY <2>3 DEF CloseFile
    <3>2. Advances(packer, lo, hi)
      <4>1. hi <= hi
        BY <2>1
      <4> QED
        BY <2>1, <4>1, NothingWritten
    <3>3. Advances(f, lo, hi)
      <4>1. /\ f.out \in Seq(Records) /\ f.last_update_received \in Nat
            /\ f.last_update_received <= hi /\ f.deferred_live_updates = <<>>
            /\ Stamps(f.out, lo, f.last_update_received) /\ f \in Packers /\ Held(f)
        BY <2>1, FlushedStamps
      <4> HIDE DEF f
      <4>2. Stamps(f.out, lo, hi)
        BY <2>1, <4>1, StampsLater
      <4> QED
        BY <2>1, <4>1, <4>2, NothingBack
    <3>4. Advances(q, lo, hi)
      BY <3>2, <3>3
    <3> HIDE DEF q
    <3>5. /\ packer' \in Packers /\ Held(packer') /\ packer'.out = <<>>
          /\ written' \in Seq(Records) /\ written' # <<>>
          /\ Last(written').stamp <= hi /\ Stamped(packer', Last(written').stamp, hi)
          /\ written' # written => Advance(written, written')
      BY <2>1, <3>1, <3>4, WroteStamps
    <3> QED
      BY <2>1, <3>1, <3>5 DEF StampInv
  <2>4. ASSUME NEW m \in VendorSnapshots \cup UpdateMessages,
               Read(m), ~Less(OrderingKey(m), cursor)
        PROVE  StampInv' /\ (written' # written => Advance(written, written'))
    <3> DEFINE now == m.received_time
               q == Pack(packer, m)
    <3>1. OrderingKey(m) \in AKey /\ OrderingKey(m)[1] = now /\ now \in Nat
      BY Keys, Messages
    <3>2. hi <= now
      BY <2>1, <2>4, <3>1, KeysOrdered
    <3>3. cursor' = OrderingKey(m) /\ Wrote(q)
      BY <2>4 DEF Read
    <3>4. cursor'[1] = now
      BY <3>1, <3>3
    <3>5. Advances(q, lo, now)
      BY <2>1, <3>2, PackStamps
    <3>6. lo <= now
      BY <2>1, <3>1, <3>2
    <3> HIDE DEF q
    <3>7. /\ packer' \in Packers /\ Held(packer') /\ packer'.out = <<>>
          /\ written' \in Seq(Records) /\ written' # <<>>
          /\ Last(written').stamp <= now /\ Stamped(packer', Last(written').stamp, now)
          /\ written' # written => Advance(written, written')
      BY <2>1, <3>1, <3>3, <3>5, <3>6, WroteStamps
    <3> HIDE DEF now
    <3> QED
      BY <3>1, <3>4, <3>7 DEF StampInv
  <2> QED
    BY <1>1, <2>2, <2>3, <2>4, StreamSteps
<1>2. CASE stage \notin {"stream", "packed"}
  <2>1. CASE UNCHANGED hvars
    BY <2>1 DEF hvars, StampInv
  <2>2. ASSUME NEW allow \in BOOLEAN, Discover(allow)
        PROVE  StampInv' /\ (written' # written => Advance(written, written'))
    <3> DEFINE found == DiscoverSnapshot(allow)
    <3>1. CASE found = NoMessage
      BY <2>2, <3>1 DEF Discover, StampInv
    <3>2. CASE found # NoMessage
      <4> DEFINE now == found.received_time
                 first_open == OpenRecord(BaseTime(found) + 1)
                 showing == SnapshotRecord(now, found)
                 q == NewPacker(found)
                 out == <<first_open, showing>>
      <4>1. found \in VendorSnapshots
        BY <3>2, DiscoverFinds DEF OrderInv
      <4>2. /\ stage' = "stream" /\ cursor' = OrderingKey(found) /\ Wrote(q)
            /\ written = <<>>
        BY <2>2, <3>2 DEF Discover, OrderInv
      <4> HIDE DEF found
      <4>3. /\ first_open \in Records /\ showing \in Records
            /\ q \in Packers /\ Held(q) /\ q.out = out
            /\ q.deferred_live_updates = <<>> /\ q.last_update_received = 0
        BY <4>1, NewPackerIs
      <4>4. cursor'[1] = now /\ now \in Nat /\ now \in Times
        BY <4>1, <4>2, Keys, Messages
      <4>5. first_open.stamp \in Nat /\ first_open.stamp <= now /\ showing.stamp = now
        <5>1. now # 0
          BY <4>4
        <5>2. BaseTime(found) + 1 \in Nat /\ BaseTime(found) + 1 <= now
          BY <4>4, <5>1, HistoricalAssumption DEF BaseTime
        <5> QED
          BY <5>2, RecordStamps
      <4>6. packer' = [q EXCEPT !.out = <<>>]
            /\ written' = IF q.out = <<>> THEN written ELSE q.out
        BY <4>2 DEF Wrote
      <4> HIDE DEF first_open, showing, q, now
      <4>7. /\ packer' \in Packers /\ packer'.out = <<>>
            /\ packer'.state = q.state /\ packer'.previous_u = q.previous_u
            /\ packer'.buffered_while_invalid = q.buffered_while_invalid
            /\ packer'.pending_live_snapshot = q.pending_live_snapshot
            /\ packer'.deferred_live_updates = <<>> /\ packer'.last_update_received = 0
        BY <4>3, <4>6, NothingDeferred DEF Packers
      <4>8. Held(packer')
        BY <4>3, <4>7 DEF Held
      <4>9. /\ written' = out /\ out \in Seq(Records) /\ Len(out) = 2 /\ out # <<>>
            /\ out[1] = first_open /\ out[2] = showing /\ Last(out) = showing
            /\ DOMAIN out = {1, 2}
        BY <4>3, <4>6 DEF Last
      <4> HIDE DEF out
      <4>10. Last(written').stamp = now /\ now <= now /\ 0 <= now
        BY <4>4, <4>5, <4>9
      <4>11. Stamped(packer', now, now)
        BY <4>7, <4>10 DEF Stamped
      <4>12. Advance(written, written')
        BY <4>2, <4>4, <4>5, <4>9 DEF Advance
      <4> QED
        BY <4>4, <4>7, <4>8, <4>9, <4>10, <4>11, <4>12 DEF StampInv
    <3> QED
      BY <3>1, <3>2
  <2> QED
    BY <1>2, <2>1, <2>2 DEF HNext, NextSnapshot, NextUpdate, CloseFile
<1> QED
  BY <1>1, <1>2

\* PackedStampsAdvance (the stamps of the raw file): no record is older than
\* the one written before it, but for the close that gates a gap, whatever the
\* vendor sent and whatever the packer held back.  A snapshot received at
\* nanosecond 0 is the exception: the file opens at 1 at the earliest.
THEOREM PackedStamps ==
    ASSUME 0 \notin Times
    PROVE  HSpec => PackedStampsAdvance
<1>1. 0 \notin Times
  OBVIOUS
<1>2. HInit => OrderInv /\ StampInv
  BY OrderInit DEF HInit, StampInv
<1>3. OrderInv /\ StampInv /\ [HNext]_hvars =>
          /\ OrderInv' /\ StampInv'
          /\ [written' # written => Advance(written, written')]_hvars
  BY <1>1, OrderNext, StampStep
<1> QED
  BY <1>2, <1>3, PTL DEF HSpec, PackedStampsAdvance

-------------------------------------------------------------------------------
(* HistoricalL2: a clean audit is what the replay bears out. *)

Audits ==
    [initial_snapshot_id : SnapshotIds, awaiting_initial_bridge : BOOLEAN,
     previous_update_u : Ids, pu_breaks : Nat, contiguous_updates : Nat,
     duplicate_stale_messages : Nat]

\* Where an audit without a break has the packer: waiting for the bridge, of
\* the first snapshot or of one that the updates have not reached, or live at
\* the update the audit followed last.
Agree(p, a) ==
    /\ a.initial_snapshot_id <= p.snapshot_anchor
    /\ a.awaiting_initial_bridge = TRUE => a.contiguous_updates = 0 /\ p.state = "awaiting_bridge"
    /\ a.awaiting_initial_bridge = FALSE =>
          \/ p.state = "awaiting_bridge" /\ a.previous_update_u < p.snapshot_anchor
          \/ p.state = "live" /\ p.previous_u = a.previous_update_u

CleanInv ==
    stage \in {"stream", "packed"} =>
        /\ audit \in Audits
        /\ in_order \in BOOLEAN
        /\ in_order /\ audit.pu_breaks = 0 /\ cursor[1] < EndTime => Agree(packer, audit)
        /\ stage = "packed" /\ packer.state = "live" => packer.deferred_live_updates = <<>>

LEMMA AuditTypes ==
    ASSUME NEW a \in Audits, NEW m \in VendorSnapshots \cup UpdateMessages
    PROVE  /\ Audit(a, m) \in Audits
           /\ Audit(a, m).pu_breaks = 0 => a.pu_breaks = 0
           /\ m \in VendorSnapshots => Audit(a, m) = a
<1>1. CASE m \in VendorSnapshots
  <2>1. m.event_type = "snapshot"
    BY <1>1, Messages
  <2>2. Audit(a, m) = a
    BY <2>1 DEF Audit
  <2> QED
    BY <2>2
<1>2. CASE m \in UpdateMessages
  <2> DEFINE e == m.depth
             stale == AuditStale(a)
             contiguous == Contiguous(a, e)
             broken == Broken(a, e)
  <2>1. /\ m.event_type = "update" /\ e.final_update_id \in Ids /\ m \notin VendorSnapshots
    BY <1>2, Messages
  <2>2. /\ a \in Audits /\ stale \in Audits /\ contiguous \in Audits /\ broken \in Audits
        /\ stale.pu_breaks = a.pu_breaks /\ contiguous.pu_breaks = a.pu_breaks
        /\ broken.pu_breaks = a.pu_breaks + 1 /\ a.pu_breaks \in Nat
    <3>1. /\ stale = [a EXCEPT !.duplicate_stale_messages = @ + 1]
          /\ contiguous = [a EXCEPT !.contiguous_updates = a.contiguous_updates + 1,
                                    !.previous_update_u = e.final_update_id]
          /\ broken = [a EXCEPT !.pu_breaks = a.pu_breaks + 1, !.previous_update_u = e.final_update_id]
      BY DEF AuditStale, Contiguous, Broken
    <3> HIDE DEF stale, contiguous, broken
    <3>2. /\ a.initial_snapshot_id \in SnapshotIds /\ a.awaiting_initial_bridge \in BOOLEAN
          /\ a.previous_update_u \in Ids /\ a.pu_breaks \in Nat /\ a.contiguous_updates \in Nat
          /\ a.duplicate_stale_messages \in Nat /\ a.pu_breaks + 1 \in Nat
          /\ a.contiguous_updates + 1 \in Nat /\ a.duplicate_stale_messages + 1 \in Nat
      BY DEF Audits
    <3>3. stale \in Audits /\ stale.pu_breaks = a.pu_breaks
      BY <3>1, <3>2 DEF Audits
    <3> DEFINE u == e.final_update_id
               more == a.contiguous_updates + 1
               breaks == a.pu_breaks + 1
    <3>4. /\ u \in Ids /\ more \in Nat /\ breaks \in Nat
          /\ contiguous = [a EXCEPT !.contiguous_updates = more, !.previous_update_u = u]
          /\ broken = [a EXCEPT !.pu_breaks = breaks, !.previous_update_u = u]
      BY <2>1, <3>1, <3>2
    <3> HIDE DEF u, more, breaks
    <3>5. contiguous \in Audits /\ contiguous.pu_breaks = a.pu_breaks
      BY <3>4 DEF Audits
    <3>6. broken \in Audits /\ broken.pu_breaks = breaks
      BY <3>4 DEF Audits
    <3> QED
      BY <3>2, <3>3, <3>5, <3>6 DEF breaks
  <2> DEFINE c == [contiguous EXCEPT !.awaiting_initial_bridge = FALSE]
             b == [broken EXCEPT !.awaiting_initial_bridge = FALSE]
  <2>3. Audit(a, m) \in {stale, contiguous, broken, c, b}
    BY <2>1 DEF Audit, AuditBridge
  <2> HIDE DEF stale, contiguous, broken
  <2>4. /\ c \in Audits /\ b \in Audits
        /\ c.pu_breaks = contiguous.pu_breaks /\ b.pu_breaks = broken.pu_breaks
    BY <2>2 DEF Audits
  <2> HIDE DEF c, b
  <2> QED
    BY <2>1, <2>2, <2>3, <2>4
<1> QED
  BY <1>1, <1>2

\* An update that the audit and the packer take.
LEMMA UpdateAgrees ==
    ASSUME NoSnapshotInAHole, NEW p \in Packers, NEW a \in Audits, Agree(p, a),
           a.pu_breaks = 0, NEW m \in UpdateMessages, Audit(a, m).pu_breaks = 0
    PROVE  Agree(PackUpdate(p, m), Audit(a, m))
<1> DEFINE e == m.depth
           id == a.initial_snapshot_id
           anchor == p.snapshot_anchor
           u == e.final_update_id
           q == PackUpdate(p, m)
           b == Audit(a, m)
           broken == Broken(a, e)
           contiguous == Contiguous(a, e)
           stale == AuditStale(a)
<1>1. /\ m.event_type = "update" /\ e \in Depths /\ u \in Int /\ e.first_update_id \in Int
      /\ e.previous_final_update_id \in Int /\ e.first_update_id <= u
  BY Messages, ExchangeAssumption DEF Ids
<1>2. /\ anchor \in SnapshotIds /\ id \in SnapshotIds /\ anchor \in Int /\ id \in Int
      /\ a.previous_update_u \in Int /\ a.pu_breaks \in Nat
      /\ a.awaiting_initial_bridge \in BOOLEAN
  <2>1. /\ anchor \in SnapshotIds /\ id \in SnapshotIds /\ a.previous_update_u \in Ids
        /\ a.pu_breaks \in Nat /\ a.awaiting_initial_bridge \in BOOLEAN
    BY DEF Packers, Audits
  <2>2. Ids \subseteq Int /\ SnapshotIds \subseteq Ids
    BY HistoricalAssumption, ExchangeAssumption DEF Ids
  <2> HIDE DEF anchor, id
  <2> QED
    BY <2>1, <2>2
<1>3. /\ broken.pu_breaks # 0 /\ [broken EXCEPT !.awaiting_initial_bridge = FALSE].pu_breaks # 0
      /\ contiguous.initial_snapshot_id = id /\ stale.initial_snapshot_id = id
      /\ contiguous.previous_update_u = u /\ stale.previous_update_u = a.previous_update_u
      /\ contiguous.awaiting_initial_bridge = a.awaiting_initial_bridge
      /\ stale.awaiting_initial_bridge = a.awaiting_initial_bridge
      /\ stale.contiguous_updates = a.contiguous_updates
  BY <1>2 DEF Audits, Broken, Contiguous, AuditStale
<1>4. /\ p.state = "awaiting_bridge" /\ u < anchor => q = p
      /\ p.state = "awaiting_bridge" /\ ~(u < anchor) /\ e.first_update_id <= anchor =>
            q.state = "live" /\ q.previous_u = u /\ q.snapshot_anchor = anchor
  <2>1. ASSUME p.state = "awaiting_bridge" PROVE q = PackBridge(p, m)
    BY <2>1 DEF PackUpdate
  <2>2. u < anchor => PackBridge(p, m) = p
    BY DEF PackBridge
  <2>3. ASSUME ~(u < anchor), e.first_update_id <= anchor
        PROVE  /\ PackBridge(p, m).state = "live" /\ PackBridge(p, m).previous_u = u
               /\ PackBridge(p, m).snapshot_anchor = anchor
    <3>1. Bridges(e, anchor)
      BY <1>1, <1>2, <2>3 DEF Bridges
    <3>2. PackBridge(p, m) = [[EmitUpdate(p, m) EXCEPT !.previous_u = u] EXCEPT !.state = "live"]
      BY <2>3, <3>1 DEF PackBridge
    <3>3. /\ EmitUpdate(p, m).snapshot_anchor = anchor
          /\ EmitUpdate(p, m) = [p EXCEPT !.out = Append(p.out, UpdateRecord(m)),
                                          !.last_update_received = m.received_time]
      BY DEF EmitUpdate, Packers
    <3> QED
      BY <3>2, <3>3 DEF Packers
  <2> QED
    BY <2>1, <2>2, <2>3
<1>5. /\ p.state = "live" /\ u <= p.previous_u => q = p
      /\ p.state = "live" /\ ~(u <= p.previous_u) /\ Follows(e, p.previous_u) =>
            q.state = "live" /\ q.previous_u = u /\ q.snapshot_anchor = anchor
  <2>1. ASSUME p.state = "live", ~(u <= p.previous_u), Follows(e, p.previous_u)
        PROVE  q = PackContiguous(p, m)
    BY <2>1 DEF PackUpdate
  <2>2. ASSUME p.state = "live"
        PROVE  LET c == PackContiguous(p, m)
               IN  c.state = "live" /\ c.previous_u = u /\ c.snapshot_anchor = anchor
    <3> DEFINE advanced == [p EXCEPT !.previous_u = u]
               deferred == [advanced EXCEPT !.deferred_live_updates = Append(@, m)]
               emitted == EmitUpdate(advanced, m)
               flushed == FlushDeferred(deferred)
               passed == [flushed EXCEPT !.pending_live_snapshot = NoMessage]
    <3>1. PackContiguous(p, m) \in {emitted, deferred, passed}
      BY DEF PackContiguous
    <3>2. /\ advanced.state = "live" /\ advanced.previous_u = u
          /\ advanced.snapshot_anchor = anchor
          /\ DOMAIN advanced = DOMAIN p
          /\ DOMAIN p = {"state", "previous_u", "snapshot_anchor", "buffered_while_invalid",
                         "pending_live_snapshot", "deferred_live_updates",
                         "last_update_received", "out"}
      BY <2>2 DEF Packers
    <3> HIDE DEF advanced
    <3>3. /\ emitted.state = "live" /\ emitted.previous_u = u /\ emitted.snapshot_anchor = anchor
          /\ deferred.state = "live" /\ deferred.previous_u = u
          /\ deferred.snapshot_anchor = anchor /\ DOMAIN deferred = DOMAIN p
      BY <3>2 DEF EmitUpdate
    <3> HIDE DEF emitted, deferred
    <3>4. /\ flushed.state = "live" /\ flushed.previous_u = u /\ flushed.snapshot_anchor = anchor
          /\ DOMAIN flushed = DOMAIN p
      BY <3>2, <3>3 DEF FlushDeferred
    <3> HIDE DEF flushed
    <3>5. passed.state = "live" /\ passed.previous_u = u /\ passed.snapshot_anchor = anchor
      BY <3>2, <3>4
    <3> HIDE DEF passed
    <3> QED
      BY <3>1, <3>3, <3>5
  <2>3. p.state = "live" /\ u <= p.previous_u => q = p
    BY DEF PackUpdate
  <2> QED
    BY <2>1, <2>2, <2>3
<1> HIDE DEF q
<1>6. CASE a.awaiting_initial_bridge = TRUE
  <2>1. b = AuditBridge(a, e) /\ p.state = "awaiting_bridge" /\ id <= anchor
        /\ a.contiguous_updates = 0
    BY <1>1, <1>6 DEF Audit, Agree
  <2>2. CASE u < id
    <3>1. b = stale
      BY <2>1, <2>2 DEF AuditBridge
    <3>2. q = p
      BY <1>1, <1>2, <1>4, <2>1, <2>2
    <3> HIDE DEF b, stale
    <3>9. Agree(q, b)
      BY <1>3, <1>6, <2>1, <3>1, <3>2 DEF Agree
    <3> QED
      BY <3>9 DEF q, b
  <2>3. CASE ~(u < id) /\ e.first_update_id <= id
    <3>1. b = [contiguous EXCEPT !.awaiting_initial_bridge = FALSE]
      BY <2>1, <2>3 DEF AuditBridge
    <3>2. /\ b.initial_snapshot_id = id /\ b.previous_update_u = u
          /\ b.awaiting_initial_bridge = FALSE
      BY <3>1 DEF Contiguous, Audits
    <3>3. \/ u < anchor /\ q = p
          \/ q.state = "live" /\ q.previous_u = u /\ q.snapshot_anchor = anchor
      BY <1>1, <1>2, <1>4, <2>1, <2>3
    <3> HIDE DEF b
    <3>9. Agree(q, b)
      BY <2>1, <3>2, <3>3 DEF Agree
    <3> QED
      BY <3>9 DEF q, b
  <2>4. CASE ~(u < id) /\ ~(e.first_update_id <= id)
    <3>1. b = [broken EXCEPT !.awaiting_initial_bridge = FALSE]
      BY <2>1, <2>4 DEF AuditBridge
    <3> QED
      BY <1>3, <3>1
  <2> QED
    BY <2>2, <2>3, <2>4
<1>7. CASE a.awaiting_initial_bridge = FALSE
  <2>1. /\ id <= anchor
        /\ \/ p.state = "awaiting_bridge" /\ a.previous_update_u < anchor
           \/ p.state = "live" /\ p.previous_u = a.previous_update_u
    BY <1>7 DEF Agree
  <2>2. b = IF u <= a.previous_update_u THEN stale
            ELSE IF e.previous_final_update_id = a.previous_update_u THEN contiguous
            ELSE broken
    BY <1>1, <1>7 DEF Audit
  <2>3. CASE u <= a.previous_update_u
    <3>1. q = p
      BY <1>1, <1>2, <1>4, <1>5, <2>1, <2>3
    <3>2. b = stale
      BY <2>2, <2>3
    <3> HIDE DEF b, stale
    <3>9. Agree(q, b)
      BY <1>3, <1>7, <2>1, <3>1, <3>2 DEF Agree
    <3> QED
      BY <3>9 DEF q, b
  <2>4. CASE ~(u <= a.previous_update_u) /\ e.previous_final_update_id = a.previous_update_u
    <3>1. /\ b.initial_snapshot_id = id /\ b.previous_update_u = u
          /\ b.awaiting_initial_bridge = FALSE
      <4>1. b = contiguous
        BY <2>2, <2>4
      <4> HIDE DEF b, contiguous
      <4> QED
        BY <1>3, <1>7, <4>1
    <3>2. \/ u < anchor /\ p.state = "awaiting_bridge" /\ q = p
          \/ q.state = "live" /\ q.previous_u = u /\ q.snapshot_anchor = anchor
      <4>1. CASE p.state = "awaiting_bridge" /\ a.previous_update_u < anchor
        <5>1. e.first_update_id <= anchor
          BY <1>1, <1>2, <2>4, <4>1 DEF NoSnapshotInAHole
        <5> QED
          BY <1>4, <4>1, <5>1
      <4>2. CASE p.state = "live" /\ p.previous_u = a.previous_update_u
        <5>1. Follows(e, p.previous_u) /\ ~(u <= p.previous_u)
          BY <2>4, <4>2 DEF Follows
        <5> QED
          BY <1>5, <4>2, <5>1
      <4> QED
        BY <2>1, <4>1, <4>2
    <3> HIDE DEF b
    <3>9. Agree(q, b)
      BY <2>1, <3>1, <3>2 DEF Agree
    <3> QED
      BY <3>9 DEF q, b
  <2>5. CASE ~(u <= a.previous_update_u) /\ e.previous_final_update_id # a.previous_update_u
    <3>1. b = broken
      BY <2>2, <2>5
    <3> QED
      BY <1>3, <3>1
  <2> QED
    BY <2>3, <2>4, <2>5
<1> QED
  BY <1>2, <1>6, <1>7

\* A call of the packer and what is left of it when its records are written.
LEMMA ReturnedPacker ==
    ASSUME NEW q, NEW p \in Packers, p = [q EXCEPT !.out = <<>>], NEW a, Agree(q, a)
    PROVE  Agree(p, a)
<1>1. DOMAIN p = DOMAIN q
  OBVIOUS
<1>2. DOMAIN p = {"state", "previous_u", "snapshot_anchor", "buffered_while_invalid",
                  "pending_live_snapshot", "deferred_live_updates",
                  "last_update_received", "out"}
  BY DEF Packers
<1>3. \A x \in DOMAIN q : x # "out" => p[x] = q[x]
  BY <1>1
<1>4. p.state = q.state /\ p.previous_u = q.previous_u /\ p.snapshot_anchor = q.snapshot_anchor
  BY <1>1, <1>2, <1>3
<1> QED
  BY <1>4 DEF Agree

LEMMA FlushAgrees ==
    ASSUME NEW p \in Packers, NEW a, Agree(p, a)
    PROVE  Agree(FlushDeferred(p), a) /\ FlushDeferred(p).deferred_live_updates = <<>>
<1> DEFINE f == FlushDeferred(p)
<1>1. /\ f.state = p.state /\ f.previous_u = p.previous_u
      /\ f.snapshot_anchor = p.snapshot_anchor /\ f.deferred_live_updates = <<>>
  BY DEF FlushDeferred, Packers
<1> HIDE DEF f
<1>2. Agree(f, a)
  BY <1>1 DEF Agree
<1> QED
  BY <1>1, <1>2 DEF f

\* A snapshot that is not older than the packer's last one.
LEMMA SnapshotAgrees ==
    ASSUME NEW p \in Packers, Held(p), p.out = <<>>, NEW a \in Audits, Agree(p, a),
           NEW m \in VendorSnapshots,
           p.snapshot_anchor <= PackSnapshot(p, m).snapshot_anchor
    PROVE  Agree(PackSnapshot(p, m), a)
<1> DEFINE id == m.depth.last_update_id
           f == FlushDeferred(p)
           kept == [p EXCEPT !.pending_live_snapshot = m]
           flushed == [f EXCEPT !.pending_live_snapshot = m]
           shown == [p EXCEPT !.out = Append(@, SnapshotRecord(m.received_time, m))]
           q == Realign(shown, id)
<1>1. Agree(kept, a)
  <2>1. /\ kept.state = p.state /\ kept.previous_u = p.previous_u
        /\ kept.snapshot_anchor = p.snapshot_anchor
    BY DEF Packers
  <2> HIDE DEF kept
  <2> QED
    BY <2>1 DEF Agree
<1>2. Agree(flushed, a)
  <2>1. /\ flushed.state = p.state /\ flushed.previous_u = p.previous_u
        /\ flushed.snapshot_anchor = p.snapshot_anchor
    BY DEF FlushDeferred, Packers
  <2> HIDE DEF flushed
  <2> QED
    BY <2>1 DEF Agree
<1>3. ASSUME p.state # "live", p.snapshot_anchor <= q.snapshot_anchor
      PROVE  Agree(q, a)
  <2>1. a.awaiting_initial_bridge \in BOOLEAN /\ a.previous_update_u \in Ids
        /\ a.initial_snapshot_id \in SnapshotIds
    BY DEF Audits
  <2>2. p.state = "awaiting_bridge" /\ p.buffered_while_invalid = <<>>
    BY <1>3, <2>1 DEF Agree, Held
  <2>3. Realigned(<<>>, id).state = "awaiting_bridge"
    <3>1. FromId(<<>>, id) \in Seq(Depths) /\ Len(FromId(<<>>, id)) <= 0
      BY NothingDeferred, FromIdTypes
    <3>2. FromId(<<>>, id) = <<>>
      BY <3>1
    <3> QED
      BY <3>2 DEF Realigned
  <2>4. q.state = "awaiting_bridge" /\ q.snapshot_anchor = id
    <3> DEFINE b == Realigned(p.buffered_while_invalid, id)
    <3>1. q.state = b.state /\ q.snapshot_anchor = id
      BY <1>3, RealignIs
    <3>2. b = Realigned(<<>>, id)
      BY <2>2
    <3> HIDE DEF q, b
    <3> QED
      BY <2>3, <3>1, <3>2
  <2>5. p.snapshot_anchor \in Int /\ id \in Int /\ a.previous_update_u \in Int
        /\ a.initial_snapshot_id \in Int
    <3>1. Ids \subseteq Int /\ SnapshotIds \subseteq Ids /\ p.snapshot_anchor \in SnapshotIds
          /\ id \in Ids
      BY HistoricalAssumption, ExchangeAssumption, Messages DEF Ids, Packers
    <3> QED
      BY <2>1, <3>1
  <2> HIDE DEF q, id
  <2> QED
    BY <1>3, <2>1, <2>2, <2>4, <2>5 DEF Agree
<1>4. \/ PackSnapshot(p, m) = p
      \/ PackSnapshot(p, m) \in {kept, flushed}
      \/ p.state # "live" /\ PackSnapshot(p, m) = q
  BY DEF PackSnapshot, PackLiveSnapshot
<1> HIDE DEF kept, flushed, q
<1> QED
  BY <1>1, <1>2, <1>3, <1>4

LEMMA CleanNext ==
    ASSUME NoSnapshotInAHole, L2Inv, L2Inv', OrderInv, CleanInv, [HNext]_hvars
    PROVE  CleanInv'
<1>1. CASE stage \in {"stream", "packed"}
  <2>1. /\ packer \in Packers /\ packer.out = <<>> /\ Held(packer)
        /\ audit \in Audits /\ in_order \in BOOLEAN /\ cursor \in AKey /\ initial \in VendorSnapshots
        /\ ~Less(cursor, OrderingKey(initial))
    BY <1>1 DEF L2Inv, Ready, CleanInv, OrderInv
  <2>2. CASE UNCHANGED hvars
    BY <2>2 DEF hvars, CleanInv
  <2>3. CASE CloseFile
    <3> DEFINE q == IF packer.state = "live" THEN FlushDeferred(packer) ELSE packer
    <3>1. /\ stage = "stream" /\ stage' = "packed" /\ Wrote(q)
          /\ UNCHANGED <<cursor, audit, in_order>>
      BY <2>3 DEF CloseFile
    <3>2. packer' = [q EXCEPT !.out = <<>>] /\ packer' \in Packers
      BY <3>1 DEF Wrote, L2Inv, Ready
    <3>3. ASSUME Agree(packer, audit) PROVE Agree(packer', audit)
      <4>1. Agree(q, audit)
        BY <2>1, <3>3, FlushAgrees
      <4> HIDE DEF q
      <4> QED
        BY <3>2, <4>1, ReturnedPacker
    <3>4. ASSUME packer'.state = "live" PROVE packer'.deferred_live_updates = <<>>
      <4>1. packer.state = "live"
        BY <2>1, <3>2, <3>4
      <4>2. q = FlushDeferred(packer)
        BY <4>1
      <4>3. packer'.deferred_live_updates = <<>>
        BY <2>1, <3>2, <4>2 DEF FlushDeferred, Packers
      <4> QED
        BY <4>3
    <3>5. Agree(packer, audit)' <=> Agree(packer', audit)
      BY <3>1
    <3> QED
      BY <1>1, <2>1, <3>1, <3>3, <3>4, <3>5 DEF CleanInv
  <2>4. ASSUME NEW m \in VendorSnapshots \cup UpdateMessages,
               stage' = "stream", Read(m), ~Less(OrderingKey(m), cursor)
        PROVE  CleanInv'
    <3> DEFINE q == Pack(packer, m)
    <3>1. /\ cursor' = OrderingKey(m) /\ audit' = Audit(audit, m) /\ Wrote(q)
          /\ in_order' = (in_order /\ packer.snapshot_anchor <= packer'.snapshot_anchor)
      BY <2>4 DEF Read
    <3>2. /\ audit' \in Audits
          /\ audit'.pu_breaks = 0 => audit.pu_breaks = 0
      BY <2>1, <3>1, AuditTypes
    <3>3. packer' = [q EXCEPT !.out = <<>>] /\ packer' \in Packers
      BY <2>4, <3>1 DEF Wrote, L2Inv, Ready
    <3>4. ASSUME in_order', audit'.pu_breaks = 0, cursor'[1] < EndTime
          PROVE  Agree(packer', audit')
      <4>1. /\ OrderingKey(m) \in AKey /\ OrderingKey(m)[1] = m.received_time
            /\ m.received_time \in Nat /\ cursor[1] <= m.received_time
            /\ OrderingKey(initial) \in AKey /\ OrderingKey(initial)[3] = 0
            /\ cursor[1] \in Int
        <5>1. cursor[1] \in Int
          <6>1. cursor \in AKey
            BY <2>1
          <6>2. cursor \in Seq(Int) /\ Len(cursor) = 5
            BY <6>1 DEF AKey
          <6>3. 1 \in 1 .. Len(cursor)
            BY <6>2
          <6> QED
            BY <6>2, <6>3, ElementOfSeq
        <5>2. OrderingKey(m) \in AKey /\ OrderingKey(m)[1] = m.received_time
          BY <2>4, Keys
        <5>3. m.received_time \in Nat
          BY <2>4, Messages
        <5>4. OrderingKey(initial) \in AKey /\ OrderingKey(initial)[3] = 0
          BY <2>1, Keys
        <5>5. cursor[1] <= OrderingKey(m)[1]
          BY <2>1, <2>4, <5>2, KeysOrdered
        <5> QED
          BY <5>1, <5>2, <5>3, <5>4, <5>5
      <4>2. m.received_time < EndTime /\ cursor[1] < EndTime
        BY <3>1, <3>4, <4>1, HistoricalAssumption
      <4>3. Agree(packer, audit) /\ packer.snapshot_anchor <= packer'.snapshot_anchor
        <5>1. in_order /\ packer.snapshot_anchor <= packer'.snapshot_anchor
          BY <3>1, <3>4
        <5>2. audit.pu_breaks = 0
          BY <3>2, <3>4
        <5> QED
          BY <1>1, <4>2, <5>1, <5>2 DEF CleanInv
      <4>4. CASE m \in VendorSnapshots
        <5>1. audit' = audit
          BY <2>1, <3>1, <4>4, AuditTypes
        <5>2. q \in {packer, PackSnapshot(packer, m)}
          BY <4>4, Messages DEF Pack
        <5>3. q.snapshot_anchor = packer'.snapshot_anchor
          <6>1. DOMAIN packer' = DOMAIN q /\ "snapshot_anchor" \in DOMAIN packer'
            BY <3>3 DEF Packers
          <6> HIDE DEF q
          <6> QED
            BY <3>3, <6>1
        <5>4. Agree(q, audit)
          <6>1. ASSUME q = PackSnapshot(packer, m) PROVE Agree(q, audit)
            <7>1. packer.snapshot_anchor <= PackSnapshot(packer, m).snapshot_anchor
              BY <4>3, <5>3, <6>1
            <7> QED
              BY <2>1, <4>3, <4>4, <6>1, <7>1, SnapshotAgrees
          <6> QED
            BY <4>3, <5>2, <6>1
        <5> HIDE DEF q
        <5> QED
          BY <3>3, <5>1, <5>4, ReturnedPacker
      <4>5. CASE m \in UpdateMessages
        <5>1. OrderingKey(m)[3] = 1
          BY <4>5, Keys
        <5>2. Less(OrderingKey(initial), OrderingKey(m))
          <6>1. ~Less(OrderingKey(m), OrderingKey(initial))
            BY <2>1, <2>4, <4>1, KeysOrdered
          <6> DEFINE k == OrderingKey(m)
                     l == OrderingKey(initial)
          <6>2. /\ \A i \in 1 .. 5 : k[i] \in Int /\ l[i] \in Int
            <7>1. k \in Seq(Int) /\ l \in Seq(Int) /\ Len(k) = 5 /\ Len(l) = 5
              BY <4>1 DEF AKey
            <7> HIDE DEF k, l
            <7> QED
              BY <7>1, ElementOfSeq
          <6>3. /\ k[1] \in Int /\ k[2] \in Int /\ k[3] = 1 /\ l[1] \in Int /\ l[2] \in Int
                /\ l[3] = 0 /\ k \in AKey /\ l \in AKey
            BY <4>1, <5>1, <6>2
          <6> HIDE DEF k, l
          <6> QED
            BY <6>1, <6>3, KeysCompare DEF k, l
        <5>3. q = PackUpdate(packer, m)
          <6>1. m.event_type = "update" /\ ~(m.received_time >= EndTime)
            BY <4>1, <4>2, <4>5, Messages, HistoricalAssumption
          <6> QED
            BY <5>2, <6>1 DEF Pack
        <5>4. Agree(q, audit')
          <6>1. audit.pu_breaks = 0 /\ Audit(audit, m).pu_breaks = 0
            BY <3>1, <3>2, <3>4
          <6>2. Agree(PackUpdate(packer, m), Audit(audit, m))
            BY <2>1, <4>3, <4>5, <6>1, UpdateAgrees
          <6> QED
            BY <3>1, <5>3, <6>2
        <5> HIDE DEF q
        <5> QED
          BY <3>3, <5>4, ReturnedPacker
      <4> QED
        BY <4>4, <4>5
    <3>5. in_order' \in BOOLEAN
      BY <3>1
    <3>6. Agree(packer, audit)' <=> Agree(packer', audit')
      OBVIOUS
    <3> QED
      <4>1. stage' # "packed"
        BY <2>4
      <4>2. in_order' /\ audit'.pu_breaks = 0 /\ cursor'[1] < EndTime => Agree(packer, audit)'
        BY <3>4, <3>6
      <4> QED
        BY <3>2, <3>5, <4>1, <4>2 DEF CleanInv
  <2> QED
    BY <1>1, <2>2, <2>3, <2>4, StreamSteps
<1>2. CASE stage \notin {"stream", "packed"}
  <2>1. CASE UNCHANGED hvars
    BY <2>1 DEF hvars, CleanInv
  <2>2. ASSUME NEW allow \in BOOLEAN, Discover(allow) PROVE CleanInv'
    <3> DEFINE found == DiscoverSnapshot(allow)
    <3>1. CASE found = NoMessage
      BY <2>2, <3>1 DEF Discover, CleanInv
    <3>2. CASE found # NoMessage
      <4> DEFINE q == NewPacker(found)
                 a == NewAudit(found)
      <4>1. found \in VendorSnapshots /\ in_order = TRUE
        BY <2>2, <3>2, DiscoverFinds DEF OrderInv, Discover
      <4>2. stage' = "stream" /\ audit' = a /\ Wrote(q) /\ in_order' = in_order
        BY <2>2, <3>2 DEF Discover
      <4> HIDE DEF found
      <4>3. /\ q.state = "awaiting_bridge" /\ q.snapshot_anchor = found.depth.last_update_id
            /\ packer' = [q EXCEPT !.out = <<>>] /\ packer' \in Packers
        BY <4>1, <4>2, NewPackerIs DEF Wrote, L2Inv, Ready
      <4>4. /\ a \in Audits /\ a.initial_snapshot_id = found.depth.last_update_id
            /\ a.awaiting_initial_bridge = TRUE /\ a.contiguous_updates = 0
        <5>1. 0 \in Ids
          BY ExchangeAssumption DEF Ids
        <5> QED
          BY <4>1, <5>1, Messages DEF NewAudit, Audits
      <4>5. Agree(q, a)
        <5>1. found.depth.last_update_id \in Int
          BY <4>1, Messages, ExchangeAssumption DEF Ids
        <5> HIDE DEF q, a
        <5> QED
          BY <4>3, <4>4, <5>1 DEF Agree
      <4> HIDE DEF q, a
      <4>6. Agree(packer', audit')
        BY <4>2, <4>3, <4>5, ReturnedPacker
      <4>7. Agree(packer, audit)' <=> Agree(packer', audit')
        OBVIOUS
      <4> QED
        BY <4>1, <4>2, <4>4, <4>6, <4>7 DEF CleanInv
    <3> QED
      BY <3>1, <3>2
  <2> QED
    BY <1>2, <2>1, <2>2 DEF HNext, NextSnapshot, NextUpdate, CloseFile
<1> QED
  BY <1>1, <1>2

LEMMA CleanSafe == L2Inv /\ CleanInv => CleanAuditReplays
<1> SUFFICES ASSUME L2Inv, CleanInv, CleanAudit, in_order
             PROVE  ReplaysToTheEnd
  BY DEF CleanAuditReplays
<1>1. /\ stage = "packed" /\ cursor[1] < EndTime /\ audit.pu_breaks = 0
      /\ audit.contiguous_updates > 0 /\ packer.snapshot_anchor <= audit.previous_update_u
  BY DEF CleanAudit
<1>2. /\ audit \in Audits /\ Agree(packer, audit) /\ packer \in Packers
      /\ Tracks(packer, replay)
      /\ packer.state = "live" => packer.deferred_live_updates = <<>>
  BY <1>1 DEF CleanInv, L2Inv, Ready
<1>3. packer.state = "live" /\ packer.previous_u = audit.previous_update_u
  <2>1. /\ packer.snapshot_anchor \in SnapshotIds /\ audit.previous_update_u \in Ids
        /\ audit.awaiting_initial_bridge \in BOOLEAN
    BY <1>2 DEF Packers, Audits
  <2>2. Ids \subseteq Int /\ SnapshotIds \subseteq Ids
    BY HistoricalAssumption, ExchangeAssumption DEF Ids
  <2>3. packer.snapshot_anchor \in Int /\ audit.previous_update_u \in Int
    BY <2>1, <2>2
  <2> QED
    BY <1>1, <1>2, <2>1, <2>3 DEF Agree
<1>4. LiveAt(replay, audit.previous_update_u) /\ replay.sync = ds
  BY <1>2, <1>3 DEF Tracks, replay
<1> QED
  BY <1>4 DEF ReplaysToTheEnd, LiveAt, Replays, ShowsBook

\* CleanAuditReplays (audit_continuity): a clean audit is what the replay bears
\* out, for any stream in which the snapshots the packer takes come in the order
\* of their ids: the packed book is live at the last update the audit followed.
\* Of the vendor's updates it is assumed that none leaves out the id of a
\* snapshot; of the book that it has both sides, and of the synchronizer that
\* its buffer is not filled.
THEOREM CleanAuditBorneOut ==
    ASSUME AlwaysQuoted, RoomForAll, NoSnapshotInAHole
    PROVE  HSpec => []CleanAuditReplays
<1>1. AlwaysQuoted /\ RoomForAll /\ NoSnapshotInAHole
  OBVIOUS
<1>2. HInit => L2Inv /\ OrderInv /\ CleanInv
  BY L2Init, OrderInit DEF HInit, CleanInv
<1>3. L2Inv /\ OrderInv /\ [HNext]_hvars => L2Inv' /\ OrderInv'
  BY <1>1, L2Next, OrderNext
<1>4. L2Inv /\ OrderInv /\ CleanInv /\ [HNext]_hvars => L2Inv' /\ OrderInv' /\ CleanInv'
  BY <1>1, <1>3, CleanNext
<1>5. L2Inv /\ CleanInv => CleanAuditReplays
  BY CleanSafe
<1> QED
  BY <1>2, <1>4, <1>5, PTL DEF HSpec
===============================================================================
