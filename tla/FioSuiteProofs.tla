---------------------------- MODULE FioSuiteProofs ----------------------------
(***************************************************************************)
(* Proofs about FioSuite, for any arguments of run_all, any links and any  *)
(* failures: every report is true, and a suite stops where it should.      *)
(***************************************************************************)
EXTENDS FioSuite, SequenceTheorems, TLAPS

(***************************************************************************)
(* Reports and log entries are in the order of the three loops.            *)
(***************************************************************************)

At == Nat \X Nat \X Nat

Reports ==
  [config : {<<Combinations[c][1], suite.jobs[j]>> : c \in Nat, j \in Nat},
   status : {"SUCCESS", "FAILED"}, at : At]

Entries == [at : At, well : BOOLEAN]

\* s is in order, and comes before the position p.
Ascending(s, p) ==
  /\ \A i \in DOMAIN s : Before(s[i].at, p)
  /\ \A i, k \in DOMAIN s : i < k => Before(s[i].at, s[k].at)

\* The order of positions is transitive.
LEMMA BeforeTransitive ==
  ASSUME NEW a \in At, NEW b \in At, NEW c \in At, Before(a, b), Before(b, c)
  PROVE  Before(a, c)
  BY DEF At, Before

\* What is before a position is before a later one.
LEMMA AscendingLater ==
  ASSUME NEW S, \A x \in S : x.at \in At, NEW s \in Seq(S),
         NEW p \in At, NEW q \in At, Before(p, q), Ascending(s, p)
  PROVE  Ascending(s, q)
  <1>1. \A i \in DOMAIN s : s[i].at \in At
    OBVIOUS
  <1>2. QED BY <1>1, BeforeTransitive DEF Ascending

\* Something of the current position may be appended when the position moves.
LEMMA AscendingAppend ==
  ASSUME NEW S, \A x \in S : x.at \in At, NEW s \in Seq(S), NEW e \in S,
         NEW q \in At, Before(e.at, q), Ascending(s, e.at)
  PROVE  Ascending(Append(s, e), q)
  <1>1. Ascending(s, q)
    BY AscendingLater
  <1>2. /\ DOMAIN Append(s, e) = 1 .. Len(s) + 1 /\ DOMAIN s = 1 .. Len(s)
        /\ Len(s) \in Nat
        /\ Append(s, e)[Len(s) + 1] = e
        /\ \A i \in 1 .. Len(s) : Append(s, e)[i] = s[i]
    OBVIOUS
  <1>3. ASSUME NEW i \in 1 .. Len(s) + 1
        PROVE  i \in 1 .. Len(s) \/ i = Len(s) + 1
    BY <1>2
  <1>4. ASSUME NEW i \in DOMAIN Append(s, e)
        PROVE  Before(Append(s, e)[i].at, q)
    BY <1>1, <1>2, <1>3, <1>4 DEF Ascending
  <1>5. ASSUME NEW i \in DOMAIN Append(s, e), NEW k \in DOMAIN Append(s, e), i < k
        PROVE  Before(Append(s, e)[i].at, Append(s, e)[k].at)
    <2>1. i \in 1 .. Len(s)
      BY <1>2, <1>5
    <2>2. CASE k \in 1 .. Len(s)
      BY <1>2, <1>5, <2>1, <2>2 DEF Ascending
    <2>3. CASE k = Len(s) + 1
      BY <1>2, <1>5, <2>1, <2>3 DEF Ascending
    <2>4. QED BY <1>2, <1>3, <2>2, <2>3
  <1>6. QED BY <1>4, <1>5 DEF Ascending

\* The front of a sequence in order is in order.
LEMMA AscendingFront ==
  ASSUME NEW S, NEW s \in Seq(S), NEW t \in Seq(S), NEW p, Ascending(s \o t, p)
  PROVE  Ascending(s, p)
  <1>1. /\ DOMAIN s = 1 .. Len(s) /\ DOMAIN (s \o t) = 1 .. Len(s) + Len(t)
        /\ Len(s) \in Nat /\ Len(t) \in Nat
        /\ \A i \in 1 .. Len(s) : (s \o t)[i] = s[i]
    BY ConcatProperties, LenProperties
  <1>2. \A i \in DOMAIN s : i \in DOMAIN (s \o t) /\ (s \o t)[i] = s[i]
    BY <1>1
  <1>3. QED BY <1>2 DEF Ascending

(***************************************************************************)
(* The invariant.                                                          *)
(***************************************************************************)

Shape ==
  /\ suite \in Suites
  /\ iteration \in Nat /\ config \in Nat /\ job \in Nat
  /\ results \in Seq(Reports) /\ allResults \in Seq(Reports)
  /\ log \in Seq(Entries)
  /\ told \in [entry : BOOLEAN, vm : BOOLEAN, exit : BOOLEAN]
  /\ pc \in {"config", "summary", "done"} => results = <<>> /\ job = 1

\* What the exception on its way says of the job, step by step.
Knows ==
  /\ pc \in {"enter", "exit"} => Checked
  /\ pc = "start" => exc = "none" /\ (Checked => told.entry)
  /\ pc = "exit" => told.entry /\ (exc = "none" <=> told.vm)
  /\ pc = "record" => (exc = "none" <=> WentWell)

\* Every report of s is of a job of the log, and tells what became of it.
True(s) ==
  \A i \in DOMAIN s : \E k \in DOMAIN log :
    log[k].at = s[i].at /\ ((s[i].status = "SUCCESS") = log[k].well)

\* Without continue_on_error, a failure lies in an iteration that is over.
Stopped ==
  ~suite.continue =>
    /\ \A i \in DOMAIN log : ~log[i].well => log[i].at[1] < iteration
    /\ StopsAtFailure

SuiteInv ==
  /\ Shape /\ Knows /\ Stopped
  /\ Ascending(log, Position) /\ Ascending(Reported, Position)
  /\ True(Reported)

\* The next configuration or iteration is later.
LEMMA PositionAdvances ==
  ASSUME Shape, NextConfig \/ NextIteration, job' = 1
  PROVE  /\ iteration' \in Nat /\ config' \in Nat /\ iteration' >= iteration
         /\ Position \in At /\ Position' \in At /\ Before(Position, Position')
         /\ pc' \in {"config", "summary"}
         /\ NextIteration => iteration' > iteration
  BY DEF Shape, NextConfig, NextIteration, Goto, At, Position, Before

\* An entry of the log has its position, and an iteration in it.
LEMMA EntryTypes ==
  ASSUME NEW s \in Seq(Entries), NEW k \in DOMAIN s
  PROVE  s[k].at \in At /\ s[k].at[1] \in Nat
  <1>1. s[k] \in Entries
    OBVIOUS
  <1>2. s[k].at \in At
    BY <1>1 DEF Entries
  <1>3. QED BY <1>2 DEF At

\* The log holds no job of an iteration to come.
LEMMA LogNotAhead ==
  ASSUME Shape, Ascending(log, Position), NEW k \in DOMAIN log
  PROVE  log[k].at[1] \in Nat /\ log[k].at[1] <= iteration
  <1>1. log[k].at \in At /\ log[k].at[1] \in Nat /\ Position[1] = iteration
    BY EntryTypes DEF Shape, Position
  <1>2. Before(log[k].at, Position)
    BY DEF Ascending
  <1>3. log[k].at[1] < Position[1] \/ log[k].at[1] = Position[1]
    BY <1>2 DEF Before
  <1>4. QED BY <1>1, <1>3 DEF Shape

\* While the log stays as it is, the iteration may go up.
LEMMA StoppedKept ==
  ASSUME Shape, Stopped, UNCHANGED <<suite, log>>, iteration' \in Nat,
         iteration' >= iteration
  PROVE  Stopped'
  <1>1. \A k \in DOMAIN log : log[k].at[1] \in Nat
    BY EntryTypes DEF Shape
  <1>2. QED BY <1>1 DEF Stopped, StopsAtFailure, Shape

\* Nothing is reported, and nothing has run, at first.
LEMMA SuiteInit == Init => SuiteInv
  <1> SUFFICES ASSUME Init PROVE SuiteInv
    OBVIOUS
  <1>1. Reported = <<>> /\ log = <<>>
    BY DEF Init, Reported
  <1>2. Shape /\ Knows
    BY DEF Init, Shape, Knows, NoTruth
  <1>3. QED
    BY <1>1, <1>2 DEF SuiteInv, Stopped, StopsAtFailure, Ascending, True

\* A step within a job moves neither the position nor what is on record.
LEMMA QuietStep ==
  ASSUME SuiteInv, UNCHANGED <<suite, position, results, allResults, log>>,
         Shape', Knows'
  PROVE  SuiteInv'
  <1>1. Reported' = Reported /\ Position' = Position
    BY DEF Reported, Position, position
  <1>2. True(Reported)' /\ Ascending(log, Position)' /\ Ascending(Reported, Position)'
    BY <1>1 DEF SuiteInv, True, Ascending
  <1>3. Stopped'
    BY DEF SuiteInv, Stopped, StopsAtFailure, position
  <1>4. QED BY <1>2, <1>3 DEF SuiteInv

\* An exception takes the results of the call along, and the log is as it was.
LEMMA RaiseStep ==
  ASSUME SuiteInv, TestsRaise, UNCHANGED <<suite, log>>,
         told' \in [entry : BOOLEAN, vm : BOOLEAN, exit : BOOLEAN]
  PROVE  SuiteInv'
  <1> USE DEF SuiteInv
  <1>1. /\ NextConfig \/ NextIteration
        /\ job' = 1 /\ results' = <<>> /\ allResults' = allResults
    BY DEF TestsRaise
  <1>2. /\ iteration' \in Nat /\ config' \in Nat /\ iteration' >= iteration
        /\ Position \in At /\ Position' \in At /\ Before(Position, Position')
        /\ pc' \in {"config", "summary"}
    BY <1>1, PositionAdvances
  <1>3. Combinations' = Combinations
    BY DEF Combinations
  <1>4. Shape' /\ Knows'
    BY <1>1, <1>2, <1>3 DEF Shape, Knows, Reports
  <1>5. Reported' = allResults
    BY <1>1, ConcatEmptySeq DEF Reported, Shape
  <1>6. /\ \A x \in Reports : x.at \in At
        /\ \A x \in Entries : x.at \in At
    BY DEF Reports, Entries
  <1>7. Ascending(allResults, Position)
    BY AscendingFront DEF Reported, Shape
  <1>8. Ascending(allResults, Position') /\ Ascending(log, Position')
    BY <1>2, <1>6, <1>7, AscendingLater DEF Shape
  <1>9. True(Reported)'
    <2>1. \A i \in DOMAIN allResults : i \in DOMAIN Reported /\ Reported[i] = allResults[i]
      BY ConcatProperties, LenProperties DEF Reported, Shape
    <2>2. QED BY <1>5, <2>1 DEF True
  <1>10. Stopped'
    BY <1>2, StoppedKept
  <1>11. QED BY <1>4, <1>5, <1>8, <1>9, <1>10 DEF Ascending

\* run_all takes the results of a call over.
LEMMA EndTestsStep ==
  ASSUME SuiteInv, EndTests
  PROVE  SuiteInv'
  <1> USE DEF SuiteInv
  <1>1. /\ NextConfig /\ job' = 1 /\ results' = <<>>
        /\ allResults' = allResults \o results
        /\ UNCHANGED <<suite, exc, told, log>>
    BY DEF EndTests
  <1>2. /\ iteration' \in Nat /\ config' \in Nat /\ iteration' >= iteration
        /\ Position \in At /\ Position' \in At /\ Before(Position, Position')
        /\ pc' \in {"config", "summary"}
    BY <1>1, PositionAdvances
  <1>3. Combinations' = Combinations
    BY <1>1 DEF Combinations
  <1>4. Reported \in Seq(Reports)
    BY ConcatProperties DEF Reported, Shape
  <1>5. Shape' /\ Knows'
    BY <1>1, <1>2, <1>3, <1>4 DEF Shape, Knows, Reports, Reported
  <1>6. Reported' = Reported
    BY <1>1, <1>4, ConcatEmptySeq DEF Reported
  <1>7. /\ \A x \in Reports : x.at \in At
        /\ \A x \in Entries : x.at \in At
    BY DEF Reports, Entries
  <1>8. Ascending(Reported, Position') /\ Ascending(log, Position')
    BY <1>2, <1>4, <1>7, AscendingLater DEF Shape
  <1>9. Stopped'
    BY <1>1, <1>2, StoppedKept
  <1>10. QED BY <1>1, <1>5, <1>6, <1>8, <1>9 DEF Ascending, True

\* The log after a job: in order, and true to what has happened.
LEMMA LogStep ==
  ASSUME SuiteInv, log' = Append(log, [at |-> Position, well |-> WentWell])
  PROVE  /\ log' \in Seq(Entries)
         /\ Len(log) \in Nat /\ DOMAIN log = 1 .. Len(log)
         /\ DOMAIN log' = 1 .. Len(log) + 1
         /\ \A k \in 1 .. Len(log) : log'[k] = log[k]
         /\ log'[Len(log) + 1] = [at |-> Position, well |-> WentWell]
         /\ \A q \in At : Before(Position, q) => Ascending(log', q)
  <1> DEFINE e == [at |-> Position, well |-> WentWell]
  <1>1. e \in Entries /\ e.at = Position /\ log \in Seq(Entries)
    BY DEF SuiteInv, Shape, Entries, At, Position, WentWell, Checked
  <1>2. \A x \in Entries : x.at \in At
    BY DEF Entries
  <1>3. Ascending(log, e.at)
    BY <1>1 DEF SuiteInv
  <1>4. ASSUME NEW q \in At, Before(Position, q)
        PROVE  Ascending(Append(log, e), q)
    BY <1>1, <1>2, <1>3, <1>4, AscendingAppend
  <1>5. QED BY <1>1, <1>4

\* A failure that ends the iteration is in the log only.
LEMMA RecordRaises ==
  ASSUME SuiteInv, Record, pc = "record", exc # "none", ~suite.continue, TestsRaise
  PROVE  SuiteInv'
  <1> USE DEF SuiteInv
  <1>1. /\ log' = Append(log, [at |-> Position, well |-> WentWell])
        /\ UNCHANGED <<suite, exc, told>>
        /\ NextIteration /\ job' = 1 /\ results' = <<>> /\ allResults' = allResults
    BY DEF Record, TestsRaise
  <1>2. /\ iteration' \in Nat /\ config' \in Nat /\ iteration' > iteration
        /\ Position \in At /\ Position' \in At /\ Before(Position, Position')
        /\ pc' \in {"config", "summary"}
    BY <1>1, PositionAdvances
  <1>3. Combinations' = Combinations
    BY <1>1 DEF Combinations
  <1>l. /\ log' \in Seq(Entries)
        /\ Len(log) \in Nat /\ DOMAIN log = 1 .. Len(log)
        /\ DOMAIN log' = 1 .. Len(log) + 1
        /\ \A k \in 1 .. Len(log) : log'[k] = log[k]
        /\ log'[Len(log) + 1] = [at |-> Position, well |-> WentWell]
        /\ Ascending(log', Position')
    BY <1>1, <1>2, LogStep
  <1>4. Shape' /\ Knows'
    BY <1>1, <1>2, <1>3, <1>l DEF Shape, Knows, Reports
  <1>5. Reported' = allResults
    BY <1>1, ConcatEmptySeq DEF Reported, Shape
  <1>6. \A x \in Reports : x.at \in At
    BY DEF Reports
  <1>7. Ascending(allResults, Position)
    BY AscendingFront DEF Reported, Shape
  <1>8. Ascending(allResults, Position')
    BY <1>2, <1>6, <1>7, AscendingLater DEF Shape
  <1>9. True(Reported)'
    <2>1. \A i \in DOMAIN allResults : i \in DOMAIN Reported /\ Reported[i] = allResults[i]
      BY ConcatProperties, LenProperties DEF Reported, Shape
    <2>2. \A k \in DOMAIN log : k \in DOMAIN log' /\ log'[k] = log[k]
      BY <1>l
    <2>3. QED BY <1>5, <2>1, <2>2 DEF True
  <1>10. Stopped'
    <2>1. \A k \in DOMAIN log : log[k].at[1] \in Nat /\ log[k].at[1] <= iteration
      BY LogNotAhead
    <2>2. ASSUME NEW k \in DOMAIN log'
          PROVE  log'[k].at[1] < iteration'
      <3>1. CASE k = Len(log) + 1
        BY <1>2, <1>l, <3>1 DEF Position, Shape
      <3>2. CASE k \in DOMAIN log
        BY <1>2, <1>l, <2>1, <3>2 DEF Shape
      <3>3. QED BY <1>l, <2>2, <3>1, <3>2
    <2>3. ASSUME NEW i \in DOMAIN log', NEW k \in DOMAIN log', i < k, ~log'[i].well
          PROVE  log'[k].at[1] > log'[i].at[1]
      <3>1. i \in DOMAIN log /\ log'[i] = log[i]
        BY <1>l, <2>3
      <3>2. CASE k \in DOMAIN log
        BY <1>1, <1>l, <2>3, <3>1, <3>2 DEF Stopped, StopsAtFailure
      <3>3. CASE k = Len(log) + 1
        <4>1. log[i].at[1] < iteration /\ log'[k].at[1] = iteration
          BY <1>1, <1>l, <2>3, <3>1, <3>3 DEF Stopped, Position
        <4>2. QED BY <2>1, <3>1, <4>1 DEF Shape, At
      <3>4. QED BY <1>l, <2>3, <3>2, <3>3
    <2>4. QED BY <2>2, <2>3 DEF Stopped, StopsAtFailure
  <1>11. QED BY <1>4, <1>5, <1>8, <1>9, <1>10, <1>l DEF Ascending

\* A result appended to those of the call is appended to the whole.
LEMMA ReportedGrows ==
  ASSUME Shape, NEW o \in Reports, results' = Append(results, o), UNCHANGED allResults
  PROVE  Reported \in Seq(Reports) /\ Reported' = Append(Reported, o)
  <1>1. /\ results \in Seq(Reports) /\ allResults \in Seq(Reports)
        /\ Reported \in Seq(Reports)
    BY ConcatProperties DEF Reported, Shape
  <1>2. Append(results, o) = results \o <<o>> /\ Append(Reported, o) = Reported \o <<o>>
        /\ <<o>> \in Seq(Reports)
    BY <1>1
  <1>3. (allResults \o results) \o <<o>> = allResults \o (results \o <<o>>)
    BY <1>1, <1>2, ConcatAssociative
  <1>4. QED BY <1>1, <1>2, <1>3 DEF Reported

\* A job that went well, or whose failure the suite goes past, is reported.
LEMMA RecordReports ==
  ASSUME SuiteInv, Record, pc = "record", exc = "none" \/ suite.continue,
         results' = Append(results, Outcome(IF exc = "none" THEN "SUCCESS" ELSE "FAILED")),
         job' = job + 1, pc' = "job", UNCHANGED <<iteration, config, allResults>>
  PROVE  SuiteInv'
  <1> USE DEF SuiteInv
  <1> DEFINE o == Outcome(IF exc = "none" THEN "SUCCESS" ELSE "FAILED")
             e == [at |-> Position, well |-> WentWell]
  <1>1. log' = Append(log, e) /\ UNCHANGED <<suite, exc, told>>
    BY DEF Record
  <1>2. Position \in At /\ Position' \in At /\ Before(Position, Position')
    BY DEF Shape, At, Position, Before
  <1>3. Combinations' = Combinations
    BY <1>1 DEF Combinations
  <1>l. /\ log' \in Seq(Entries)
        /\ Len(log) \in Nat /\ DOMAIN log = 1 .. Len(log)
        /\ DOMAIN log' = 1 .. Len(log) + 1
        /\ \A k \in 1 .. Len(log) : log'[k] = log[k]
        /\ log'[Len(log) + 1] = e
        /\ Ascending(log', Position')
    BY <1>1, <1>2, LogStep
  <1>4. /\ o \in Reports /\ o.at = Position
        /\ (o.status = "SUCCESS") = WentWell
    <2>1. o.at = Position /\ o.status = IF exc = "none" THEN "SUCCESS" ELSE "FAILED"
      BY DEF Outcome
    <2>2. o \in Reports
      BY <1>2 DEF Outcome, Reports, Setup, Name, Shape
    <2>3. (exc = "none") <=> WentWell
      BY DEF Knows
    <2>4. WentWell \in BOOLEAN
      BY DEF WentWell, Shape, Checked
    <2>5. QED BY <2>1, <2>2, <2>3, <2>4
  <1>5. Shape' /\ Knows'
    <2>1. Reports' = Reports
      BY <1>1, <1>3 DEF Reports
    <2>2. results' \in Seq(Reports)
      BY <1>4 DEF Shape
    <2>3. QED BY <1>1, <1>l, <2>1, <2>2 DEF Shape, Knows
  <1>6. Reported \in Seq(Reports) /\ Reported' = Append(Reported, o)
    BY <1>4, ReportedGrows
  <1>7. Ascending(Reported', Position')
    <2>1. \A x \in Reports : x.at \in At
      BY DEF Reports
    <2>2. QED BY <1>2, <1>4, <1>6, <2>1, AscendingAppend
  <1>8. True(Reported)'
    <2>1. ASSUME NEW i \in DOMAIN Reported'
          PROVE  \E k \in DOMAIN log' : /\ log'[k].at = Reported'[i].at
                                        /\ (Reported'[i].status = "SUCCESS") = log'[k].well
      <3>1. /\ DOMAIN Reported' = 1 .. Len(Reported) + 1 /\ Len(Reported) \in Nat
            /\ DOMAIN Reported = 1 .. Len(Reported)
            /\ \A k \in 1 .. Len(Reported) : Reported'[k] = Reported[k]
            /\ Reported'[Len(Reported) + 1] = o
        BY <1>4, <1>6
      <3>2. CASE i = Len(Reported) + 1
        <4>1. /\ Len(log) + 1 \in DOMAIN log' /\ log'[Len(log) + 1].at = Position
              /\ log'[Len(log) + 1].well = WentWell
          BY <1>l
        <4>2. QED BY <1>4, <3>1, <3>2, <4>1
      <3>3. CASE i \in DOMAIN Reported
        <4>1. PICK k \in DOMAIN log : /\ log[k].at = Reported[i].at
                                      /\ (Reported[i].status = "SUCCESS") = log[k].well
          BY <3>3 DEF True
        <4>2. k \in DOMAIN log' /\ log'[k] = log[k] /\ Reported'[i] = Reported[i]
          BY <1>l, <3>1, <3>3
        <4>3. QED BY <4>1, <4>2
      <3>4. QED BY <3>1, <3>2, <3>3, <2>1
    <2>2. QED BY <2>1 DEF True
  <1>9. Stopped'
    <2>1. CASE suite.continue
      BY <1>1, <2>1 DEF Stopped
    <2>2. CASE ~suite.continue
      <3>1. WentWell
        BY <2>2 DEF Knows
      <3>2. ASSUME NEW i \in DOMAIN log', ~log'[i].well
            PROVE  i \in DOMAIN log /\ log'[i] = log[i] /\ log'[i].at[1] < iteration
        <4>1. i # Len(log) + 1
          BY <1>l, <3>1, <3>2
        <4>2. i \in DOMAIN log /\ log'[i] = log[i]
          BY <1>l, <3>2, <4>1
        <4>3. QED BY <2>2, <3>2, <4>2 DEF Stopped
      <3>3. ASSUME NEW i \in DOMAIN log', NEW k \in DOMAIN log', i < k, ~log'[i].well
            PROVE  log'[k].at[1] > log'[i].at[1]
        <4>1. i \in DOMAIN log /\ log'[i] = log[i] /\ log'[i].at[1] < iteration
          BY <3>2, <3>3
        <4>2. CASE k \in DOMAIN log
          BY <1>l, <2>2, <3>3, <4>1, <4>2 DEF Stopped, StopsAtFailure
        <4>3. CASE k = Len(log) + 1
          <5>1. log'[k].at[1] = iteration /\ log'[i].at[1] \in Nat
            BY <1>l, <4>1, <4>3, EntryTypes DEF Position
          <5>2. QED BY <4>1, <5>1 DEF Shape
        <4>4. QED BY <1>l, <3>3, <4>2, <4>3
      <3>4. QED BY <3>2, <3>3 DEF Stopped, StopsAtFailure
    <2>3. QED BY <2>1, <2>2
  <1>10. QED BY <1>5, <1>7, <1>8, <1>9, <1>l DEF Ascending

\* Every step keeps the invariant.
LEMMA SuiteNext == SuiteInv /\ [Next]_vars => SuiteInv'
  <1> SUFFICES ASSUME SuiteInv, [Next]_vars PROVE SuiteInv'
    OBVIOUS
  <1> USE DEF Goto, position
  <1>0. Shape /\ Knows
    BY DEF SuiteInv
  <1>c. ASSUME UNCHANGED <<suite, position>>
        PROVE  Combinations' = Combinations /\ Checked' = Checked
    BY <1>c DEF Combinations, Checked, Setup
  <1>1. CASE BeginTests
    <2>1. CASE suite.known
      <3>1. UNCHANGED <<suite, position, results, allResults, log, told>> /\ pc' = "job"
        BY <1>0, <1>1, <2>1 DEF BeginTests, Shape
      <3>2. Shape' /\ Knows'
        BY <1>0, <1>c, <3>1 DEF Shape, Knows, Reports
      <3>3. QED BY <3>1, <3>2, QuietStep
    <2>2. CASE TestsRaise
      <3>1. UNCHANGED <<suite, log, told>> /\ told \in [entry : BOOLEAN, vm : BOOLEAN, exit : BOOLEAN]
        BY <1>0, <1>1 DEF BeginTests, Shape
      <3>2. QED BY <2>2, <3>1, RaiseStep
    <2>3. QED BY <1>1, <2>1, <2>2 DEF BeginTests
  <1>2. CASE PlanJob
    <2>0. /\ exc' = "none" /\ told' = NoTruth /\ UNCHANGED <<suite, log>>
          /\ told' \in [entry : BOOLEAN, vm : BOOLEAN, exit : BOOLEAN]
      BY <1>2 DEF PlanJob, NoTruth
    <2>1. CASE TestsRaise
      BY <2>0, <2>1, RaiseStep
    <2>2. CASE /\ pc' = (IF Checked THEN "enter" ELSE "start")
               /\ UNCHANGED <<position, results, allResults>>
      <3>1. Shape' /\ Knows'
        BY <1>0, <1>c, <2>0, <2>2 DEF Shape, Knows, Reports
      <3>2. QED BY <2>0, <2>2, <3>1, QuietStep
    <2>3. QED BY <1>2, <2>1, <2>2 DEF PlanJob
  <1>3. CASE EnterSpeed
    <2>1. PICK link \in Links :
            /\ told' = [told EXCEPT !.entry = SpeedOK(link)]
            /\ exc' = (IF SpeedOK(link) THEN "none" ELSE "speed")
            /\ pc' = (IF SpeedOK(link) THEN "start" ELSE "record")
      BY <1>3 DEF EnterSpeed
    <2>2. /\ UNCHANGED <<suite, position, results, allResults, log>> /\ pc = "enter"
      BY <1>3 DEF EnterSpeed
    <2>3. SpeedOK(link) \in BOOLEAN
      BY DEF SpeedOK
    <2>4. told' \in [entry : BOOLEAN, vm : BOOLEAN, exit : BOOLEAN]
          /\ told'.entry = SpeedOK(link)
      BY <1>0, <2>1, <2>3 DEF Shape
    <2>5. Shape' /\ Knows'
      BY <1>0, <1>c, <2>1, <2>2, <2>4 DEF Shape, Knows, Reports, WentWell
    <2>6. QED BY <2>2, <2>5, QuietStep
  <1>4. CASE StartVm
    <2>1. PICK ok \in BOOLEAN : /\ told' = [told EXCEPT !.vm = ok]
                                /\ exc' = IF ok THEN "none" ELSE "vm"
      BY <1>4 DEF StartVm
    <2>2. /\ UNCHANGED <<suite, position, results, allResults, log>> /\ pc = "start"
          /\ pc' = IF Checked THEN "exit" ELSE "record"
      BY <1>4 DEF StartVm
    <2>3. told' \in [entry : BOOLEAN, vm : BOOLEAN, exit : BOOLEAN]
          /\ told'.vm = ok /\ told'.entry = told.entry
      BY <1>0, <2>1 DEF Shape
    <2>4. Shape' /\ Knows'
      BY <1>0, <1>c, <2>1, <2>2, <2>3 DEF Shape, Knows, Reports, WentWell
    <2>5. QED BY <2>2, <2>4, QuietStep
  <1>5. CASE ExitSpeed
    <2>1. PICK link \in Links : /\ told' = [told EXCEPT !.exit = SpeedOK(link)]
                                /\ exc' = IF SpeedOK(link) THEN exc ELSE "speed"
      BY <1>5 DEF ExitSpeed
    <2>2. /\ UNCHANGED <<suite, position, results, allResults, log>> /\ pc = "exit"
          /\ pc' = "record"
      BY <1>5 DEF ExitSpeed
    <2>3. SpeedOK(link) \in BOOLEAN
      BY DEF SpeedOK
    <2>4. told' \in [entry : BOOLEAN, vm : BOOLEAN, exit : BOOLEAN]
          /\ told'.exit = SpeedOK(link) /\ told'.vm = told.vm /\ told'.entry = told.entry
      BY <1>0, <2>1, <2>3 DEF Shape
    <2>5. Shape' /\ Knows'
      BY <1>0, <1>c, <2>1, <2>2, <2>4 DEF Shape, Knows, Reports, WentWell
    <2>6. QED BY <2>2, <2>5, QuietStep
  <1>6. CASE Record
    BY <1>6, RecordReports, RecordRaises DEF Record
  <1>7. CASE EndTests
    BY <1>7, EndTestsStep
  <1>8. CASE Summary
    <2>1. /\ UNCHANGED <<suite, position, results, allResults, log, told>>
          /\ pc = "summary" /\ pc' = "done"
      BY <1>8 DEF Summary
    <2>2. Shape' /\ Knows'
      BY <1>0, <1>c, <2>1 DEF Shape, Knows, Reports
    <2>3. QED BY <2>1, <2>2, QuietStep
  <1>9. CASE UNCHANGED vars
    <2>1. UNCHANGED <<suite, position, results, allResults, log, told, pc, exc>>
      BY <1>9 DEF vars
    <2>2. Shape' /\ Knows'
      BY <1>0, <1>c, <2>1 DEF Shape, Knows, Reports, WentWell
    <2>3. QED BY <2>1, <2>2, QuietStep
  <1>10. QED
    BY <1>1, <1>2, <1>3, <1>4, <1>5, <1>6, <1>7, <1>8, <1>9 DEF Next

\* The invariant holds in every reachable state.
LEMMA SuiteHolds == Spec => []SuiteInv
  BY SuiteInit, SuiteNext, PTL DEF Spec

\* For any arguments of run_all and any failures, every report is of a job that
\* ran, in the order of the loops, and says SUCCESS exactly if the job and both
\* looks at its link went well (run_tests, run_all, check_speed).
THEOREM ReportsAreHonest == Spec => []HonestResults
  <1>1. SuiteInv => HonestResults
    BY DEF SuiteInv, HonestResults, Ascending, True
  <1>2. QED BY <1>1, SuiteHolds, PTL

\* Without continue_on_error, no job runs in an iteration after one that failed
\* (run_tests, the break in run_all).
THEOREM NoneAfterFailure == Spec => []StopsAtFailure
  <1>1. SuiteInv => StopsAtFailure
    BY DEF SuiteInv, Stopped, StopsAtFailure
  <1>2. QED BY <1>1, SuiteHolds, PTL

(***************************************************************************)
(* The three loops: where the counters are, and that nothing they have     *)
(* passed is missing.                                                      *)
(***************************************************************************)

\* The quotient of a place in a table of m rows and n columns is a row.
LEMMA RowOf ==
  ASSUME NEW m \in Nat, NEW n \in Nat, NEW i \in 1 .. m * n
  PROVE  1 + ((i - 1) \div n) \in 1 .. m
  <1>1. n # 0
    <2>1. m * 0 = 0
      OBVIOUS
    <2>2. QED BY <2>1
  <1> DEFINE q == (i - 1) \div n
             r == (i - 1) % n
  <1>2. q \in Nat /\ r \in 0 .. n - 1 /\ i - 1 = n * q + r
    BY <1>1
  <1> HIDE DEF q, r
  <1>3. SUFFICES ASSUME m <= q PROVE FALSE
    BY <1>2 DEF q
  <1>4. n * m <= n * q
    BY <1>2, <1>3
  <1>5. n * m = m * n
    OBVIOUS
  <1>6. QED BY <1>2, <1>4, <1>5

\* A table without entries is the empty sequence.
LEMMA EmptyTable ==
  ASSUME NEW s, NEW k \in Nat, s = [i \in 1 .. k |-> s[i]], k = 0
  PROVE  s = <<>>
  OBVIOUS

\* The combinations are finitely many, each with a setup of the suite.
LEMMA CombinationsSound ==
  ASSUME suite \in Suites
  PROVE  /\ Len(Combinations) \in Nat
         /\ DOMAIN Combinations = 1 .. Len(Combinations)
         /\ Combinations = <<>> <=> Len(Combinations) = 0
         /\ \A c \in DOMAIN Combinations : \E i \in DOMAIN suite.setups :
              Combinations[c][1] = suite.setups[i]
  <1> DEFINE m == Len(suite.setups)
             n == Len(suite.blocks)
  <1>0. m \in Nat /\ n \in Nat /\ DOMAIN suite.setups = 1 .. m
    BY SuiteConstantsOK
  <1>1. m \in Nat /\ n \in Nat /\ m * n \in Nat /\ DOMAIN suite.setups = 1 .. m
    <2> HIDE DEF m, n
    <2>1. QED BY <1>0
  <1>2. Combinations = [i \in 1 .. m * n |->
          <<suite.setups[1 + ((i - 1) \div n)], suite.blocks[1 + ((i - 1) % n)]>>]
    BY DEF Combinations
  <1>3. ASSUME NEW c \in 1 .. m * n
        PROVE  /\ Combinations[c][1] = suite.setups[1 + ((c - 1) \div n)]
               /\ 1 + ((c - 1) \div n) \in 1 .. m
    <2>1. 1 + ((c - 1) \div n) \in 1 .. m
      BY <1>1, <1>3, RowOf
    <2>2. QED BY <1>2, <2>1
  <1>4. DOMAIN Combinations = 1 .. m * n /\ Len(Combinations) = m * n
    BY <1>1, <1>2
  <1>5. Combinations = <<>> <=> m * n = 0
    <2>1. ASSUME m * n = 0 PROVE Combinations = <<>>
      <3> HIDE DEF m, n
      <3>1. Combinations = [i \in 1 .. m * n |-> Combinations[i]]
        BY <1>2
      <3>2. QED BY <1>1, <2>1, <3>1, EmptyTable
    <2>2. ASSUME Combinations = <<>> PROVE m * n = 0
      BY <1>4, <2>2
    <2>3. QED BY <2>1, <2>2
  <1>6. QED BY <1>1, <1>3, <1>4, <1>5

Loops == {"config", "job", "enter", "start", "exit", "record"}

\* The counters stay within their loops, and leave them at the end only.
Bounds ==
  /\ TypeOK
  /\ pc \in Loops => iteration <= suite.iterations /\ config <= Len(Combinations)
  /\ pc \in {"enter", "start", "exit", "record"} => job <= Len(suite.jobs)
  /\ pc \in {"summary", "done"} =>
       iteration = 1 + suite.iterations \/ Combinations = <<>>

\* What SuiteInv says of the sequences is what TypeOK asks of them.
Statuses ==
  /\ \A i \in DOMAIN results : results[i].status \in {"SUCCESS", "FAILED"}
  /\ \A i \in DOMAIN allResults : allResults[i].status \in {"SUCCESS", "FAILED"}
  /\ \A k \in DOMAIN log : log[k].well \in BOOLEAN

LEMMA ShapeStatuses == Shape => Statuses
  <1> SUFFICES ASSUME Shape PROVE Statuses
    OBVIOUS
  <1>1. \A i \in DOMAIN results : results[i] \in Reports
    BY DEF Shape
  <1>2. \A i \in DOMAIN allResults : allResults[i] \in Reports
    BY DEF Shape
  <1>3. \A k \in DOMAIN log : log[k] \in Entries
    BY DEF Shape
  <1>4. QED BY <1>1, <1>2, <1>3 DEF Statuses, Reports, Entries

\* The next configuration or iteration is one of the loops, or their end.
LEMMA BoundsAdvance ==
  ASSUME Bounds, SuiteInv', pc \in Loops, UNCHANGED suite,
         NextConfig \/ NextIteration, job' = 1,
         vfio' \in Seq({"nvme", "gpu", "missing"}), exc' \in {"none", "speed", "vm"}
  PROVE  Bounds'
  <1> USE DEF Goto, Loops
  <1>1. suite \in Suites /\ suite.iterations \in Nat /\ Len(suite.jobs) \in Nat
    BY SuiteConstantsOK DEF Bounds, TypeOK
  <1>2. /\ Len(Combinations) \in Nat /\ Combinations' = Combinations
        /\ Combinations = <<>> <=> Len(Combinations) = 0
    BY <1>1, CombinationsSound DEF Combinations
  <1>3. /\ iteration \in 1 .. suite.iterations /\ config \in 1 .. Len(Combinations)
    BY <1>1, <1>2 DEF Bounds, TypeOK
  <1>4. /\ iteration' \in 1 .. 1 + suite.iterations /\ config' \in 1 .. Len(Combinations)
        /\ \/ pc' = "config" /\ iteration' <= suite.iterations
           \/ pc' = "summary" /\ iteration' = 1 + suite.iterations
    <2>1. CASE NextIteration
      BY <1>1, <1>2, <1>3, <2>1 DEF NextIteration
    <2>2. CASE config < Len(Combinations) /\ config' = config + 1 /\ pc' = "config"
               /\ iteration' = iteration
      BY <1>1, <1>2, <1>3, <2>2
    <2>3. QED BY <2>1, <2>2 DEF NextConfig
  <1>5. Shape' /\ Statuses'
    BY ShapeStatuses, PTL DEF SuiteInv
  <1>6. TypeOK'
    BY <1>1, <1>2, <1>4, <1>5 DEF TypeOK, PC, Shape, Statuses
  <1>7. QED BY <1>1, <1>2, <1>4, <1>6 DEF Bounds

\* A step within the loop over the jobs.
LEMMA BoundsStay ==
  ASSUME Bounds, SuiteInv', UNCHANGED <<suite, iteration, config>>, pc \in Loops,
         pc' \in Loops, job' \in 1 .. 1 + Len(suite.jobs),
         pc' \in {"enter", "start", "exit", "record"} => job' <= Len(suite.jobs),
         vfio' \in Seq({"nvme", "gpu", "missing"}), exc' \in {"none", "speed", "vm"}
  PROVE  Bounds'
  <1>1. Combinations' = Combinations
    BY DEF Combinations
  <1>2. Shape' /\ Statuses'
    BY ShapeStatuses, PTL DEF SuiteInv
  <1>3. TypeOK'
    BY <1>1, <1>2 DEF Bounds, TypeOK, PC, Loops, Shape, Statuses
  <1>4. QED BY <1>1, <1>3 DEF Bounds, Loops

\* The devices of a job are its drive and a GPU.
LEMMA DevicesSound ==
  ASSUME Devices
  PROVE  vfio' \in Seq({"nvme", "gpu", "missing"})
  <1> DEFINE d == StorageTarget(Setup, suite.qemu).vfio
             g == IF Cfg.engine \notin CudaEngines THEN <<>>
                  ELSE IF HasGpu THEN <<"gpu">> ELSE <<"missing">>
  <1>1. (d = <<>> \/ d = <<"nvme">>) /\ g \in {<<>>, <<"gpu">>, <<"missing">>}
    BY DEF StorageTarget
  <1>2. {<<>>, <<"nvme">>, <<"gpu">>, <<"missing">>} \subseteq Seq({"nvme", "gpu", "missing"})
    OBVIOUS
  <1>3. vfio' = d \o g
    BY DEF Devices
  <1> HIDE DEF d, g
  <1>4. d \in Seq({"nvme", "gpu", "missing"}) /\ g \in Seq({"nvme", "gpu", "missing"})
    BY <1>1, <1>2
  <1>5. QED BY <1>3, <1>4

LEMMA BoundsInit == Init => Bounds
  <1> SUFFICES ASSUME Init PROVE Bounds
    OBVIOUS
  <1>1. suite \in Suites /\ suite.iterations \in Nat /\ Len(suite.jobs) \in Nat
    BY SuiteConstantsOK DEF Init
  <1>2. Len(Combinations) \in Nat /\ (Combinations = <<>> <=> Len(Combinations) = 0)
    BY <1>1, CombinationsSound
  <1>3. TypeOK
    BY <1>1, <1>2 DEF Init, TypeOK, PC, NoTruth
  <1>4. QED BY <1>1, <1>2, <1>3 DEF Init, Bounds, Loops

LEMMA BoundsNext == Bounds /\ SuiteInv' /\ [Next]_vars => Bounds'
  <1> SUFFICES ASSUME Bounds, SuiteInv', [Next]_vars PROVE Bounds'
    OBVIOUS
  <1> USE DEF Goto, position
  <1>0. /\ suite \in Suites /\ Len(suite.jobs) \in Nat
        /\ job \in 1 .. 1 + Len(suite.jobs)
        /\ vfio \in Seq({"nvme", "gpu", "missing"}) /\ exc \in {"none", "speed", "vm"}
    BY SuiteConstantsOK DEF Bounds, TypeOK
  <1>1. CASE BeginTests
    <2>1. pc = "config" /\ UNCHANGED <<suite, vfio, exc>>
      BY <1>1 DEF BeginTests
    <2>2. CASE TestsRaise
      BY <1>0, <2>1, <2>2, BoundsAdvance DEF TestsRaise, Loops
    <2>3. CASE job' = 1 /\ pc' = "job" /\ UNCHANGED <<iteration, config>>
      BY <1>0, <2>1, <2>3, BoundsStay DEF Loops
    <2>4. QED BY <1>1, <2>2, <2>3 DEF BeginTests
  <1>2. CASE PlanJob
    <2>1. pc = "job" /\ job <= Len(suite.jobs) /\ exc' = "none" /\ suite' = suite
      BY <1>2 DEF PlanJob
    <2>2. CASE TestsRaise /\ vfio' = vfio
      BY <1>0, <2>1, <2>2, BoundsAdvance DEF TestsRaise, Loops
    <2>3. CASE Devices /\ pc' \in {"enter", "start"} /\ UNCHANGED position
      BY <1>0, <2>1, <2>3, DevicesSound, BoundsStay DEF Loops
    <2>4. QED BY <1>2, <2>2, <2>3 DEF PlanJob
  <1>3. CASE EnterSpeed
    <2>1. /\ pc = "enter" /\ pc' \in {"start", "record"} /\ exc' \in {"none", "speed"}
          /\ UNCHANGED <<suite, position, vfio>>
      BY <1>3 DEF EnterSpeed
    <2>2. job <= Len(suite.jobs)
      BY <2>1 DEF Bounds
    <2>3. QED BY <1>0, <2>1, <2>2, BoundsStay DEF Loops
  <1>4. CASE StartVm
    <2>1. /\ pc = "start" /\ pc' \in {"exit", "record"} /\ exc' \in {"none", "vm"}
          /\ UNCHANGED <<suite, position, vfio>>
      BY <1>4 DEF StartVm
    <2>2. job <= Len(suite.jobs)
      BY <2>1 DEF Bounds
    <2>3. QED BY <1>0, <2>1, <2>2, BoundsStay DEF Loops
  <1>5. CASE ExitSpeed
    <2>1. /\ pc = "exit" /\ pc' = "record" /\ exc' \in {exc, "speed"}
          /\ UNCHANGED <<suite, position, vfio>>
      BY <1>5 DEF ExitSpeed
    <2>2. job <= Len(suite.jobs)
      BY <2>1 DEF Bounds
    <2>3. QED BY <1>0, <2>1, <2>2, BoundsStay DEF Loops
  <1>6. CASE Record
    <2>1. pc = "record" /\ UNCHANGED <<suite, vfio, exc>>
      BY <1>6 DEF Record
    <2>2. CASE TestsRaise
      BY <1>0, <2>1, <2>2, BoundsAdvance DEF TestsRaise, Loops
    <2>3. CASE job' = job + 1 /\ pc' = "job" /\ UNCHANGED <<iteration, config>>
      <3>1. job <= Len(suite.jobs)
        BY <2>1 DEF Bounds
      <3>2. job' \in 1 .. 1 + Len(suite.jobs)
        BY <1>0, <2>3, <3>1
      <3>3. QED BY <1>0, <2>1, <2>3, <3>2, BoundsStay DEF Loops
    <2>4. QED BY <1>6, <2>2, <2>3 DEF Record
  <1>7. CASE EndTests
    BY <1>0, <1>7, BoundsAdvance DEF EndTests, Loops
  <1>8. CASE Summary
    <2>1. pc = "summary" /\ pc' = "done" /\ UNCHANGED <<suite, position, vfio, exc>>
      BY <1>8 DEF Summary
    <2>2. Combinations' = Combinations
      BY <2>1 DEF Combinations
    <2>3. Shape' /\ Statuses'
      BY ShapeStatuses, PTL DEF SuiteInv
    <2>4. QED BY <2>1, <2>2, <2>3 DEF Bounds, TypeOK, PC, Loops, Shape, Statuses
  <1>9. CASE UNCHANGED vars
    <2>1. Combinations' = Combinations
      BY <1>9 DEF Combinations, vars
    <2>2. QED BY <1>9, <2>1 DEF vars, Bounds, TypeOK
  <1>10. QED
    BY <1>1, <1>2, <1>3, <1>4, <1>5, <1>6, <1>7, <1>8, <1>9 DEF Next

LEMMA BoundsHold == Spec => []Bounds
  BY BoundsInit, BoundsNext, SuiteHolds, PTL DEF Spec

\* The three counters stay within the suite's lists (run_all, run_tests).
THEOREM SuiteTypeCorrect == Spec => []TypeOK
  <1>1. Bounds => TypeOK
    BY DEF Bounds
  <1>2. QED BY <1>1, BoundsHold, PTL

(***************************************************************************)
(* With continue_on_error: what the loops have passed has been reported,   *)
(* or at least begun.                                                      *)
(***************************************************************************)

\* Every job before this one has its report, and there are no others.
AllReported ==
  suite.continue /\ Plannable =>
    /\ Len(Reported) = Len(log)
    /\ \A i \in DOMAIN Reported : Reported[i].at \in Positions
    /\ \A p \in Positions :
         Before(p, Position) => \E i \in DOMAIN Reported : Reported[i].at = p

\* Every configuration that has a target has had its first job begun, once the
\* loops have passed that job.
FirstsBegun ==
  suite.continue /\ suite.known /\ Len(suite.jobs) > 0 /\ Parses(suite.jobs[1]) =>
    \A it \in 1 .. suite.iterations, c \in DOMAIN Combinations :
      HasTarget(Combinations[c][1], suite.qemu, VmSetups) /\ Before(<<it, c, 1>>, Position) =>
        \E k \in DOMAIN log : log[k].at = <<it, c, 1>>

\* With continue_on_error no position is skipped: what is before the next
\* configuration was before the present position, or is of the same
\* configuration.
LEMMA NothingSkipped ==
  ASSUME Bounds, pc \in Loops, UNCHANGED suite, NextConfig, job' = 1,
         NEW p \in Nat \X Nat \X Nat, p[2] \in 1 .. Len(Combinations), p[3] >= 1,
         Before(p, Position')
  PROVE  Before(p, Position) \/ (p[1] = iteration /\ p[2] = config /\ p[3] >= job)
  <1>1. /\ Len(Combinations) \in Nat /\ suite.iterations \in Nat /\ Len(suite.jobs) \in Nat
    BY CombinationsSound, SuiteConstantsOK DEF Bounds, TypeOK
  <1>2. /\ iteration \in Nat /\ config \in 1 .. Len(Combinations) /\ job \in Nat
    BY <1>1 DEF Bounds, TypeOK
  <1>3. p[1] \in Nat /\ p[2] \in Nat /\ p[3] \in Nat
    OBVIOUS
  <1>4. \/ config < Len(Combinations) /\ config' = config + 1 /\ iteration' = iteration
        \/ ~(config < Len(Combinations)) /\ config' = 1 /\ iteration' = iteration + 1
    BY DEF NextConfig, NextIteration
  <1>5. /\ Position' = <<iteration', config', 1>> /\ Position = <<iteration, config, job>>
    BY DEF Position
  <1>6. CASE config' = config + 1 /\ iteration' = iteration
    <2>1. p[1] < iteration \/ (p[1] = iteration /\ p[2] < config + 1)
      BY <1>2, <1>3, <1>5, <1>6 DEF Before
    <2>2. QED BY <1>2, <1>3, <1>5, <2>1 DEF Before
  <1>7. CASE config = Len(Combinations) /\ config' = 1 /\ iteration' = iteration + 1
    <2>1. p[1] < iteration + 1 \/ (p[1] = iteration + 1 /\ p[2] < 1)
            \/ (p[1] = iteration + 1 /\ p[2] = 1 /\ p[3] < 1)
      BY <1>5, <1>7 DEF Before
    <2>2. p[1] < iteration \/ p[1] = iteration \/ (p[1] = iteration + 1 /\ p[2] = 0)
      BY <1>2, <1>3, <2>1
    <2>3. QED BY <1>2, <1>3, <1>5, <1>7, <2>2 DEF Before
  <1>8. QED BY <1>1, <1>2, <1>4, <1>6, <1>7

\* Where every name parses and every setup has a target, no job raises before it
\* is begun.
LEMMA PlansEverything ==
  ASSUME Bounds, PlanJob, Plannable
  PROVE  UNCHANGED <<suite, position, results, allResults, log>>
  <1>1. /\ pc = "job" /\ job \in DOMAIN suite.jobs /\ config \in DOMAIN Combinations
    BY CombinationsSound, SuiteConstantsOK DEF PlanJob, Bounds, Loops, TypeOK
  <1>2. Parses(Name)
    BY <1>1 DEF Plannable, Name
  <1>3. HasTarget(Setup, suite.qemu, VmSetups)
    BY <1>1, CombinationsSound DEF Plannable, Setup, Bounds, TypeOK
  <1>4. QED BY <1>2, <1>3 DEF PlanJob

\* What a step does to position, reports and log, if the suite goes on after
\* failures and knows its host.
LEMMA ContinuedStep ==
  ASSUME SuiteInv, Bounds, [Next]_vars, suite.continue, suite.known
  PROVE  /\ UNCHANGED suite
         /\ \/ UNCHANGED <<position, results, allResults, log>>
            \/ /\ PlanJob /\ pc = "job" /\ job <= Len(suite.jobs)
               /\ NextConfig /\ job' = 1 /\ results' = <<>> /\ UNCHANGED <<allResults, log>>
            \/ EndTests
            \/ /\ Record /\ pc = "record" /\ job <= Len(suite.jobs)
               /\ \E o \in Reports : /\ o.at = Position
                                     /\ results' = Append(results, o)
               /\ log' = Append(log, [at |-> Position, well |-> WentWell])
               /\ job' = job + 1 /\ UNCHANGED <<iteration, config, allResults>>
  <1> USE DEF position
  <1>1. CASE BeginTests
    BY <1>1 DEF BeginTests, SuiteInv, Shape
  <1>2. CASE PlanJob
    BY <1>2 DEF PlanJob, TestsRaise
  <1>3. CASE EnterSpeed \/ StartVm \/ ExitSpeed \/ Summary
    BY <1>3 DEF EnterSpeed, StartVm, ExitSpeed, Summary
  <1>4. CASE Record
    <2>1. PICK o : /\ o = Outcome(IF exc = "none" THEN "SUCCESS" ELSE "FAILED")
                   /\ results' = Append(results, o)
      BY <1>4 DEF Record
    <2>2. o.at = Position /\ o \in Reports
      <3>1. iteration \in Nat /\ config \in Nat /\ job \in Nat
        BY DEF SuiteInv, Shape
      <3>2. <<Combinations[config][1], suite.jobs[job]>>
              \in {<<Combinations[c][1], suite.jobs[j]>> : c \in Nat, j \in Nat}
        BY <3>1
      <3>3. /\ o = [config |-> <<Combinations[config][1], suite.jobs[job]>>,
                    status |-> IF exc = "none" THEN "SUCCESS" ELSE "FAILED", at |-> Position]
            /\ Position \in At
        BY <2>1, <3>1 DEF Outcome, Setup, Name, Position, At
      <3>4. QED BY <3>2, <3>3 DEF Reports
    <2>3. /\ pc = "record" /\ job <= Len(suite.jobs) /\ suite' = suite
          /\ log' = Append(log, [at |-> Position, well |-> WentWell])
          /\ job' = job + 1 /\ UNCHANGED <<iteration, config, allResults>>
      BY <1>4 DEF Record, Bounds
    <2>4. QED BY <1>4, <2>1, <2>2, <2>3
  <1>5. CASE EndTests
    BY <1>5 DEF EndTests
  <1>6. CASE UNCHANGED vars
    BY <1>6 DEF vars
  <1>7. QED BY <1>1, <1>2, <1>3, <1>4, <1>5, <1>6 DEF Next

\* The combinations and positions go with the arguments.
LEMMA ArgumentsStay ==
  ASSUME UNCHANGED suite
  PROVE  Combinations' = Combinations /\ Positions' = Positions /\ (Plannable' <=> Plannable)
  BY DEF Combinations, Positions, Plannable

\* A position of the suite, its parts and their bounds.
LEMMA PositionParts ==
  ASSUME suite \in Suites, NEW p \in Positions
  PROVE  /\ p \in Nat \X Nat \X Nat
         /\ p[1] \in 1 .. suite.iterations
         /\ p[2] \in 1 .. Len(Combinations) /\ p[3] \in 1 .. Len(suite.jobs)
         /\ Len(Combinations) \in Nat /\ suite.iterations \in Nat /\ Len(suite.jobs) \in Nat
  BY CombinationsSound, SuiteConstantsOK DEF Positions

\* The job that is begun is one of the suite's.
LEMMA HereIsAPosition ==
  ASSUME Bounds, pc \in Loops, job <= Len(suite.jobs)
  PROVE  /\ Position \in Positions
         /\ iteration \in 1 .. suite.iterations /\ config \in 1 .. Len(Combinations)
         /\ job \in 1 .. Len(suite.jobs) /\ Len(suite.jobs) \in Nat
  <1>1. /\ suite.iterations \in Nat /\ Len(suite.jobs) \in Nat /\ Len(Combinations) \in Nat
    BY CombinationsSound, SuiteConstantsOK DEF Bounds, TypeOK
  <1>2. /\ iteration \in 1 .. 1 + suite.iterations /\ iteration <= suite.iterations
        /\ config \in 1 .. 1 + Len(Combinations) /\ config <= Len(Combinations)
        /\ job \in 1 .. 1 + Len(suite.jobs)
    BY DEF Bounds, TypeOK
  <1>3. /\ iteration \in 1 .. suite.iterations /\ config \in 1 .. Len(Combinations)
        /\ job \in 1 .. Len(suite.jobs)
    BY <1>1, <1>2
  <1>4. QED BY <1>1, <1>3 DEF Positions, Position

\* The position after a job of a configuration.
LEMMA AfterTheJob ==
  ASSUME Bounds, pc \in Loops, NEW p \in Nat \X Nat \X Nat,
         job' = job + 1, UNCHANGED <<iteration, config>>, Before(p, Position')
  PROVE  Before(p, Position) \/ p = Position
  <1>1. iteration \in Nat /\ config \in Nat /\ job \in Nat
    BY CombinationsSound, SuiteConstantsOK DEF Bounds, TypeOK
  <1>2. p = <<p[1], p[2], p[3]>> /\ p[1] \in Nat /\ p[2] \in Nat /\ p[3] \in Nat
    OBVIOUS
  <1>3. \/ p[1] < iteration \/ (p[1] = iteration /\ p[2] < config)
        \/ (p[1] = iteration /\ p[2] = config /\ p[3] < job + 1)
    BY DEF Before, Position
  <1>4. p[3] < job + 1 => p[3] < job \/ p[3] = job
    BY <1>1, <1>2
  <1>5. QED BY <1>2, <1>3, <1>4 DEF Before, Position

\* The sequence after an entry was appended.
LEMMA Grown ==
  ASSUME NEW S, NEW s \in Seq(S), NEW e \in S
  PROVE  /\ Len(s) \in Nat /\ Len(Append(s, e)) = Len(s) + 1
         /\ Len(s) + 1 \in DOMAIN Append(s, e) /\ Append(s, e)[Len(s) + 1] = e
         /\ \A i \in DOMAIN s : i \in DOMAIN Append(s, e) /\ Append(s, e)[i] = s[i]
         /\ \A i \in DOMAIN Append(s, e) : i \in DOMAIN s \/ i = Len(s) + 1
  OBVIOUS

\* The results of a configuration are taken over as they are.
LEMMA TakenOver ==
  ASSUME Shape, EndTests
  PROVE  Reported' = Reported
  <1>1. results \in Seq(Reports) /\ allResults \in Seq(Reports)
    BY DEF Shape
  <1>2. allResults \o results \in Seq(Reports)
    BY <1>1, ConcatProperties
  <1>3. Reported' = (allResults \o results) \o <<>>
    BY DEF EndTests, Reported
  <1>4. QED BY <1>2, <1>3 DEF Reported

LEMMA AllReportedNext ==
  SuiteInv /\ Bounds /\ AllReported /\ [Next]_vars => AllReported'
  <1> SUFFICES ASSUME SuiteInv, Bounds, AllReported, [Next]_vars,
                      suite'.continue, Plannable'
               PROVE  /\ Len(Reported') = Len(log')
                      /\ \A i \in DOMAIN Reported' : Reported'[i].at \in Positions'
                      /\ \A p \in Positions' :
                           Before(p, Position') => \E i \in DOMAIN Reported' : Reported'[i].at = p
    BY DEF AllReported
  <1>0. suite' = suite
    BY DEF Next, vars, BeginTests, PlanJob, EnterSpeed, StartVm, ExitSpeed, Record, EndTests,
           Summary
  <1>1. /\ suite.continue /\ Plannable /\ Positions' = Positions /\ Combinations' = Combinations
        /\ suite \in Suites /\ Shape /\ suite.known
    BY <1>0, ArgumentsStay DEF SuiteInv, Shape, Plannable
  <1>2. /\ Len(Reported) = Len(log)
        /\ \A i \in DOMAIN Reported : Reported[i].at \in Positions
        /\ \A p \in Positions :
             Before(p, Position) => \E i \in DOMAIN Reported : Reported[i].at = p
    BY <1>1 DEF AllReported
  <1>3. CASE UNCHANGED <<position, results, allResults, log>>
    BY <1>1, <1>2, <1>3 DEF position, Position, Reported
  <1>4. CASE PlanJob
    <2>1. UNCHANGED <<suite, position, results, allResults, log>>
      BY <1>1, <1>4, PlansEverything
    <2>2. QED BY <1>1, <1>3, <2>1
  <1>5. CASE EndTests
    <2>1. /\ Reported' = Reported /\ log' = log /\ pc \in Loops /\ job > Len(suite.jobs)
          /\ NextConfig /\ job' = 1
      BY <1>1, <1>5, TakenOver DEF EndTests, Loops
    <2>2. ASSUME NEW p \in Positions, Before(p, Position')
          PROVE  Before(p, Position)
      <3>1. /\ p \in Nat \X Nat \X Nat /\ p[2] \in 1 .. Len(Combinations) /\ p[3] >= 1
            /\ p[3] <= Len(suite.jobs) /\ p[3] \in Nat /\ Len(suite.jobs) \in Nat
        BY <1>1, PositionParts
      <3>2. Before(p, Position) \/ (p[1] = iteration /\ p[2] = config /\ p[3] >= job)
        BY <1>0, <2>1, <2>2, <3>1, NothingSkipped
      <3>3. job \in Nat
        BY <1>1 DEF Shape
      <3>4. QED BY <2>1, <3>1, <3>2, <3>3
    <2>3. QED BY <1>1, <1>2, <2>1, <2>2
  <1>6. ASSUME pc = "record", job <= Len(suite.jobs),
               NEW o \in Reports, o.at = Position, results' = Append(results, o),
               log' = Append(log, [at |-> Position, well |-> WentWell]),
               job' = job + 1, UNCHANGED <<iteration, config, allResults>>
        PROVE  /\ Len(Reported') = Len(log')
               /\ \A i \in DOMAIN Reported' : Reported'[i].at \in Positions
               /\ \A p \in Positions :
                    Before(p, Position') => \E i \in DOMAIN Reported' : Reported'[i].at = p
    <2>1. Reported \in Seq(Reports) /\ Reported' = Append(Reported, o)
      BY <1>1, <1>6, ReportedGrows
    <2>2. /\ Len(Reported') = Len(Reported) + 1
          /\ Len(Reported) + 1 \in DOMAIN Reported' /\ Reported'[Len(Reported) + 1] = o
          /\ \A i \in DOMAIN Reported : i \in DOMAIN Reported' /\ Reported'[i] = Reported[i]
          /\ \A i \in DOMAIN Reported' : i \in DOMAIN Reported \/ i = Len(Reported) + 1
      BY <1>6, <2>1, Grown
    <2>3. Len(log') = Len(log) + 1
      BY <1>1, <1>6 DEF Shape
    <2>4. Position \in Positions
      BY <1>6, HereIsAPosition DEF Loops
    <2>5. ASSUME NEW i \in DOMAIN Reported' PROVE Reported'[i].at \in Positions
      BY <1>2, <1>6, <2>2, <2>4, <2>5
    <2>6. ASSUME NEW p \in Positions, Before(p, Position')
          PROVE  \E i \in DOMAIN Reported' : Reported'[i].at = p
      <3>1. p \in Nat \X Nat \X Nat
        BY <1>1, PositionParts
      <3>2. Before(p, Position) \/ p = Position
        BY <1>6, <2>6, <3>1, AfterTheJob DEF Loops
      <3>3. QED BY <1>2, <1>6, <2>2, <3>2
    <2>7. QED BY <1>2, <2>2, <2>3, <2>5, <2>6
  <1>7. \/ UNCHANGED <<position, results, allResults, log>>
        \/ PlanJob \/ EndTests
        \/ /\ pc = "record" /\ job <= Len(suite.jobs)
           /\ \E o \in Reports : o.at = Position /\ results' = Append(results, o)
           /\ log' = Append(log, [at |-> Position, well |-> WentWell])
           /\ job' = job + 1 /\ UNCHANGED <<iteration, config, allResults>>
    BY <1>1, ContinuedStep
  <1>8. QED BY <1>1, <1>3, <1>4, <1>5, <1>6, <1>7

LEMMA FirstsBegunNext ==
  SuiteInv /\ Bounds /\ FirstsBegun /\ [Next]_vars => FirstsBegun'
  <1> DEFINE First(it, c) == <<it, c, 1>>
  <1> SUFFICES ASSUME SuiteInv, Bounds, FirstsBegun, [Next]_vars,
                      suite'.continue, suite'.known, Len(suite'.jobs) > 0, Parses(suite'.jobs[1]),
                      NEW it \in 1 .. suite'.iterations, NEW c \in DOMAIN Combinations',
                      HasTarget(Combinations'[c][1], suite'.qemu, VmSetups),
                      Before(First(it, c), Position')
               PROVE  \E k \in DOMAIN log' : log'[k].at = First(it, c)
    BY DEF FirstsBegun
  <1>0. suite' = suite
    BY DEF Next, vars, BeginTests, PlanJob, EnterSpeed, StartVm, ExitSpeed, Record, EndTests,
           Summary
  <1>1. /\ suite.continue /\ suite.known /\ Len(suite.jobs) > 0 /\ Parses(suite.jobs[1])
        /\ Combinations' = Combinations /\ suite \in Suites /\ Shape
        /\ it \in 1 .. suite.iterations /\ c \in 1 .. Len(Combinations)
        /\ DOMAIN Combinations = 1 .. Len(Combinations)
        /\ HasTarget(Combinations[c][1], suite.qemu, VmSetups)
    BY <1>0, ArgumentsStay, CombinationsSound DEF SuiteInv, Shape
  <1>2. /\ First(it, c) \in Nat \X Nat \X Nat /\ First(it, c)[3] >= 1
        /\ First(it, c)[1] = it /\ First(it, c)[2] = c /\ First(it, c)[3] = 1
        /\ First(it, c)[2] \in 1 .. Len(Combinations)
    BY <1>1, CombinationsSound, SuiteConstantsOK
  <1>3. Before(First(it, c), Position) => \E k \in DOMAIN log : log[k].at = First(it, c)
    BY <1>1 DEF FirstsBegun
  <1>4. job \in Nat /\ Len(suite.jobs) \in Nat
    BY <1>1, SuiteConstantsOK DEF Shape
  <1> HIDE DEF First
  <1>5. CASE UNCHANGED <<position, results, allResults, log>>
    BY <1>3, <1>5 DEF position, Position
  <1>6. ASSUME pc \in Loops, NextConfig, job' = 1, log' = log,
               ~Before(First(it, c), Position)
        PROVE  it = iteration /\ c = config /\ job <= 1
    BY <1>0, <1>2, <1>4, <1>6, NothingSkipped
  <1>7. CASE /\ PlanJob /\ pc = "job" /\ job <= Len(suite.jobs)
             /\ NextConfig /\ job' = 1 /\ UNCHANGED <<allResults, log>>
    <2>1. SUFFICES ASSUME ~Before(First(it, c), Position) PROVE FALSE
      BY <1>3, <1>7
    <2>2. config' # config \/ iteration' # iteration
      <3>1. config \in Nat /\ iteration \in Nat
        BY <1>1 DEF Shape
      <3>2. QED BY <1>7, <3>1 DEF NextConfig, NextIteration
    <2>3. c = config /\ job = 1
      <3>1. job >= 1
        BY DEF Bounds, TypeOK
      <3>2. QED BY <1>4, <1>6, <1>7, <2>1, <3>1 DEF Loops
    <2>4. Parses(Name) /\ HasTarget(Setup, suite.qemu, VmSetups)
      BY <1>1, <2>3 DEF Name, Setup
    <2>5. UNCHANGED position
      BY <1>7, <2>4 DEF PlanJob
    <2>6. QED BY <2>2, <2>5 DEF position
  <1>8. CASE EndTests
    <2>1. /\ pc \in Loops /\ job > Len(suite.jobs) /\ log' = log /\ NextConfig /\ job' = 1
      BY <1>8 DEF EndTests, Loops
    <2>2. QED BY <1>1, <1>3, <1>4, <1>6, <2>1
  <1>9. CASE /\ pc = "record" /\ job <= Len(suite.jobs)
             /\ log' = Append(log, [at |-> Position, well |-> WentWell])
             /\ job' = job + 1 /\ UNCHANGED <<iteration, config, allResults>>
    <2>1. log \in Seq(Entries) /\ [at |-> Position, well |-> WentWell] \in Entries
      BY <1>1 DEF Shape, Entries, At, Position, WentWell
    <2>2. /\ Len(log) + 1 \in DOMAIN log' /\ log'[Len(log) + 1].at = Position
          /\ \A k \in DOMAIN log : k \in DOMAIN log' /\ log'[k] = log[k]
      BY <1>9, <2>1, Grown
    <2>3. Before(First(it, c), Position) \/ First(it, c) = Position
      BY <1>2, <1>9, AfterTheJob DEF Loops
    <2>4. QED BY <1>3, <2>2, <2>3
  <1>10. QED BY <1>1, <1>5, <1>7, <1>8, <1>9, ContinuedStep

LEMMA ContinuedInit == Init => AllReported /\ FirstsBegun
  <1> SUFFICES ASSUME Init PROVE AllReported /\ FirstsBegun
    OBVIOUS
  <1>1. /\ suite \in Suites /\ Position = <<1, 1, 1>> /\ Reported = <<>> /\ log = <<>>
    BY DEF Init, Position, Reported
  <1>2. ASSUME NEW p \in Nat \X Nat \X Nat, p[1] >= 1, p[2] >= 1, p[3] >= 1
        PROVE  ~Before(p, Position)
    BY <1>1, <1>2 DEF Before
  <1>3. AllReported
    <2>1. ASSUME NEW p \in Positions PROVE ~Before(p, Position)
      BY <1>1, <1>2, PositionParts
    <2>2. QED BY <1>1, <2>1 DEF AllReported
  <1>4. FirstsBegun
    <2>1. ASSUME NEW it \in 1 .. suite.iterations, NEW c \in DOMAIN Combinations
          PROVE  ~Before(<<it, c, 1>>, Position)
      <3>1. suite.iterations \in Nat /\ Len(Combinations) \in Nat
            /\ DOMAIN Combinations = 1 .. Len(Combinations)
        BY <1>1, CombinationsSound, SuiteConstantsOK
      <3>2. <<it, c, 1>> \in Nat \X Nat \X Nat /\ it >= 1 /\ c >= 1
        BY <3>1
      <3>3. QED BY <1>2, <3>2
    <2>2. QED BY <2>1 DEF FirstsBegun
  <1>5. QED BY <1>3, <1>4

LEMMA ContinuedHolds == Spec => [](AllReported /\ FirstsBegun)
  <1>1. SuiteInv /\ Bounds /\ AllReported /\ FirstsBegun /\ [Next]_vars
          => AllReported' /\ FirstsBegun'
    BY AllReportedNext, FirstsBegunNext
  <1>2. QED BY <1>1, ContinuedInit, SuiteHolds, BoundsHold, PTL DEF Spec

\* At the end, all positions are passed.
LEMMA AllPassed ==
  ASSUME Bounds, pc = "done", NEW p \in Nat \X Nat \X Nat,
         p[1] \in 1 .. suite.iterations, p[2] \in 1 .. Len(Combinations)
  PROVE  Before(p, Position)
  <1>1. suite.iterations \in Nat /\ Len(Combinations) \in Nat
    BY CombinationsSound, SuiteConstantsOK DEF Bounds, TypeOK
  <1>2. iteration = 1 + suite.iterations
    BY <1>1, CombinationsSound DEF Bounds, TypeOK
  <1>3. QED BY <1>1, <1>2 DEF Before, Position

\* With continue_on_error, a suite whose jobs can all be planned has begun and
\* reported each of them when it ends, whatever failed (run_all, run_tests).
THEOREM SuiteLosesNothing == Spec => []NothingLost
  <1>1. Bounds /\ AllReported => NothingLost
    <2> SUFFICES ASSUME Bounds, AllReported, pc = "done", suite.continue, Plannable
                 PROVE  /\ {Reported[i].at : i \in DOMAIN Reported} = Positions
                        /\ Len(Reported) = Len(log)
      BY DEF NothingLost
    <2>1. ASSUME NEW p \in Positions PROVE Before(p, Position)
      BY PositionParts, AllPassed DEF Bounds, TypeOK
    <2>2. QED BY <2>1 DEF AllReported
  <1>2. QED BY <1>1, BoundsHold, ContinuedHolds, PTL

\* With continue_on_error, a configuration that cannot be planned keeps no other
\* one from being run (run_all).
THEOREM SuiteRunsOtherConfigs == Spec => []OtherConfigsRun
  <1>1. Bounds /\ FirstsBegun => OtherConfigsRun
    <2> SUFFICES ASSUME Bounds, FirstsBegun, pc = "done", suite.continue,
                        suite.known, Len(suite.jobs) > 0, Parses(suite.jobs[1]),
                        NEW it \in 1 .. suite.iterations, NEW c \in DOMAIN Combinations,
                        HasTarget(Combinations[c][1], suite.qemu, VmSetups)
                 PROVE  \E k \in DOMAIN log : log[k].at = <<it, c, 1>>
      BY DEF OtherConfigsRun
    <2>1. /\ suite.iterations \in Nat /\ Len(Combinations) \in Nat
          /\ c \in 1 .. Len(Combinations)
      BY CombinationsSound, SuiteConstantsOK DEF Bounds, TypeOK
    <2>2. Before(<<it, c, 1>>, Position)
      BY <2>1, AllPassed
    <2>3. QED BY <2>2 DEF FirstsBegun
  <1>2. QED BY <1>1, BoundsHold, ContinuedHolds, PTL
=============================================================================
