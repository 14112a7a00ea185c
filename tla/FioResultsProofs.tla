-------------------------- MODULE FioResultsProofs --------------------------
(***************************************************************************)
(* What is proved of the results and of the log of sar beside them: for    *)
(* every day and second, every time of a sample and every FIO run, and for *)
(* every set of results.                                                   *)
(***************************************************************************)
EXTENDS FioResults, WellFoundedInduction, FiniteSetTheorems, TLAPS

(***************************************************************************)
(* The log of sar by itself: what else is done with the results takes no   *)
(* part in it.                                                             *)
(***************************************************************************)
SSpec == SInit /\ [][SNext]_svars

LEMMA LogReadBesideResults == FSpec => SSpec
  <1>1. FInit => SInit
    BY DEF FInit
  <1>2. [FNext]_<<svars, fvars>> => [SNext]_svars
    BY DEF FNext, RunBenchmark, Plot, Toggle, ClickLegend
  <1>3. QED BY <1>1, <1>2, PTL DEF FSpec, SSpec

(***************************************************************************)
(* Times.                                                                  *)
(***************************************************************************)
\* Division with rest.
LEMMA Divided ==
  ASSUME NEW t \in Int, NEW n \in Nat \ {0}
  PROVE  /\ t \div n \in Int /\ t % n \in 0..n - 1
         /\ t = n * (t \div n) + (t % n)
         /\ t \in Nat => t \div n \in Nat
  OBVIOUS

\* A quotient is the number whose multiple is below by less than the divisor.
LEMMA Quotient ==
  ASSUME NEW q \in Int, NEW n \in Nat \ {0}, NEW r \in 0..n - 1
  PROVE  (n * q + r) \div n = q /\ (n * q + r) % n = r
  <1> DEFINE t == n * q + r
             p == t \div n
             s == t % n
  <1>1. t \in Int /\ n * q \in Int
    OBVIOUS
  <1>2. p \in Int /\ s \in 0..n - 1 /\ t = n * p + s
    BY <1>1, Divided
  <1>3. n * q + r = n * p + s
    BY <1>2
  <1> HIDE DEF t, p, s
  <1>4. n * (p - q) = n * p - n * q /\ n * (q - p) = n * q - n * p
    BY <1>2
  <1>5. ASSUME p > q PROVE FALSE
    <2>1. p - q - 1 \in Nat /\ n * (p - q) = n * (p - q - 1) + n
      BY <1>2, <1>5
    <2>2. n * (p - q - 1) \in Nat
      BY <2>1
    <2>3. n * p \in Int
      BY <1>2
    <2>4. QED BY <1>1, <1>2, <1>3, <1>4, <2>1, <2>2, <2>3
  <1>6. ASSUME p < q PROVE FALSE
    <2>1. q - p - 1 \in Nat /\ n * (q - p) = n * (q - p - 1) + n
      BY <1>2, <1>6
    <2>2. n * (q - p - 1) \in Nat
      BY <2>1
    <2>3. n * p \in Int
      BY <1>2
    <2>4. QED BY <1>1, <1>2, <1>3, <1>4, <2>1, <2>2, <2>3
  <1>7. p = q
    BY <1>2, <1>5, <1>6
  <1>8. s = r
    BY <1>1, <1>2, <1>3, <1>7
  <1>9. QED BY <1>7, <1>8 DEF p, s, t

\* A time to the second is not later, and by less than a second.
LEMMA SecondBelow ==
  ASSUME NEW t \in Int
  PROVE  /\ ToTheSecond(t) \in Int
         /\ ToTheSecond(t) <= t /\ t < ToTheSecond(t) + Second
  <1> DEFINE q == t \div Second
             r == t % Second
  <1>1. Second \in Nat \ {0}
    BY ClockAssumption
  <1>2. q \in Int /\ r \in 0..Second - 1 /\ t = Second * q + r
    BY <1>1, Divided
  <1>3. ToTheSecond(t) = q * Second
    BY DEF ToTheSecond
  <1> HIDE DEF q, r
  <1>4. q * Second = Second * q /\ Second * q \in Int
    BY <1>1, <1>2
  <1>5. QED BY <1>1, <1>2, <1>3, <1>4

\* A day has whole seconds, so that the date can be restored from the second of
\* the day.
LEMMA SecondOfDay ==
  ASSUME NEW t \in Nat
  PROVE  /\ t \div Day \in Nat /\ t % Day \in 0..Day - 1
         /\ t = Day * (t \div Day) + (t % Day)
         /\ ToTheSecond(t) = (t \div Day) * Day + ToTheSecond(t % Day)
  <1> DEFINE d == t \div Day
             u == t % Day
             n == Day \div Second
             q == u \div Second
             r == u % Second
  <1>1. /\ Second \in Nat \ {0} /\ Day \in Nat \ {0} /\ Day % Second = 0
    BY ClockAssumption
  <1>2. d \in Nat /\ u \in 0..Day - 1 /\ t = Day * d + u
    <2>1. t \in Int
      OBVIOUS
    <2>2. /\ t \div Day \in Int /\ t % Day \in 0..Day - 1
          /\ t = Day * (t \div Day) + (t % Day)
          /\ t \in Nat => t \div Day \in Nat
      BY ONLY <1>1, <2>1, Divided
    <2>3. QED BY <2>2
  <1>3. n \in Nat /\ Day = Second * n
    BY <1>1, Divided
  <1>4. q \in Nat /\ r \in 0..Second - 1 /\ u = Second * q + r
    <2>1. u \in Nat /\ u \in Int
      BY <1>2
    <2> HIDE DEF u
    <2>2. /\ u \div Second \in Int /\ u % Second \in 0..Second - 1
          /\ u = Second * (u \div Second) + (u % Second)
          /\ u \in Nat => u \div Second \in Nat
      BY ONLY <1>1, <2>1, Divided
    <2>3. QED BY <2>1, <2>2
  <1>5. ToTheSecond(u) = q * Second
    BY DEF ToTheSecond
  <1>6. ToTheSecond(t) = (t \div Second) * Second
    BY DEF ToTheSecond
  <1> HIDE DEF d, u, n, q, r
  <1>7. t = Second * (n * d + q) + r /\ n * d + q \in Int
    <2>1. Day * d = Second * (n * d)
      BY <1>1, <1>2, <1>3
    <2>2. Second * (n * d + q) = Second * (n * d) + Second * q /\ n * d \in Nat
      BY <1>1, <1>2, <1>3, <1>4
    <2>3. Second * (n * d) \in Nat /\ Second * q \in Nat
      BY <1>1, <1>4, <2>2
    <2>4. QED BY <1>1, <1>2, <1>4, <2>1, <2>2, <2>3
  <1>8. t \div Second = n * d + q
    <2>1. (Second * (n * d + q) + r) \div Second = n * d + q
      BY <1>1, <1>4, <1>7, Quotient
    <2>2. QED BY <1>7, <2>1
  <1>9. (n * d + q) * Second = d * Day + q * Second
    BY <1>1, <1>2, <1>3, <1>4
  <1>10. QED BY <1>2, <1>5, <1>6, <1>8, <1>9 DEF d, u

(***************************************************************************)
(* The clock.  Lag is what the restored date is off by, for good: the      *)
(* header's day and that of the first sample.                              *)
(***************************************************************************)
Lag == began \div Day - taken[1] \div Day

ClockInv ==
  /\ began \in Nat /\ jobs \in Seq(Nat \X Nat)
  /\ taken \in Seq(Nat) /\ abs \in Seq(Int) /\ Len(abs) = Len(taken)
  /\ taken = << >> => date = began \div Day
  /\ taken # << >> => date = Last(taken) \div Day + Lag
  /\ \A i \in 1..Len(taken) : abs[i] = ToTheSecond(taken[i]) + Lag * Day

LEMMA ClockInit == SInit => ClockInv
  BY TimesAssumption DEF SInit, ClockInv

\* Two samples in a row: the next one is on the same day or the next, and in the
\* first case the time of day does not go back, in the second it does by more
\* than twelve hours.
LEMMA NextSample ==
  ASSUME NEW t \in Nat, NEW gap \in Gaps
  PROVE  LET u == t + gap
             back == ToTheSecond(t % Day) - ToTheSecond(u % Day)
         IN  /\ u \in Nat /\ ToTheSecond(t % Day) \in Int /\ ToTheSecond(u % Day) \in Int
             /\ \/ u \div Day = t \div Day /\ ~(2 * back > Day)
                \/ u \div Day = t \div Day + 1 /\ 2 * back > Day
  <1> DEFINE u == t + gap
             d == t \div Day
             e == u \div Day
             v == t % Day
             w == u % Day
  <1>1. /\ Second \in Nat \ {0} /\ Day \in Nat \ {0}
        /\ gap \in Nat \ {0} /\ 2 * (gap + Second) <= Day /\ u \in Nat
    BY ClockAssumption
  <1>2. d \in Nat /\ v \in 0..Day - 1 /\ t = Day * d + v
    BY SecondOfDay
  <1>3. e \in Nat /\ w \in 0..Day - 1 /\ u = Day * e + w
    <2> HIDE DEF u
    <2>1. QED BY <1>1, SecondOfDay
  <1>4. u = t + gap
    OBVIOUS
  <1> HIDE DEF u, d, e, v, w
  <1>5. /\ ToTheSecond(v) \in Int /\ ToTheSecond(v) <= v /\ v < ToTheSecond(v) + Second
        /\ ToTheSecond(w) \in Int /\ ToTheSecond(w) <= w /\ w < ToTheSecond(w) + Second
    BY <1>1, <1>2, <1>3, SecondBelow
  <1>6. e = d \/ e = d + 1
    <2>1. CASE e < d
      <3>1. PICK k \in Nat : d = e + 1 + k
        <4>1. d - e - 1 \in Nat /\ d = e + 1 + (d - e - 1)
          BY <1>2, <1>3, <2>1
        <4>2. QED BY <4>1
      <3>2. Day * d = Day * e + Day + Day * k /\ Day * k \in Nat /\ Day * e \in Nat
        BY <1>1, <1>3, <3>1
      <3>3. QED BY <1>1, <1>2, <1>3, <1>4, <3>2
    <2>2. CASE e > d + 1
      <3>1. PICK k \in Nat : e = d + 2 + k
        <4>1. e - d - 2 \in Nat /\ e = d + 2 + (e - d - 2)
          BY <1>2, <1>3, <2>2
        <4>2. QED BY <4>1
      <3>2. Day * e = Day * d + 2 * Day + Day * k /\ Day * k \in Nat /\ Day * d \in Nat
        BY <1>1, <1>2, <3>1
      <3>3. QED BY <1>1, <1>2, <1>3, <1>4, <3>2
    <2>3. QED BY <1>2, <1>3, <2>1, <2>2
  <1>7. CASE e = d
    <2>1. w = v + gap
      <3>1. Day * d \in Nat
        BY <1>1, <1>2
      <3>2. QED BY <1>1, <1>2, <1>3, <1>4, <1>7, <3>1
    <2>2. ~(2 * (ToTheSecond(v) - ToTheSecond(w)) > Day)
      BY <1>1, <1>2, <1>3, <1>5, <2>1
    <2>3. QED BY <1>1, <1>5, <1>7, <2>2 DEF u, d, e, v, w
  <1>8. CASE e = d + 1
    <2>1. w + Day = v + gap
      <3>1. Day * d \in Nat /\ Day * e = Day * d + Day
        BY <1>1, <1>2, <1>8
      <3>2. QED BY <1>1, <1>2, <1>3, <1>4, <3>1
    <2>2. 2 * (ToTheSecond(v) - ToTheSecond(w)) > Day
      BY <1>1, <1>2, <1>3, <1>5, <2>1
    <2>3. QED BY <1>1, <1>5, <1>8, <2>2 DEF u, d, e, v, w
  <1>9. QED BY <1>6, <1>7, <1>8

\* The last of what Append has made longer.
LEMMA AppendLast ==
  ASSUME NEW S, NEW s \in Seq(S), NEW e \in S
  PROVE  /\ Append(s, e) \in Seq(S) /\ Len(Append(s, e)) = Len(s) + 1
         /\ Append(s, e) # << >> /\ Last(Append(s, e)) = e
         /\ Append(s, e)[Len(s) + 1] = e
         /\ \A i \in 1..Len(s) : Append(s, e)[i] = s[i]
  BY DEF Last

\* A sample is taken, and its time of day is read.
Sample(gap) ==
  /\ taken' = Append(taken, Now + gap) /\ Stamp(Now + gap)
  /\ UNCHANGED <<began, jobs>>

LEMMA ClockSample ==
  ASSUME ClockInv, NEW gap \in Gaps, Sample(gap)
  PROVE  ClockInv'
  <1> DEFINE t == Now + gap
             s == Now
  <1>1. /\ began \in Nat /\ jobs \in Seq(Nat \X Nat) /\ began' = began /\ jobs' = jobs
        /\ taken \in Seq(Nat) /\ abs \in Seq(Int) /\ Len(abs) = Len(taken)
        /\ Day \in Nat \ {0} /\ gap \in Nat
    BY ClockAssumption DEF ClockInv, Sample
  <1>2. /\ taken' = Append(taken, t) /\ abs' = Append(abs, Candidate(date', t))
        /\ date' = IF RolledOver(t) THEN date + 1 ELSE date
    BY DEF Sample, Stamp
  <1>3. s \in Nat
    BY <1>1 DEF Now, Last
  <1>4. /\ t \in Nat /\ ToTheSecond(s % Day) \in Int /\ ToTheSecond(t % Day) \in Int
        /\ \/ t \div Day = s \div Day
              /\ ~(2 * (ToTheSecond(s % Day) - ToTheSecond(t % Day)) > Day)
           \/ t \div Day = s \div Day + 1
              /\ 2 * (ToTheSecond(s % Day) - ToTheSecond(t % Day)) > Day
    BY <1>3, NextSample
  <1>5. /\ s \div Day \in Nat /\ ToTheSecond(s) = (s \div Day) * Day + ToTheSecond(s % Day)
        /\ t \div Day \in Nat /\ ToTheSecond(t) = (t \div Day) * Day + ToTheSecond(t % Day)
    <2> HIDE DEF s, t
    <2>1. QED BY <1>3, <1>4, SecondOfDay
  <1>6. began \div Day \in Int
    BY <1>1
  <1> DEFINE lag == IF taken = << >> THEN began \div Day - t \div Day ELSE Lag
  <1>7. Lag' = lag
    <2>1. taken'[1] = IF taken = << >> THEN t ELSE taken[1]
      BY <1>1, <1>2, <1>4
    <2>2. QED BY <1>1, <2>1 DEF Lag
  <1>8. lag \in Int /\ (taken # << >> => Lag \in Int)
    <2>1. CASE taken = << >>
      BY <1>5, <1>6, <2>1
    <2>2. CASE taken # << >>
      <3>1. taken[1] \in Nat
        BY <1>1, <2>2
      <3>2. taken[1] \div Day \in Nat
        BY <3>1, SecondOfDay
      <3>3. QED BY <1>6, <2>2, <3>2 DEF Lag
    <2>3. QED BY <2>1, <2>2
  <1> HIDE DEF s
  <1>9. date' = t \div Day + lag
    <2>1. CASE taken = << >>
      <3>1. abs = << >> /\ date = began \div Day
        BY <1>1, <2>1 DEF ClockInv
      <3>2. date' = date
        BY <1>2, <3>1 DEF RolledOver
      <3> HIDE DEF t
      <3>3. QED BY <1>5, <1>6, <2>1, <3>1, <3>2
    <2>2. CASE taken # << >>
      <3>1. s = taken[Len(taken)] /\ Len(taken) \in 1..Len(taken)
        BY <1>1, <2>2 DEF s, Now, Last
      <3>2. abs # << >> /\ Last(abs) = ToTheSecond(s) + Lag * Day
        BY <1>1, <2>2, <3>1 DEF ClockInv, Last
      <3>3. date = s \div Day + Lag
        BY <2>2, <3>1 DEF ClockInv, Last
      <3>4. Candidate(date, t) = date * Day + ToTheSecond(t % Day)
        BY DEF Candidate
      <3>5. RolledOver(t) <=> 2 * (Last(abs) - Candidate(date, t)) > Day
        BY <3>2 DEF RolledOver
      <3> HIDE DEF t
      <3>6. Last(abs) - Candidate(date, t) = ToTheSecond(s % Day) - ToTheSecond(t % Day)
        <4>1. date * Day = (s \div Day) * Day + Lag * Day /\ date * Day \in Int
          BY <1>1, <1>5, <1>8, <2>2, <3>3
        <4>2. (s \div Day) * Day \in Int /\ Lag * Day \in Int
          BY <1>1, <1>5, <1>8, <2>2
        <4> DEFINE a == ToTheSecond(s)
                   b == ToTheSecond(s % Day)
                   c == ToTheSecond(t % Day)
        <4>3. /\ Last(abs) = a + Lag * Day /\ a = (s \div Day) * Day + b
              /\ Candidate(date, t) = date * Day + c /\ b \in Int /\ c \in Int
          BY <1>4, <1>5, <3>2, <3>4
        <4> HIDE DEF a, b, c
        <4>4. QED BY <4>1, <4>2, <4>3 DEF b, c
      <3>7. date' = IF t \div Day = s \div Day THEN date ELSE date + 1
        BY <1>2, <1>4, <1>5, <3>5, <3>6
      <3>8. QED BY <1>4, <1>5, <1>8, <2>2, <3>3, <3>7
    <2>3. QED BY <2>1, <2>2
  <1>10. Candidate(date', t) = ToTheSecond(t) + lag * Day /\ Candidate(date', t) \in Int
    <2> HIDE DEF t, lag
    <2>1. Candidate(date', t) = date' * Day + ToTheSecond(t % Day)
      BY DEF Candidate
    <2>2. date' * Day = (t \div Day) * Day + lag * Day /\ (t \div Day) * Day \in Int
          /\ lag * Day \in Int
      BY <1>1, <1>5, <1>8, <1>9
    <2> DEFINE a == ToTheSecond(t)
               c == ToTheSecond(t % Day)
    <2>3. a = (t \div Day) * Day + c /\ c \in Int /\ Candidate(date', t) = date' * Day + c
      BY <1>4, <1>5, <2>1
    <2> HIDE DEF a, c
    <2>4. QED BY <2>2, <2>3 DEF a
  <1>11. ASSUME NEW i \in 1..Len(taken')
         PROVE  abs'[i] = ToTheSecond(taken'[i]) + Lag' * Day
    <2> HIDE DEF t, lag
    <2>1. CASE i \in 1..Len(taken)
      <3>1. abs'[i] = abs[i] /\ taken'[i] = taken[i] /\ taken # << >>
        BY <1>1, <1>2, <1>4, <1>10, <2>1, AppendLast
      <3>2. abs[i] = ToTheSecond(taken[i]) + Lag * Day
        BY <2>1 DEF ClockInv
      <3>3. lag = Lag
        BY <3>1 DEF lag
      <3>4. QED BY <1>7, <3>1, <3>2, <3>3
    <2>2. CASE i = Len(taken) + 1
      <3>1. abs'[i] = Candidate(date', t) /\ taken'[i] = t
        BY <1>1, <1>2, <1>4, <1>10, <2>2, AppendLast
      <3>2. QED BY <1>7, <1>10, <3>1
    <2>3. QED BY <1>1, <1>2, <1>4, <2>1, <2>2
  <1>12. /\ taken' \in Seq(Nat) /\ abs' \in Seq(Int) /\ Len(abs') = Len(taken')
         /\ taken' # << >> /\ Last(taken') = t
    <2> HIDE DEF t, lag
    <2>0. t \in Nat /\ taken \in Seq(Nat)
      BY <1>1, <1>4
    <2>1. /\ Append(taken, t) \in Seq(Nat) /\ Len(Append(taken, t)) = Len(taken) + 1
          /\ Append(taken, t) # << >> /\ Last(Append(taken, t)) = t
      BY ONLY <2>0, AppendLast
    <2>2. /\ Append(abs, Candidate(date', t)) \in Seq(Int)
          /\ Len(Append(abs, Candidate(date', t))) = Len(abs) + 1
      BY <1>1, <1>10, AppendLast
    <2>3. QED BY <1>1, <1>2, <2>1, <2>2
  <1>13. QED
    <2> HIDE DEF t, lag
    <2>1. date' = Last(taken') \div Day + Lag'
      BY <1>7, <1>9, <1>12
    <2>2. QED BY <1>1, <1>11, <1>12, <2>1 DEF ClockInv

LEMMA ClockNext == ClockInv /\ [SNext]_svars => ClockInv'
  <1> SUFFICES ASSUME ClockInv, [SNext]_svars PROVE ClockInv'
    OBVIOUS
  <1>1. CASE UNCHANGED <<began, jobs, taken, date, abs>>
    BY <1>1 DEF ClockInv, Lag
  <1>2. CASE CpuLine
    BY <1>2, ClockSample DEF CpuLine, Sample
  <1>3. CASE CoreLine
    BY <1>1, <1>3 DEF CoreLine
  <1>4. CASE MemLine
    BY <1>1, <1>4 DEF MemLine
  <1>5. CASE Terminate
    BY <1>1, <1>5, ClockSample DEF Terminate, Sample
  <1>6. QED BY <1>1, <1>2, <1>3, <1>4, <1>5 DEF SNext, svars

LEMMA ClockInvariant == SSpec => []ClockInv
  BY ClockInit, ClockNext, PTL DEF SSpec

\* The lag cancels between two samples, and is none where the first sample is of
\* the header's day.
LEMMA LagKnown ==
  ASSUME ClockInv
  PROVE  /\ \A i \in 1..Len(abs) : /\ taken[i] \in Nat /\ ToTheSecond(taken[i]) \in Int
                                  /\ abs[i] = ToTheSecond(taken[i]) + Lag * Day
         /\ abs # << >> => Lag * Day \in Int
         /\ HeaderDay => Lag = 0
  <1>1. /\ taken \in Seq(Nat) /\ abs \in Seq(Int) /\ Len(abs) = Len(taken) /\ began \in Nat
        /\ Day \in Nat \ {0}
    BY ClockAssumption DEF ClockInv
  <1>2. ASSUME NEW i \in 1..Len(abs)
        PROVE  /\ taken[i] \in Nat /\ ToTheSecond(taken[i]) \in Int
               /\ abs[i] = ToTheSecond(taken[i]) + Lag * Day
    <2>1. taken[i] \in Nat
      BY <1>1
    <2>2. ToTheSecond(taken[i]) \in Int
      BY <2>1, SecondBelow
    <2>3. abs[i] = ToTheSecond(taken[i]) + Lag * Day
      BY <1>1 DEF ClockInv
    <2>4. QED BY <2>1, <2>2, <2>3
  <1>3. ASSUME taken # << >> PROVE began \div Day \in Int /\ taken[1] \div Day \in Int
    <2>1. taken[1] \in Nat
      BY <1>1, <1>3
    <2>2. taken[1] \div Day \in Nat
      BY <2>1, SecondOfDay
    <2>3. began \div Day \in Nat
      BY <1>1, SecondOfDay
    <2>4. QED BY <2>2, <2>3
  <1>4. HeaderDay => Lag = 0
    BY <1>3 DEF HeaderDay, Lag
  <1>5. abs # << >> => Lag * Day \in Int
    BY <1>1, <1>3 DEF Lag
  <1>6. QED BY <1>2, <1>4, <1>5

\* The parser restores the moment of every sample, over any number of midnights
\* (current_date of parse_sar_file).
THEOREM SarClockRecovered == FSpec => []ClockRecovered
  <1>1. ClockInv => ClockRecovered
    <2> SUFFICES ASSUME ClockInv, NEW i \in 1..Len(abs)
                 PROVE  /\ HeaderDay => abs[i] = ToTheSecond(taken[i])
                        /\ abs[i] - abs[1] = ToTheSecond(taken[i]) - ToTheSecond(taken[1])
      BY DEF ClockRecovered
    <2> DEFINE a == ToTheSecond(taken[i])
               b == ToTheSecond(taken[1])
               l == Lag * Day
    <2>1. 1 \in 1..Len(abs) /\ abs # << >>
      BY DEF ClockInv
    <2>2. a \in Int /\ b \in Int /\ l \in Int /\ abs[i] = a + l /\ abs[1] = b + l
      BY <2>1, LagKnown
    <2>3. HeaderDay => l = 0
      BY LagKnown, ClockAssumption
    <2> HIDE DEF a, b, l
    <2>4. QED BY <2>2, <2>3 DEF a, b
  <1>2. QED BY <1>1, LogReadBesideResults, ClockInvariant, PTL

(***************************************************************************)
(* The lists of a log.  How long each is follows from the line sar printed *)
(* last: a CPU has a number for the sample once its line is printed, and   *)
(* none before, so that there is room to pad.                              *)
(***************************************************************************)
Measured == Nat \cup {NaN}
Numbered(list) == list \in Seq(Nat) /\ \A i \in 1..Len(list) : list[i] = i
Filled(list) == list \in Seq(Measured) /\ \A i \in 1..Len(list) : list[i] \in {i, NaN}

LogInv ==
  /\ part \in {"header", "cpu", "core", "mem", "end"}
  /\ printed \subseteq Cpu
  /\ Numbered(idle) /\ Numbered(mem)
  /\ cores \in [Cpu -> Seq(Measured)]
  /\ \A c \in Cpu : Filled(cores[c]) /\ Len(cores[c]) <= Len(abs)
  /\ part = "header" => abs = << >>
  /\ part \in {"cpu", "core"} => /\ Len(mem) = Len(abs) - 1
                                /\ \A c \in Cpu \ printed : Len(cores[c]) <= Len(abs) - 1
  /\ part \in {"header", "mem"} => Len(mem) = Len(abs)
  /\ part # "end" => Len(idle) = Len(abs) /\ \A c \in printed : Len(cores[c]) = Len(abs)
  /\ part = "end" => Len(idle) \in {Len(abs) - 1, Len(abs)}

\* The next number of a list is that of the sample.
LEMMA NumberNext ==
  ASSUME NEW list, Numbered(list), NEW n \in Nat, n = Len(list) + 1
  PROVE  Numbered(Append(list, n)) /\ Len(Append(list, n)) = n
  <1>1. list \in Seq(Nat) /\ \A i \in 1..Len(list) : list[i] = i
    BY DEF Numbered
  <1>2. /\ Append(list, n) \in Seq(Nat) /\ Len(Append(list, n)) = n
        /\ Append(list, n)[Len(list) + 1] = n
        /\ \A i \in 1..Len(list) : Append(list, n)[i] = list[i]
    BY <1>1, AppendLast
  <1>3. ASSUME NEW i \in 1..Len(Append(list, n)) PROVE Append(list, n)[i] = i
    <2>1. i \in 1..Len(list) \/ i = Len(list) + 1
      BY <1>1, <1>2
    <2>2. QED BY <1>1, <1>2, <2>1
  <1>4. QED BY <1>2, <1>3 DEF Numbered

\* A list that lacks the numbers of some samples is padded up to this one's.
LEMMA PadSound ==
  ASSUME NEW list, Filled(list), NEW n \in Nat, Len(list) <= n
  PROVE  Filled(Pad(list, n)) /\ Len(Pad(list, n)) = n
  <1> DEFINE pad == [k \in 1..(n - Len(list)) |-> NaN]
  <1>1. list \in Seq(Measured) /\ \A i \in 1..Len(list) : list[i] \in {i, NaN}
    BY DEF Filled
  <1>2. n - Len(list) \in Nat /\ NaN \in Measured
    BY <1>1 DEF Measured
  <1>3. /\ pad \in Seq(Measured) /\ Len(pad) = n - Len(list)
        /\ \A k \in 1..Len(pad) : pad[k] = NaN
    BY <1>2
  <1>4. Pad(list, n) = list \o pad
    BY DEF Pad
  <1> HIDE DEF pad
  <1>5. /\ list \o pad \in Seq(Measured) /\ Len(list \o pad) = n
        /\ \A i \in 1..n : (list \o pad)[i] = IF i <= Len(list) THEN list[i] ELSE pad[i - Len(list)]
    BY <1>1, <1>2, <1>3
  <1>6. ASSUME NEW i \in 1..n PROVE (list \o pad)[i] \in {i, NaN}
    <2>1. CASE i <= Len(list)
      <3>1. i \in 1..Len(list)
        BY <1>1, <2>1
      <3>2. (list \o pad)[i] = list[i]
        BY <1>5, <2>1
      <3>3. list[i] \in {i, NaN}
        BY <1>1, <3>1
      <3>4. QED BY <3>2, <3>3
    <2>2. CASE i > Len(list)
      <3>1. i - Len(list) \in 1..Len(pad)
        BY <1>1, <1>3, <2>2
      <3>2. ~(i <= Len(list))
        BY <1>1, <2>2
      <3>3. (list \o pad)[i] = pad[i - Len(list)]
        BY <1>5, <3>2
      <3>4. QED BY <1>3, <3>1, <3>3
    <2>3. i <= Len(list) \/ i > Len(list)
      BY <1>1
    <2>4. QED BY ONLY <2>1, <2>2, <2>3
  <1>7. QED BY <1>4, <1>5, <1>6 DEF Filled

\* The number of this sample comes after what is padded.
LEMMA FilledNext ==
  ASSUME NEW list, Filled(list), NEW n \in Nat, n = Len(list) + 1
  PROVE  Filled(Append(list, n)) /\ Len(Append(list, n)) = n
  <1>1. list \in Seq(Measured) /\ n \in Measured /\ \A i \in 1..Len(list) : list[i] \in {i, NaN}
    BY DEF Filled, Measured
  <1>2. /\ Append(list, n) \in Seq(Measured) /\ Len(Append(list, n)) = n
        /\ Append(list, n)[Len(list) + 1] = n
        /\ \A i \in 1..Len(list) : Append(list, n)[i] = list[i]
    BY <1>1, AppendLast
  <1>3. ASSUME NEW i \in 1..Len(Append(list, n)) PROVE Append(list, n)[i] \in {i, NaN}
    <2>1. i \in 1..Len(list) \/ i = Len(list) + 1
      BY <1>1, <1>2
    <2>2. QED BY <1>1, <1>2, <2>1
  <1>4. QED BY <1>2, <1>3 DEF Filled

LEMMA LogInit == SInit => LogInv
  BY DEF SInit, LogInv, Numbered, Filled, Measured

\* One more sample, and one more time.
LEMMA OneMore ==
  ASSUME ClockInv, NEW gap \in Gaps, Sample(gap)
  PROVE  /\ Len(abs') = Len(abs) + 1 /\ Len(taken') = Len(abs')
         /\ Len(abs) \in Nat /\ Len(abs') \in Nat
  <1>1. ClockInv'
    BY ClockSample
  <1>2. taken' = Append(taken, Now + gap) /\ taken \in Seq(Nat) /\ Len(abs) = Len(taken)
    BY DEF ClockInv, Sample
  <1>3. Len(abs') = Len(taken') /\ taken' \in Seq(Nat)
    BY <1>1 DEF ClockInv
  <1>4. Now + gap \in Nat
    <2>1. began \in Nat /\ gap \in Nat
      BY ClockAssumption DEF ClockInv
    <2>2. Now \in Nat
      BY <1>2, <2>1 DEF Now, Last
    <2>3. QED BY <2>1, <2>2
  <1>5. Len(taken') = Len(taken) + 1
    BY <1>2, <1>4, AppendLast
  <1>6. QED BY <1>2, <1>3, <1>5

LEMMA LogNext == ClockInv /\ LogInv /\ [SNext]_svars => LogInv'
  <1> SUFFICES ASSUME ClockInv, LogInv, [SNext]_svars PROVE LogInv'
    OBVIOUS
  <1>0. Len(taken) = Len(abs) /\ Len(abs) \in Nat
    BY DEF ClockInv
  <1>1. CASE UNCHANGED svars
    BY <1>1 DEF svars, LogInv, Filled, Numbered
  <1>2. CASE CpuLine
    <2>1. PICK gap \in Gaps : Sample(gap)
      BY <1>2 DEF CpuLine, Sample
    <2>2. /\ Len(abs') = Len(abs) + 1 /\ Len(taken') = Len(abs')
          /\ Len(abs) \in Nat /\ Len(abs') \in Nat
      BY <2>1, OneMore
    <2>3. /\ part \in {"header", "mem"} /\ part' = "cpu" /\ printed' = {}
          /\ idle' = Append(idle, Len(taken')) /\ cores' = cores /\ mem' = mem
      BY <1>2 DEF CpuLine
    <2>4. Numbered(idle) /\ Len(idle) = Len(abs)
      BY <2>3 DEF LogInv
    <2>5. Numbered(idle') /\ Len(idle') = Len(abs')
      BY <2>2, <2>3, <2>4, NumberNext
    <2>6. \A c \in Cpu : Filled(cores[c]) /\ Len(cores[c]) \in Nat /\ Len(cores[c]) <= Len(abs)
      BY DEF LogInv, Filled
    <2>7. /\ printed' \subseteq Cpu /\ Numbered(mem') /\ cores' \in [Cpu -> Seq(Measured)]
          /\ Len(mem') = Len(abs') - 1
      BY <2>2, <2>3 DEF LogInv
    <2>8. \A c \in Cpu : /\ Filled(cores'[c]) /\ Len(cores'[c]) <= Len(abs')
                         /\ Len(cores'[c]) <= Len(abs') - 1
      BY <2>2, <2>3, <2>6
    <2>9. QED BY <2>3, <2>5, <2>7, <2>8 DEF LogInv
  <1>3. CASE CoreLine
    <2>1. PICK c \in Cpu \ printed :
            /\ printed' = printed \cup {c}
            /\ cores' = [cores EXCEPT ![c] = Append(Pad(@, Len(abs) - 1), Len(taken))]
      BY <1>3 DEF CoreLine
    <2>2. /\ part \in {"cpu", "core"} /\ part' = "core" /\ abs' = abs /\ idle' = idle /\ mem' = mem
      BY <1>3 DEF CoreLine
    <2>3. Filled(cores[c]) /\ Len(cores[c]) <= Len(abs) - 1 /\ Len(cores[c]) \in Nat
      BY <2>1, <2>2 DEF LogInv, Filled
    <2> DEFINE list == Append(Pad(cores[c], Len(abs) - 1), Len(taken))
    <2>4. Filled(list) /\ Len(list) = Len(abs)
      <3>1. Len(abs) - 1 \in Nat
        BY <1>0, <2>3
      <3>2. Filled(Pad(cores[c], Len(abs) - 1)) /\ Len(Pad(cores[c], Len(abs) - 1)) = Len(abs) - 1
        BY <2>3, <3>1, PadSound
      <3>3. QED BY <1>0, <3>1, <3>2, FilledNext
    <2>5. cores \in [Cpu -> Seq(Measured)] /\ list \in Seq(Measured)
      BY <2>4 DEF LogInv, Filled
    <2> HIDE DEF list
    <2>6. cores' = [cores EXCEPT ![c] = list]
      BY <2>1 DEF list
    <2>7. cores' \in [Cpu -> Seq(Measured)]
      BY <2>5, <2>6
    <2>8. \A d \in Cpu : cores'[d] = IF d = c THEN list ELSE cores[d]
      BY <2>5, <2>6
    <2>9. \A d \in Cpu : Filled(cores'[d]) /\ Len(cores'[d]) <= Len(abs)
      BY <1>0, <2>4, <2>8 DEF LogInv
    <2>10. \A d \in Cpu \ printed' : Len(cores'[d]) <= Len(abs) - 1
      BY <2>1, <2>2, <2>8 DEF LogInv
    <2>11. \A d \in printed' : Len(cores'[d]) = Len(abs)
      BY <2>1, <2>2, <2>4, <2>8 DEF LogInv
    <2>12. /\ printed' \subseteq Cpu /\ Numbered(idle') /\ Numbered(mem')
           /\ Len(mem') = Len(abs') - 1 /\ Len(idle') = Len(abs')
      BY <2>1, <2>2 DEF LogInv
    <2>13. QED BY <2>2, <2>7, <2>9, <2>10, <2>11, <2>12 DEF LogInv
  <1>4. CASE MemLine
    <2>1. /\ part \in {"cpu", "core"} /\ part' = "mem"
          /\ mem' = IF Len(mem) < Len(abs) THEN Append(mem, Len(taken)) ELSE mem
          /\ UNCHANGED <<printed, abs, idle, cores>>
      BY <1>4 DEF MemLine
    <2>2. Numbered(mem) /\ Len(mem) = Len(abs) - 1
      BY <2>1 DEF LogInv
    <2>3. Numbered(mem') /\ Len(mem') = Len(abs)
      BY <1>0, <2>1, <2>2, NumberNext
    <2>4. QED BY <2>1, <2>3 DEF LogInv
  <1>5. CASE Terminate
    <2>1. part # "end" /\ part' = "end" /\ UNCHANGED <<printed, idle, cores, mem>>
      BY <1>5 DEF Terminate
    <2>2. Len(abs') \in Nat /\ (Len(abs') = Len(abs) \/ Len(abs') = Len(abs) + 1)
      <3>1. CASE UNCHANGED abs
        BY <1>0, <3>1
      <3>2. CASE \E gap \in Gaps : Sample(gap)
        BY <3>2, OneMore
      <3>3. QED BY <1>5, <3>1, <3>2 DEF Terminate, Sample
    <2>3. Len(idle') \in {Len(abs') - 1, Len(abs')}
      BY <1>0, <2>1, <2>2 DEF LogInv
    <2>4. \A c \in Cpu : Filled(cores'[c]) /\ Len(cores'[c]) <= Len(abs')
      <3>1. \A c \in Cpu : Filled(cores[c]) /\ Len(cores[c]) \in Nat /\ Len(cores[c]) <= Len(abs)
        BY DEF LogInv, Filled
      <3>2. QED BY <1>0, <2>1, <2>2, <3>1
    <2>5. QED BY <2>1, <2>3, <2>4 DEF LogInv
  <1>6. QED BY <1>1, <1>2, <1>3, <1>4, <1>5 DEF SNext

LEMMA LogInvariant == SSpec => []LogInv
  <1>1. SSpec => []ClockInv
    BY ClockInvariant
  <1>2. QED BY <1>1, LogInit, LogNext, PTL DEF SSpec

\* Every number of a log is filed under the sample it was measured in, whichever
\* CPUs were offline and wherever the log breaks off (the padding of
\* parse_sar_file).
THEOREM SarSamplesAligned == FSpec => []SamplesAligned
  <1>1. ClockInv /\ LogInv => SamplesAligned
    <2> SUFFICES ASSUME ClockInv, LogInv PROVE SamplesAligned
      OBVIOUS
    <2>1. Len(taken) = Len(abs) /\ Len(abs) \in Nat
      BY DEF ClockInv
    <2>2. Len(idle) = IF part = "end" /\ Len(taken) > Len(idle) THEN Len(abs) - 1 ELSE Len(abs)
      BY <2>1 DEF LogInv
    <2>3. QED BY <2>2 DEF LogInv, Numbered, Filled, SamplesAligned
  <1>2. QED BY <1>1, LogReadBesideResults, ClockInvariant, LogInvariant, PTL

(***************************************************************************)
(* The window of a job.                                                    *)
(***************************************************************************)
\* FIO's seconds are rounded up: a job's end is taken for less than a second later.
LEMMA JobEndKnown ==
  ASSUME ClockInv, NEW j \in 1..Len(jobs)
  PROVE  /\ Started(j) \in Int /\ Ended(j) \in Int /\ JobEnd(j) \in Int
         /\ Ended(j) <= JobEnd(j) /\ JobEnd(j) < Ended(j) + Second
  <1>1. Second \in Nat \ {0} /\ began \in Nat /\ jobs \in Seq(Nat \X Nat)
    BY ClockAssumption DEF ClockInv
  <1>2. jobs[j] \in Nat \X Nat /\ jobs[1] \in Nat \X Nat
    BY <1>1
  <1>3. /\ Started(j) \in Int /\ Started(1) \in Int /\ Ended(j) \in Int
    <2>1. jobs[j][1] \in Nat /\ jobs[j][2] \in Nat /\ jobs[1][1] \in Nat
      BY <1>2
    <2>2. QED BY <1>1, <2>1 DEF Started, Ended
  <1> DEFINE a == Ended(j)
             b == Started(1)
             t == a - b + Second - 1
             q == t \div Second
             r == t % Second
  <1>4. JobEnd(j) = b + q * Second
    BY DEF JobEnd, Elapsed
  <1>5. a \in Int /\ b \in Int /\ t \in Int
    BY <1>1, <1>3
  <1>6. q \in Int /\ r \in 0..Second - 1 /\ t = Second * q + r
    <2> HIDE DEF t
    <2>1. QED BY <1>1, <1>5, Divided
  <1>7. t = a - b + Second - 1
    OBVIOUS
  <1> HIDE DEF a, b, t, q, r
  <1>8. q * Second = Second * q /\ q * Second \in Int
    BY <1>1, <1>6
  <1>9. b + q * Second \in Int /\ a <= b + q * Second /\ b + q * Second < a + Second
    BY <1>1, <1>5, <1>6, <1>7, <1>8
  <1>10. QED BY <1>3, <1>4, <1>9 DEF a

\* The window of a job takes in the samples from a second after its start to its
\* end, and none from before it or two seconds after it.
LEMMA WindowKnown ==
  ASSUME ClockInv, HeaderDay, NEW j \in 1..Len(jobs), NEW i \in 1..Len(abs)
  PROVE  /\ i \in InWindow(Started(j), JobEnd(j)) =>
              Started(j) <= taken[i] /\ taken[i] < Ended(j) + 2 * Second
         /\ Started(j) + Second <= taken[i] /\ taken[i] <= Ended(j) =>
              i \in InWindow(Started(j), JobEnd(j))
  <1> DEFINE lo == Started(j)
             hi == JobEnd(j)
             e == Ended(j)
             t == taken[i]
             s == ToTheSecond(t)
             win == InWindow(lo, hi)
  <1>1. lo \in Int /\ e \in Int /\ hi \in Int /\ e <= hi /\ hi < e + Second
    BY JobEndKnown
  <1>2. t \in Nat /\ abs[i] = s
    <2>1. t \in Nat /\ s \in Int /\ abs[i] = s + Lag * Day /\ Lag = 0
      BY LagKnown
    <2>2. Lag * Day = 0
      BY <2>1, ClockAssumption
    <2> HIDE DEF t, s
    <2>3. QED BY <2>1, <2>2
  <1>3. s \in Int /\ s <= t /\ t < s + Second
    <2> HIDE DEF t
    <2>1. t \in Int
      BY <1>2
    <2>2. QED BY <2>1, SecondBelow
  <1>4. i \in win <=> lo <= s /\ s <= hi
    BY <1>2 DEF InWindow
  <1>5. Second \in Nat \ {0}
    BY ClockAssumption
  <1> HIDE DEF win, lo, hi, e, t, s
  <1>6. /\ i \in win => lo <= t /\ t < e + 2 * Second
        /\ lo + Second <= t /\ t <= e => i \in win
    BY <1>1, <1>2, <1>3, <1>4, <1>5
  <1>7. QED BY <1>6 DEF win, lo, hi, e, t

\* A job's mean is made of the samples taken while it ran, but for a second at its
\* start and two at its end, unless the log breaks off in a sample of its own or of
\* a job before it (job_start_ms and job_end_ms of parse_fio_file, the windows and
\* the exception of correlate_with_sar).
THEOREM SarOwnSamples == FSpec => []OwnSamples
  <1>1. ClockInv /\ LogInv => OwnSamples
    <2> SUFFICES ASSUME ClockInv, LogInv, HeaderDay, NEW j \in 1..Len(jobs), NEW i \in 1..Len(abs)
                 PROVE  LET own == correlate_with_sar(j)
                            used == get_window_cores_used(Started(j), JobEnd(j), Cpu)
                        IN  /\ i \in own \cup used =>
                                 Started(j) <= taken[i] /\ taken[i] < Ended(j) + 2 * Second
                            /\ Started(j) + Second <= taken[i] /\ taken[i] <= Ended(j) =>
                                 i \in own \/ \E k \in 1..j : BreaksOffIn(k)
      BY DEF OwnSamples
    <2>1. \A k \in 1..Len(jobs) : \A m \in 1..Len(abs) :
            m \in InWindow(Started(k), JobEnd(k)) =>
              Started(k) <= taken[m] /\ taken[m] < Ended(k) + 2 * Second
      BY WindowKnown
    <2>2. Started(j) + Second <= taken[i] /\ taken[i] <= Ended(j) =>
            i \in InWindow(Started(j), JobEnd(j))
      BY WindowKnown
    <2>3. /\ correlate_with_sar(j) \subseteq InWindow(Started(j), JobEnd(j))
          /\ get_window_cores_used(Started(j), JobEnd(j), Cpu) \subseteq InWindow(Started(j), JobEnd(j))
      BY DEF correlate_with_sar, Average, get_window_average, get_window_cores_used
    <2>4. CASE \E k \in 1..j : Average(k).raises
      <3>1. PICK k \in 1..j : ~(InWindow(Started(k), JobEnd(k)) \subseteq 1..Len(idle))
        BY <2>4 DEF Average, get_window_average
      <3>2. PICK m \in InWindow(Started(k), JobEnd(k)) : m \notin 1..Len(idle)
        BY <3>1
      <3>3. /\ m \in 1..Len(abs) /\ Len(abs) \in Nat /\ Len(idle) \in {Len(abs) - 1, Len(abs)}
        BY <3>2 DEF InWindow, ClockInv, LogInv
      <3>4. m = Len(abs) /\ Len(idle) < Len(abs)
        BY <3>2, <3>3
      <3>5. k \in 1..Len(jobs)
        <4>1. Len(jobs) \in Nat
          BY DEF ClockInv
        <4>2. QED BY <4>1
      <3>6. BreaksOffIn(k)
        BY <2>1, <3>2, <3>3, <3>4, <3>5 DEF BreaksOffIn
      <3>7. QED BY <2>1, <2>3, <3>6
    <2>5. CASE ~\E k \in 1..j : Average(k).raises
      <3>1. correlate_with_sar(j) = InWindow(Started(j), JobEnd(j))
        BY <2>5 DEF correlate_with_sar, Average, get_window_average
      <3>2. QED BY <2>1, <2>2, <2>3, <3>1
    <2>6. QED BY <2>4, <2>5
  <1>2. QED BY <1>1, LogReadBesideResults, ClockInvariant, LogInvariant, PTL

(***************************************************************************)
(* Induction over the numbers, from the well-foundedness of their order.   *)
(***************************************************************************)

\* A set of numbers has a least one.
LEMMA LeastNumber ==
  ASSUME NEW T \in SUBSET Nat, T # {}
  PROVE  \E n \in T : \A m \in T : n <= m
  <1> DEFINE R == OpToRel(<, Nat)
  <1>1. IsWellFoundedOn(R, Nat)
    BY NatLessThanWellFounded
  <1>2. \A x, y \in Nat : <<x, y>> \in R <=> x < y
    BY DEF OpToRel
  <1> HIDE DEF R
  <1>3. PICK n \in T : \A m \in T : <<m, n>> \notin R
    BY <1>1, WFMin
  <1>4. ASSUME NEW m \in T PROVE n <= m
    <2>1. m \in Nat /\ n \in Nat /\ ~(m < n)
      BY <1>2, <1>3
    <2>2. QED BY <2>1
  <1>5. QED BY <1>4

\* A set with 0 that has with every number the next one has all of them.
LEMMA Induction ==
  ASSUME NEW S, 0 \in S, \A n \in Nat : n \in S => n + 1 \in S
  PROVE  Nat \subseteq S
  <1> DEFINE T == Nat \ S
  <1>1. SUFFICES ASSUME T # {} PROVE FALSE
    OBVIOUS
  <1>2. PICK n \in T : \A m \in T : n <= m
    BY <1>1, LeastNumber
  <1>3. n \in Nat /\ n # 0 /\ n - 1 \in Nat /\ n - 1 \notin T
    BY <1>2
  <1>4. QED BY <1>2, <1>3

(***************************************************************************)
(* The order the results are drawn in.                                     *)
(***************************************************************************)
Before(E, R, e) == {f \in E : <<f, e>> \in R}

StrictTotal(E, R) ==
  /\ \A e \in E : <<e, e>> \notin R
  /\ \A e, f \in E : e # f => <<e, f>> \in R \/ <<f, e>> \in R
  /\ \A e, f, g \in E : <<e, f>> \in R /\ <<f, g>> \in R => <<e, g>> \in R

\* In a total order there are fewer before the one that comes before.
LEMMA FewerBefore ==
  ASSUME NEW E, IsFiniteSet(E), NEW R, StrictTotal(E, R),
         NEW e \in E, NEW f \in E, <<e, f>> \in R
  PROVE  Cardinality(Before(E, R, e)) < Cardinality(Before(E, R, f))
  <1> DEFINE X == Before(E, R, e)
             Y == Before(E, R, f)
  <1>1. X \subseteq Y /\ e \in Y /\ e \notin X /\ Y \subseteq E
    BY DEF Before, StrictTotal
  <1>2. IsFiniteSet(Y)
    BY <1>1, FS_Subset
  <1>3. IsFiniteSet(X) /\ Cardinality(X) <= Cardinality(Y) /\ Cardinality(Y) # Cardinality(X)
    <2> HIDE DEF X, Y
    <2>1. X \in SUBSET Y /\ X # Y
      BY <1>1
    <2>2. QED BY <1>2, <2>1, FS_Subset
  <1>4. Cardinality(X) \in Nat /\ Cardinality(Y) \in Nat
    BY <1>2, <1>3, FS_CardinalityType
  <1> HIDE DEF X, Y
  <1>5. Cardinality(X) < Cardinality(Y)
    BY <1>3, <1>4
  <1>6. QED BY <1>5 DEF X, Y

\* Every place in a finite total order is taken by just one element.
LEMMA Ranked ==
  ASSUME NEW E, IsFiniteSet(E), NEW R, StrictTotal(E, R)
  PROVE  /\ \A e \in E : Cardinality(Before(E, R, e)) + 1 \in 1..Cardinality(E)
         /\ \A e, f \in E : Cardinality(Before(E, R, e)) = Cardinality(Before(E, R, f)) => e = f
         /\ \A k \in 1..Cardinality(E) : \E e \in E : Cardinality(Before(E, R, e)) = k - 1
  <1> DEFINE n == Cardinality(E)
             rank == [e \in E |-> Cardinality(Before(E, R, e)) + 1]
  <1>1. n \in Nat
    BY FS_CardinalityType
  <1>2. ASSUME NEW e \in E
        PROVE  Cardinality(Before(E, R, e)) \in Nat /\ Cardinality(Before(E, R, e)) < n
    <2> DEFINE X == Before(E, R, e)
    <2>1. X \in SUBSET E /\ X # E
      BY DEF Before, StrictTotal
    <2> HIDE DEF X
    <2>2. IsFiniteSet(X) /\ Cardinality(X) <= n /\ n # Cardinality(X)
      BY <2>1, FS_Subset
    <2>3. Cardinality(X) \in Nat
      BY <2>2, FS_CardinalityType
    <2> HIDE DEF n
    <2>4. Cardinality(X) < n
      BY <1>1, <2>2, <2>3
    <2>5. QED BY <2>3, <2>4 DEF X
  <1>3. ASSUME NEW e \in E, NEW f \in E,
               Cardinality(Before(E, R, e)) = Cardinality(Before(E, R, f))
        PROVE  e = f
    <2>1. SUFFICES ASSUME e # f PROVE FALSE
      OBVIOUS
    <2>2. /\ ~(Cardinality(Before(E, R, e)) < Cardinality(Before(E, R, f)))
          /\ ~(Cardinality(Before(E, R, f)) < Cardinality(Before(E, R, e)))
      BY <1>2, <1>3
    <2>3. <<e, f>> \notin R /\ <<f, e>> \notin R
      BY <2>2, FewerBefore
    <2>4. QED BY <2>1, <2>3 DEF StrictTotal
  <1>4. rank \in [E -> 1..n]
    <2> HIDE DEF n
    <2>1. \A e \in E : Cardinality(Before(E, R, e)) + 1 \in 1..n
      BY <1>1, <1>2
    <2>2. QED BY <2>1
  <1>5. rank \in Injection(E, 1..n)
    <2>1. \A e, f \in E : rank[e] = rank[f] => e = f
      BY <1>2, <1>3
    <2>2. QED BY <1>4, <2>1 DEF Injection, IsInjective
  <1>6. IsFiniteSet(1..n) /\ Cardinality(1..n) = n
    <2> HIDE DEF n
    <2>1. IsFiniteSet(1..n) /\ Cardinality(1..n) = IF 1 > n THEN 0 ELSE n - 1 + 1
      BY <1>1, FS_Interval
    <2>2. QED BY <1>1, <2>1
  <1>7. rank \in Surjection(E, 1..n)
    <2> HIDE DEF rank
    <2>1. QED BY <1>5, <1>6, FS_Injection
  <1>8. ASSUME NEW k \in 1..n PROVE \E e \in E : Cardinality(Before(E, R, e)) = k - 1
    <2>1. PICK e \in E : rank[e] = k
      BY <1>7 DEF Surjection
    <2>2. Cardinality(Before(E, R, e)) = k - 1
      BY <1>2, <2>1
    <2>3. QED BY <2>2
  <1>9. QED BY <1>1, <1>2, <1>3, <1>8

\* SetToSeq has all elements of a finite set, each once.
LEMMA SetToSeqSound ==
  ASSUME NEW G, IsFiniteSet(G)
  PROVE  LET s == SetToSeq(G)
         IN  /\ s \in Seq(G) /\ Len(s) = Cardinality(G) /\ Len(s) \in Nat
             /\ \A i, k \in 1..Len(s) : s[i] = s[k] => i = k
             /\ \A g \in G : \E i \in 1..Len(s) : s[i] = g
  <1> DEFINE n == Cardinality(G)
             s == SetToSeq(G)
  <1>1. n \in Nat /\ ExistsBijection(1..n, G)
    BY FS_CardinalityType
  <1>2. \E f \in [1..n -> G] : IsInjective(f)
    BY <1>1 DEF ExistsBijection, Bijection, Injection
  <1>3. s \in [1..n -> G] /\ IsInjective(s)
    BY <1>2 DEF SetToSeq
  <1> HIDE DEF s
  <1>4. s \in Injection(1..n, G)
    BY <1>3 DEF Injection
  <1>5. IsFiniteSet(1..n) /\ Cardinality(1..n) = n
    <2> HIDE DEF n
    <2>1. IsFiniteSet(1..n) /\ Cardinality(1..n) = IF 1 > n THEN 0 ELSE n - 1 + 1
      BY <1>1, FS_Interval
    <2>2. QED BY <1>1, <2>1
  <1>6. s \in Surjection(1..n, G)
    BY <1>4, <1>5, FS_Injection
  <1>7. \A g \in G : \E i \in 1..n : s[i] = g
    BY <1>6 DEF Surjection
  <1>8. s \in Seq(G) /\ Len(s) = n
    <2> HIDE DEF n
    <2>1. QED BY <1>1, <1>3
  <1>9. \A i, k \in 1..n : s[i] = s[k] => i = k
    BY <1>3 DEF IsInjective
  <1>10. QED BY <1>1, <1>7, <1>8, <1>9 DEF s

(***************************************************************************)
(* The results there are, and which of them a page draws.                  *)
(***************************************************************************)
File == [name : Names, job : Jobs, metrics : SUBSET Figure, parses : BOOLEAN, stamp : Nat]

FilesInv ==
  /\ IsFiniteSet(files) /\ files \subseteq File
  /\ \A f \in files : f.stamp <= Cardinality(files)
  /\ \A f, g \in files : f.stamp = g.stamp => f = g

LEMMA FilesNext == FilesInv /\ [FNext]_<<svars, fvars>> => FilesInv'
  <1> SUFFICES ASSUME FilesInv, [FNext]_<<svars, fvars>> PROVE FilesInv'
    OBVIOUS
  <1>1. CASE UNCHANGED files
    BY <1>1 DEF FilesInv
  <1>2. CASE RunBenchmark
    <2> DEFINE n == Cardinality(files)
    <2>1. PICK name \in Names, job \in Jobs, metrics \in Metrics, parses \in BOOLEAN :
            files' = files \cup {[name |-> name, job |-> job, metrics |-> metrics,
                                  parses |-> parses, stamp |-> n + 1]}
      BY <1>2 DEF RunBenchmark
    <2> DEFINE f == [name |-> name, job |-> job, metrics |-> metrics,
                     parses |-> parses, stamp |-> n + 1]
    <2>2. n \in Nat
      BY FS_CardinalityType DEF FilesInv
    <2>3. f \in File /\ f.stamp = n + 1
      BY <2>2, ResultsAssumption DEF File
    <2>4. \A g \in files : g.stamp \in Nat /\ g.stamp <= n
      BY DEF FilesInv, File
    <2>5. f \notin files
      BY <2>2, <2>3, <2>4
    <2>6. files' = files \cup {f}
      BY <2>1
    <2> HIDE DEF f
    <2>7. IsFiniteSet(files') /\ Cardinality(files') = n + 1
      BY <2>5, <2>6, FS_AddElement DEF FilesInv
    <2> HIDE DEF n
    <2>8. \A g \in files' : g.stamp <= n + 1
      BY <2>2, <2>3, <2>4, <2>6
    <2>9. \A g, h \in files' : g.stamp = h.stamp => g = h
      BY <2>2, <2>3, <2>4, <2>6 DEF FilesInv
    <2>10. files' \subseteq File
      BY <2>3, <2>6 DEF FilesInv
    <2>11. QED BY <2>7, <2>8, <2>9, <2>10 DEF FilesInv
  <1>3. QED BY <1>1, <1>2 DEF FNext, Plot, Toggle, ClickLegend, fvars

\* A result's group, the part of it that pages have, and its entry.
History(f) == find_fio_files_with_history(f.job, Config(f))
EntryOf(f) == [file |-> f, latest |-> \A e \in History(f) : f.stamp >= e.stamp]
OnPage(jobset, filter) ==
  {f \in files : f.job \in jobset /\ Passes(filter, Config(f)) /\ f \in History(f)}

\* A page's entries are those of its results, group by group.
LEMMA EntriesByFile ==
  ASSUME NEW jobset, NEW filter
  PROVE  Entries(jobset, filter) = {EntryOf(f) : f \in OnPage(jobset, filter)}
  <1> DEFINE H(g) == find_fio_files_with_history(g[1], g[2])
             E(g) == {[file |-> f, latest |-> \A e \in H(g) : f.stamp >= e.stamp] : f \in H(g)}
  <1>1. Entries(jobset, filter) = UNION {E(g) : g \in Groups(jobset, filter)}
    BY DEF Entries
  <1>2. \A job, config : \A f \in find_fio_files_with_history(job, config) :
          f \in files /\ f.job = job /\ Config(f) = config
    BY DEF find_fio_files_with_history, Grouped
  <1>3. \A f : <<f.job, Config(f)>>[1] = f.job /\ <<f.job, Config(f)>>[2] = Config(f)
    OBVIOUS
  <1>4. \A f : H(<<f.job, Config(f)>>) = History(f)
    BY DEF History
  <1> HIDE DEF H
  <1>5. ASSUME NEW g \in Groups(jobset, filter), NEW f \in H(g)
        PROVE  /\ f \in OnPage(jobset, filter)
               /\ [file |-> f, latest |-> \A e \in H(g) : f.stamp >= e.stamp] = EntryOf(f)
    <2>1. g[1] \in jobset /\ Passes(filter, g[2])
      BY DEF Groups
    <2>2. f \in files /\ f.job = g[1] /\ Config(f) = g[2] /\ f \in find_fio_files_with_history(g[1], g[2])
      BY <1>2 DEF H
    <2>3. H(g) = History(f)
      BY <2>2 DEF H, History
    <2>4. QED BY <2>1, <2>2, <2>3 DEF OnPage, EntryOf, History
  <1>6. ASSUME NEW f \in OnPage(jobset, filter)
        PROVE  \E g \in Groups(jobset, filter) : EntryOf(f) \in E(g)
    <2> DEFINE g == <<f.job, Config(f)>>
    <2>1. /\ f \in files /\ f.job \in jobset /\ Passes(filter, Config(f)) /\ f \in History(f)
      BY DEF OnPage
    <2>2. f \in Grouped(f.job, Config(f))
      BY <2>1 DEF Grouped
    <2>3. g \in jobset \X {Config(h) : h \in files}
      BY <2>1
    <2>4. g \in Groups(jobset, filter)
      BY <2>1, <2>2, <2>3 DEF Groups
    <2>5. EntryOf(f) \in E(g)
      BY <1>4, <2>1 DEF EntryOf
    <2>6. QED BY <2>4, <2>5
  <1>7. ASSUME NEW x \in Entries(jobset, filter)
        PROVE  x \in {EntryOf(f) : f \in OnPage(jobset, filter)}
    <2>1. PICK g \in Groups(jobset, filter) : x \in E(g)
      BY <1>1
    <2>2. PICK f \in H(g) : x = [file |-> f, latest |-> \A e \in H(g) : f.stamp >= e.stamp]
      BY <2>1
    <2>3. QED BY <1>5, <2>2
  <1>8. ASSUME NEW f \in OnPage(jobset, filter) PROVE EntryOf(f) \in Entries(jobset, filter)
    BY <1>1, <1>6
  <1>9. QED BY <1>7, <1>8

\* There are finitely many groups and entries.
LEMMA FiniteEntries ==
  ASSUME FilesInv, NEW jobset, NEW filter
  PROVE  /\ IsFiniteSet(Groups(jobset, filter))
         /\ IsFiniteSet(Entries(jobset, filter))
  <1> DEFINE on == OnPage(jobset, filter)
             pairs == {<<f.job, Config(f)>> : f \in files}
             entry == [f \in on |-> EntryOf(f)]
             group == [f \in files |-> <<f.job, Config(f)>>]
  <1>1. IsFiniteSet(files) /\ on \in SUBSET files
    BY DEF FilesInv, OnPage
  <1>2. IsFiniteSet(on)
    <2> HIDE DEF on
    <2>1. QED BY <1>1, FS_Subset
  <1>3. entry \in Surjection(on, {EntryOf(f) : f \in on})
    BY DEF Surjection
  <1>4. IsFiniteSet({EntryOf(f) : f \in on})
    <2> HIDE DEF entry, on
    <2>1. QED BY <1>2, <1>3, FS_Surjection
  <1>5. group \in Surjection(files, pairs)
    BY DEF Surjection
  <1>6. IsFiniteSet(pairs)
    <2> HIDE DEF group, pairs
    <2>1. QED BY <1>1, <1>5, FS_Surjection
  <1>7. Groups(jobset, filter) \in SUBSET pairs
    <2> SUFFICES ASSUME NEW g \in Groups(jobset, filter) PROVE g \in pairs
      OBVIOUS
    <2>1. g \in jobset \X {Config(f) : f \in files} /\ Grouped(g[1], g[2]) # {}
      BY DEF Groups
    <2>2. PICK f : f \in Grouped(g[1], g[2])
      BY <2>1
    <2>3. f \in files /\ f.job = g[1] /\ Config(f) = g[2]
      BY <2>2 DEF Grouped
    <2>4. g = <<g[1], g[2]>>
      BY <2>1
    <2>5. QED BY <2>3, <2>4
  <1>8. IsFiniteSet(Groups(jobset, filter))
    <2> HIDE DEF pairs
    <2>1. QED BY <1>6, <1>7, FS_Subset
  <1>9. QED BY <1>4, <1>8, EntriesByFile

\* An entry is a result's own, and its group is one of the page's.
LEMMA EntryKnown ==
  ASSUME FilesInv, NEW jobset, NEW filter, NEW e \in Entries(jobset, filter)
  PROVE  /\ e.file \in OnPage(jobset, filter) /\ e = EntryOf(e.file)
         /\ e \in [file : File, latest : BOOLEAN]
         /\ <<e.file.job, Config(e.file)>> \in Groups(jobset, filter)
  <1>1. PICK f \in OnPage(jobset, filter) : e = EntryOf(f)
    BY EntriesByFile
  <1>2. e.file = f /\ f \in files /\ f \in File
    BY <1>1 DEF EntryOf, OnPage, FilesInv
  <1>3. e \in [file : File, latest : BOOLEAN]
    BY <1>1, <1>2 DEF EntryOf
  <1>4. f \in Grouped(f.job, Config(f)) /\ f.job \in jobset /\ Passes(filter, Config(f))
    BY <1>2 DEF Grouped, OnPage
  <1>5. <<f.job, Config(f)>> \in Groups(jobset, filter)
    <2>1. <<f.job, Config(f)>> \in jobset \X {Config(h) : h \in files}
      BY <1>2, <1>4
    <2>2. QED BY <1>4, <2>1 DEF Groups
  <1>6. QED BY <1>1, <1>2, <1>3, <1>5

PlaceOf(order, e) == CHOOSE i \in 1..Len(order) : order[i] = <<e.file.job, Config(e.file)>>
DrawnFirst(order, E) == {p \in E \X E : DrawnBefore(order, p[1], p[2])}

\* Any two results of a page are drawn one before the other.
LEMMA OrderTotal ==
  ASSUME FilesInv, NEW jobset, NEW filter
  PROVE  LET E == Entries(jobset, filter)
             order == SetToSeq(Groups(jobset, filter))
         IN  StrictTotal(E, DrawnFirst(order, E))
  <1> DEFINE E == Entries(jobset, filter)
             G == Groups(jobset, filter)
             order == SetToSeq(G)
             At(e) == PlaceOf(order, e)
             R == DrawnFirst(order, E)
  <1>1. /\ Len(order) \in Nat
        /\ \A g \in G : \E i \in 1..Len(order) : order[i] = g
    <2>1. IsFiniteSet(G)
      BY FiniteEntries
    <2> HIDE DEF G
    <2>2. QED BY <2>1, SetToSeqSound
  <1>2. ASSUME NEW e \in E PROVE At(e) \in Int /\ e.file.stamp \in Int
    <2>1. /\ <<e.file.job, Config(e.file)>> \in G /\ e.file \in File
      BY EntryKnown
    <2>2. \E i \in 1..Len(order) : order[i] = <<e.file.job, Config(e.file)>>
      BY <1>1, <2>1
    <2> HIDE DEF order
    <2>3. At(e) \in 1..Len(order)
      BY <2>2 DEF PlaceOf
    <2>4. QED BY <1>1, <2>1, <2>3 DEF File
  <1>3. ASSUME NEW e \in E, NEW f \in E
        PROVE  <<e, f>> \in R <=>
                 At(e) < At(f) \/ (At(e) = At(f) /\ e.file.stamp < f.file.stamp)
    <2> HIDE DEF E, order
    <2>1. <<e, f>> \in R <=> DrawnBefore(order, e, f)
      <3>1. <<e, f>> \in E \X E
        OBVIOUS
      <3>2. <<e, f>>[1] = e /\ <<e, f>>[2] = f
        OBVIOUS
      <3>3. QED BY <3>1, <3>2 DEF DrawnFirst
    <2>2. DrawnBefore(order, e, f) <=>
            PlaceOf(order, e) < PlaceOf(order, f)
            \/ (PlaceOf(order, e) = PlaceOf(order, f) /\ e.file.stamp < f.file.stamp)
      BY Zenon DEF DrawnBefore, PlaceOf
    <2>3. QED BY <2>1, <2>2
  <1>4. ASSUME NEW e \in E, NEW f \in E, e.file.stamp = f.file.stamp PROVE e = f
    <2>1. /\ e.file \in files /\ f.file \in files /\ e = EntryOf(e.file) /\ f = EntryOf(f.file)
      BY EntryKnown DEF OnPage
    <2>2. e.file = f.file
      BY <1>4, <2>1 DEF FilesInv
    <2>3. QED BY <2>1, <2>2
  <1> HIDE DEF E, R, order
  <1> HIDE DEF At
  <1>5. \A e \in E : <<e, e>> \notin R
    BY <1>2, <1>3
  <1>6. \A e, f \in E : e # f => <<e, f>> \in R \/ <<f, e>> \in R
    BY <1>2, <1>3, <1>4
  <1>7. \A e, f, g \in E : <<e, f>> \in R /\ <<f, g>> \in R => <<e, g>> \in R
    BY <1>2, <1>3
  <1>8. QED BY <1>5, <1>6, <1>7 DEF StrictTotal, E, R, order

\* Every entry is drawn, and nothing else.
LEMMA DrawnEntries ==
  ASSUME FilesInv, NEW jobset, NEW filter
  PROVE  LET E == Entries(jobset, filter)
             order == SetToSeq(Groups(jobset, filter))
         IN  /\ Cardinality(E) \in Nat
             /\ \A k \in 1..Cardinality(E) : Drawn(order, E, k) \in E
             /\ \A e \in E : \E k \in 1..Cardinality(E) : Drawn(order, E, k) = e
  <1> DEFINE E == Entries(jobset, filter)
             order == SetToSeq(Groups(jobset, filter))
             R == DrawnFirst(order, E)
             n == Cardinality(E)
  <1>1. IsFiniteSet(E) /\ StrictTotal(E, R)
    BY FiniteEntries, OrderTotal
  <1> HIDE DEF E, order
  <1>2. \A e \in E : {f \in E : DrawnBefore(order, f, e)} = Before(E, R, e)
    BY DEF Before, DrawnFirst
  <1> HIDE DEF R
  <1>3. /\ \A e \in E : Cardinality(Before(E, R, e)) + 1 \in 1..n
        /\ \A e, f \in E : Cardinality(Before(E, R, e)) = Cardinality(Before(E, R, f)) => e = f
        /\ \A k \in 1..n : \E e \in E : Cardinality(Before(E, R, e)) = k - 1
    BY <1>1, Ranked
  <1>4. n \in Nat /\ \A e \in E : Cardinality(Before(E, R, e)) \in Nat
    <2>1. \A e \in E : Before(E, R, e) \in SUBSET E
      BY DEF Before
    <2>2. QED BY <1>1, <2>1, FS_Subset, FS_CardinalityType
  <1>5. ASSUME NEW k \in 1..n
        PROVE  /\ Drawn(order, E, k) \in E
               /\ Cardinality(Before(E, R, Drawn(order, E, k))) = k - 1
    <2>1. \E e \in E : Cardinality({f \in E : DrawnBefore(order, f, e)}) = k - 1
      BY <1>2, <1>3
    <2>2. /\ Drawn(order, E, k) \in E
          /\ Cardinality({f \in E : DrawnBefore(order, f, Drawn(order, E, k))}) = k - 1
      BY <2>1 DEF Drawn
    <2>3. QED BY <1>2, <2>2
  <1>6. ASSUME NEW e \in E PROVE \E k \in 1..n : Drawn(order, E, k) = e
    <2> DEFINE k == Cardinality(Before(E, R, e)) + 1
    <2>1. k \in 1..n
      BY <1>3
    <2>2. Cardinality(Before(E, R, Drawn(order, E, k))) = Cardinality(Before(E, R, e))
      BY <1>4, <1>5, <2>1
    <2>3. Drawn(order, E, k) = e
      BY <1>3, <1>5, <2>1, <2>2
    <2>4. QED BY <2>1, <2>3
  <1>7. QED BY <1>4, <1>5, <1>6 DEF E, order

\* The figures after each of the results drawn: create_figures_with_history's
\* recursion has a solution.
DrawnOneByOne(F, order, E, n) ==
  F = [k \in 0..n |-> IF k = 0 THEN Blank ELSE Draw(F[k - 1], Drawn(order, E, k))]

LEMMA FiguresExist ==
  ASSUME NEW order, NEW E, NEW N \in Nat
  PROVE  \E F : DrawnOneByOne(F, order, E, N)
  <1> DEFINE S == {n \in Nat : \E F : DrawnOneByOne(F, order, E, n)}
  <1>1. 0 \in S
    <2> DEFINE F == [k \in 0..0 |-> Blank]
    <2>1. DrawnOneByOne(F, order, E, 0)
      BY DEF DrawnOneByOne
    <2>2. QED BY <2>1
  <1>2. ASSUME NEW n \in Nat, n \in S PROVE n + 1 \in S
    <2>1. PICK F : DrawnOneByOne(F, order, E, n)
      BY <1>2
    <2> DEFINE G == [k \in 0..n + 1 |-> IF k <= n THEN F[k]
                                       ELSE Draw(F[n], Drawn(order, E, n + 1))]
    <2>2. ASSUME NEW k \in 0..n + 1
          PROVE  G[k] = IF k = 0 THEN Blank ELSE Draw(G[k - 1], Drawn(order, E, k))
      <3>1. CASE k = n + 1
        <4>1. G[k] = Draw(F[n], Drawn(order, E, n + 1)) /\ G[k - 1] = F[n]
          BY <3>1
        <4>2. QED BY <3>1, <4>1
      <3>2. CASE k # n + 1
        <4>1. k \in 0..n /\ (k # 0 => k - 1 \in 0..n)
          BY <3>2
        <4>2. F[k] = IF k = 0 THEN Blank ELSE Draw(F[k - 1], Drawn(order, E, k))
          BY <2>1, <4>1 DEF DrawnOneByOne
        <4>3. G[k] = F[k] /\ (k # 0 => G[k - 1] = F[k - 1])
          BY <4>1
        <4>4. QED BY <4>2, <4>3
      <3>3. QED BY <3>1, <3>2
    <2>3. DrawnOneByOne(G, order, E, n + 1)
      BY <2>2 DEF DrawnOneByOne
    <2> HIDE DEF G
    <2>4. QED BY <2>3
  <1>3. Nat \subseteq S
    <2> HIDE DEF S
    <2>1. QED BY <1>1, <1>2, Induction
  <1>4. QED BY <1>3

LEMMA FiguresOneByOne ==
  ASSUME NEW jobset, NEW filter, Cardinality(Entries(jobset, filter)) \in Nat
  PROVE  LET E == Entries(jobset, filter)
             order == SetToSeq(Groups(jobset, filter))
             n == Cardinality(E)
         IN  \E F : /\ DrawnOneByOne(F, order, E, n)
                   /\ create_figures_with_history(jobset, filter) = F[n]
  <1> DEFINE E == Entries(jobset, filter)
             order == SetToSeq(Groups(jobset, filter))
             n == Cardinality(E)
             F == CHOOSE F : F = [k \in 0..n |-> IF k = 0 THEN Blank
                                                ELSE Draw(F[k - 1], Drawn(order, E, k))]
  <1>1. create_figures_with_history(jobset, filter) = F[n]
    BY DEF create_figures_with_history
  <1> HIDE DEF E, order
  <1>2. \E H : H = [k \in 0..n |-> IF k = 0 THEN Blank
                                  ELSE Draw(H[k - 1], Drawn(order, E, k))]
    <2>1. n \in Nat
      BY DEF E
    <2>2. QED BY <2>1, FiguresExist DEF DrawnOneByOne
  <1>3. DrawnOneByOne(F, order, E, n)
    BY <1>2 DEF DrawnOneByOne
  <1> HIDE DEF F
  <1>4. QED BY <1>1, <1>3 DEF E, order

(***************************************************************************)
(* The figures of a page and its selector.  Between any two results drawn  *)
(* and any two clicks, the bars of a figure and the results that have      *)
(* their place in it are in one-to-one correspondence, and the bars shown  *)
(* are those of the results in "on", a set of each figure's own.           *)
(***************************************************************************)
Bar == [file : File, shown : BOOLEAN]
Info == [file : File, latest : BOOLEAN, at : UNION {[has -> Nat] : has \in SUBSET Figure}]
Drawing == [bw : Seq(Bar), iops : Seq(Bar), lat : Seq(Bar), selector : Seq(Info)]

\* The results that have a bar of this kind.
With(infos, kind) == {i \in 1..Len(infos) : kind \in DOMAIN infos[i].at}

Linked(bars, infos, kind, on) ==
  /\ bars \in Seq(Bar)
  /\ \A i \in With(infos, kind) :
       /\ infos[i].at[kind] \in 1..Len(bars)
       /\ bars[infos[i].at[kind]].file = infos[i].file
       /\ bars[infos[i].at[kind]].shown <=> i \in on
  /\ \A i, k \in With(infos, kind) : infos[i].at[kind] = infos[k].at[kind] => i = k
  /\ \A b \in 1..Len(bars) : \E i \in With(infos, kind) : infos[i].at[kind] = b

AllLinked(d, on) == d.selector \in Seq(Info) /\ \A kind \in Figure : Linked(d[kind], d.selector, kind, on)

\* A result that has no bar of this kind leaves the figure alone.
LEMMA LinkWithout ==
  ASSUME NEW bars, NEW infos \in Seq(Info), NEW kind, NEW on, NEW also,
         Linked(bars, infos, kind, on), NEW info \in Info, kind \notin DOMAIN info.at,
         \A i \in 1..Len(infos) : i \in also <=> i \in on
  PROVE  Linked(bars, Append(infos, info), kind, also)
  <1> DEFINE new == Append(infos, info)
  <1>1. /\ Len(new) = Len(infos) + 1 /\ Len(infos) \in Nat /\ new[Len(infos) + 1] = info
        /\ \A i \in 1..Len(infos) : new[i] = infos[i]
    BY AppendLast
  <1> HIDE DEF new
  <1>2. With(new, kind) = With(infos, kind)
    <2>1. \A i \in 1..Len(new) : i \in 1..Len(infos) \/ i = Len(infos) + 1
      BY <1>1
    <2>2. \A i \in 1..Len(infos) : i \in 1..Len(new)
      BY <1>1
    <2>3. QED BY <1>1, <2>1, <2>2 DEF With
  <1>3. \A i \in With(infos, kind) : i \in 1..Len(infos) /\ new[i] = infos[i]
    BY <1>1 DEF With
  <1>4. QED BY <1>2, <1>3 DEF Linked, new

\* A result that has one gets the next place, and nobody else has that.
LEMMA LinkWith ==
  ASSUME NEW bars, NEW infos \in Seq(Info), NEW kind, NEW on, NEW also,
         Linked(bars, infos, kind, on), NEW info \in Info, kind \in DOMAIN info.at,
         NEW bar \in Bar, bar.file = info.file, bar.shown <=> Len(infos) + 1 \in also,
         info.at[kind] = Len(bars) + 1,
         \A i \in 1..Len(infos) : i \in also <=> i \in on
  PROVE  Linked(Append(bars, bar), Append(infos, info), kind, also)
  <1> DEFINE new == Append(infos, info)
             more == Append(bars, bar)
             n == Len(infos) + 1
  <1>1. /\ Len(new) = n /\ Len(infos) \in Nat /\ new[n] = info
        /\ \A i \in 1..Len(infos) : new[i] = infos[i]
    BY AppendLast
  <1>2. bars \in Seq(Bar)
    BY DEF Linked
  <1>3. /\ more \in Seq(Bar) /\ Len(more) = Len(bars) + 1 /\ Len(bars) \in Nat
        /\ more[Len(bars) + 1] = bar /\ \A b \in 1..Len(bars) : more[b] = bars[b]
    BY <1>2, AppendLast
  <1> HIDE DEF new, more
  <1>4. /\ With(new, kind) = With(infos, kind) \cup {n}
        /\ n \notin With(infos, kind)
    <2>1. \A i \in 1..Len(new) : i \in 1..Len(infos) \/ i = n
      BY <1>1
    <2>2. \A i \in 1..Len(infos) : i \in 1..Len(new) /\ i # n
      BY <1>1
    <2>3. n \in 1..Len(new)
      BY <1>1
    <2> HIDE DEF n
    <2>4. QED BY <1>1, <2>1, <2>2, <2>3 DEF With
  <1>5. ASSUME NEW i \in With(infos, kind)
        PROVE  /\ i \in 1..Len(infos) /\ new[i] = infos[i]
               /\ new[i].at[kind] \in 1..Len(bars)
               /\ new[i].at[kind] \in 1..Len(more) /\ new[i].at[kind] # Len(bars) + 1
               /\ more[new[i].at[kind]].file = new[i].file
               /\ more[new[i].at[kind]].shown <=> i \in also
    <2>1. i \in 1..Len(infos) /\ new[i] = infos[i]
      BY <1>1 DEF With
    <2>2. /\ infos[i].at[kind] \in 1..Len(bars)
          /\ bars[infos[i].at[kind]].file = infos[i].file
          /\ bars[infos[i].at[kind]].shown <=> i \in on
      BY DEF Linked
    <2>3. more[infos[i].at[kind]] = bars[infos[i].at[kind]]
      BY <1>3, <2>2
    <2>4. infos[i].at[kind] \in 1..Len(more) /\ infos[i].at[kind] # Len(bars) + 1
      BY <1>3, <2>2
    <2>5. QED BY <2>1, <2>2, <2>3, <2>4
  <1>6. /\ new[n].at[kind] \in 1..Len(more) /\ new[n].at[kind] = Len(bars) + 1
        /\ more[new[n].at[kind]].file = new[n].file
        /\ more[new[n].at[kind]].shown <=> n \in also
    <2>1. Len(bars) + 1 \in 1..Len(more)
      BY <1>3
    <2>2. QED BY <1>1, <1>3, <2>1
  <1> HIDE DEF n
  <1>7. \A i \in With(new, kind) :
          /\ new[i].at[kind] \in 1..Len(more)
          /\ more[new[i].at[kind]].file = new[i].file
          /\ more[new[i].at[kind]].shown <=> i \in also
    BY <1>4, <1>5, <1>6
  <1>8. \A i, k \in With(new, kind) : new[i].at[kind] = new[k].at[kind] => i = k
    <2>1. \A i, k \in With(infos, kind) : new[i].at[kind] = new[k].at[kind] => i = k
      BY <1>5 DEF Linked
    <2>2. QED BY <1>4, <1>5, <1>6, <2>1
  <1>9. ASSUME NEW b \in 1..Len(more) PROVE \E i \in With(new, kind) : new[i].at[kind] = b
    <2>1. b \in 1..Len(bars) \/ b = Len(bars) + 1
      BY <1>3
    <2>2. CASE b \in 1..Len(bars)
      <3>1. PICK i \in With(infos, kind) : infos[i].at[kind] = b
        BY <2>2 DEF Linked
      <3>2. QED BY <1>4, <1>5, <3>1
    <2>3. CASE b = Len(bars) + 1
      BY <1>4, <1>6, <2>3
    <2>4. QED BY <2>1, <2>2, <2>3
  <1>10. QED BY <1>3, <1>7, <1>8, <1>9 DEF Linked, new, more

\* The selector notes a result that has a bar.
Noted(infos, entry, new) ==
  IF entry.file.parses /\ entry.file.metrics # {}
  THEN \E info \in Info : /\ info.file = entry.file /\ info.latest = entry.latest
                         /\ new = Append(infos, info)
  ELSE new = infos

\* Drawing a result: what "Draw" appends where.
LEMMA DrawSound ==
  ASSUME NEW d, AllLinked(d, Checked(d)), NEW entry \in [file : File, latest : BOOLEAN],
         NEW new, new = Draw(d, entry)
  PROVE  /\ AllLinked(new, Checked(new))
         /\ Noted(d.selector, entry, new.selector)
  <1> DEFINE f == entry.file
             has == f.metrics
             bar == [file |-> f, shown |-> entry.latest]
             info == [file |-> f, latest |-> entry.latest, at |-> [kind \in has |-> Index(d, kind)]]
             Grown(kind) == IF kind \in has THEN Append(d[kind], bar) ELSE d[kind]
  <1>1. f \in File /\ has \in SUBSET Figure /\ bar \in Bar
    BY DEF File, Bar
  <1>2. d.selector \in Seq(Info) /\ \A kind \in Figure : d[kind] \in Seq(Bar)
    BY DEF AllLinked, Linked
  <1>3. info \in Info
    <2>1. \A kind \in has : Index(d, kind) \in Nat
      BY <1>1, <1>2 DEF Index
    <2>2. [kind \in has |-> Index(d, kind)] \in [has -> Nat]
      BY <2>1
    <2>3. [kind \in has |-> Index(d, kind)] \in UNION {[h -> Nat] : h \in SUBSET Figure}
      BY <1>1, <2>2
    <2> DEFINE at == [kind \in has |-> Index(d, kind)]
    <2>4. at \in UNION {[h -> Nat] : h \in SUBSET Figure}
      BY <2>3
    <2>5. entry.latest \in BOOLEAN
      OBVIOUS
    <2> HIDE DEF at, f
    <2>6. [file |-> f, latest |-> entry.latest, at |-> at] \in Info
      BY <1>1, <2>4, <2>5 DEF Info
    <2>7. QED BY <2>6 DEF at
  <1>4. CASE ~f.parses \/ has = {}
    <2>1. new.selector = d.selector /\ \A kind \in Figure : new[kind] = d[kind]
      BY <1>4 DEF Draw, Figure
    <2>2. Checked(new) = Checked(d)
      BY <2>1 DEF Checked
    <2>3. AllLinked(new, Checked(new))
      BY <2>1, <2>2 DEF AllLinked
    <2>4. QED BY <1>4, <2>1, <2>3 DEF Noted
  <1>5. CASE f.parses /\ has # {}
    <2>1. /\ new.selector = Append(d.selector, info)
          /\ new["bw"] = Grown("bw") /\ new["iops"] = Grown("iops") /\ new["lat"] = Grown("lat")
      BY <1>5 DEF Draw
    <2>2. \A kind \in Figure : new[kind] = Grown(kind)
      BY <2>1 DEF Figure
    <2>3. /\ info.file = f /\ info.latest = entry.latest /\ DOMAIN info.at = has
          /\ \A kind \in has : info.at[kind] = Len(d[kind]) + 1
          /\ bar.file = f /\ bar.shown = entry.latest
      BY DEF Index
    <2> HIDE DEF info, bar
    <2> DEFINE n == Len(d.selector) + 1
    <2>4. /\ new.selector \in Seq(Info) /\ Len(new.selector) = n
          /\ new.selector[n] = info /\ n \in 1..Len(new.selector)
          /\ \A i \in 1..Len(d.selector) : /\ new.selector[i] = d.selector[i]
                                           /\ i \in 1..Len(new.selector)
      BY <1>2, <1>3, <2>1, AppendLast
    <2>5. /\ \A i \in 1..Len(d.selector) : i \in Checked(new) <=> i \in Checked(d)
          /\ n \in Checked(new) <=> entry.latest
      <3> HIDE DEF n
      <3>1. QED BY <2>3, <2>4 DEF Checked
    <2>6. ASSUME NEW kind \in Figure
          PROVE  Linked(new[kind], new.selector, kind, Checked(new))
      <3>1. Linked(d[kind], d.selector, kind, Checked(d))
        BY DEF AllLinked
      <3>2. CASE kind \in has
        <4>1. new[kind] = Append(d[kind], bar)
          BY <2>2, <3>2
        <4>2. bar.shown <=> Len(d.selector) + 1 \in Checked(new)
          BY <2>3, <2>5
        <4> HIDE DEF has
        <4>3. Linked(Append(d[kind], bar), Append(d.selector, info), kind, Checked(new))
          BY <1>1, <1>2, <1>3, <2>3, <2>5, <3>1, <3>2, <4>2, LinkWith
        <4>4. QED BY <2>1, <4>1, <4>3
      <3>3. CASE kind \notin has
        <4>1. new[kind] = d[kind]
          BY <2>2, <3>3
        <4>2. kind \notin DOMAIN info.at
          BY <2>3, <3>3
        <4>3. Linked(d[kind], Append(d.selector, info), kind, Checked(new))
          BY <1>2, <1>3, <2>5, <3>1, <4>2, LinkWithout
        <4>4. QED BY <2>1, <4>1, <4>3
      <3>4. QED BY <3>2, <3>3
    <2>7. AllLinked(new, Checked(new))
      BY <2>4, <2>6 DEF AllLinked
    <2>8. Noted(d.selector, entry, new.selector)
      BY <1>3, <1>5, <2>1, <2>3 DEF Noted
    <2>9. QED BY <2>7, <2>8
  <1>6. QED BY <1>4, <1>5

\* Drawing a result leaves figures and selector what they are.
LEMMA DrawShape ==
  ASSUME NEW d \in Drawing, NEW entry, NEW new, new = Draw(d, entry),
         new.selector \in Seq(Info), \A kind \in Figure : new[kind] \in Seq(Bar)
  PROVE  new \in Drawing
  <1>1. CASE ~entry.file.parses
    BY <1>1 DEF Draw
  <1>2. CASE entry.file.parses
    <2>1. new = [bw |-> new.bw, iops |-> new.iops, lat |-> new.lat, selector |-> new.selector]
      BY <1>2 DEF Draw
    <2>2. new["bw"] \in Seq(Bar) /\ new["iops"] \in Seq(Bar) /\ new["lat"] \in Seq(Bar)
      BY DEF Figure
    <2> DEFINE a == new.bw
               b == new.iops
               c == new.lat
               e == new.selector
    <2>3. a \in Seq(Bar) /\ b \in Seq(Bar) /\ c \in Seq(Bar) /\ e \in Seq(Info)
      BY <2>2
    <2> HIDE DEF a, b, c, e
    <2>4. [bw |-> a, iops |-> b, lat |-> c, selector |-> e] \in Drawing
      BY <2>3 DEF Drawing
    <2>5. QED BY <2>1, <2>4 DEF a, b, c, e
  <1>3. QED BY <1>1, <1>2

\* The selector has the results of these entries, but for those without a bar.
Chosen(infos, T) ==
  /\ \A i \in 1..Len(infos) : \E e \in T : infos[i].file = e.file /\ infos[i].latest = e.latest
  /\ \A e \in T : e.file.parses /\ e.file.metrics # {} =>
       \E i \in 1..Len(infos) : infos[i].file = e.file

LEMMA ChosenNext ==
  ASSUME NEW infos \in Seq(Info), NEW T, Chosen(infos, T), NEW entry, NEW new,
         Noted(infos, entry, new)
  PROVE  Chosen(new, T \cup {entry})
  <1>1. CASE entry.file.parses /\ entry.file.metrics # {}
    <2>1. PICK info \in Info : /\ info.file = entry.file /\ info.latest = entry.latest
                              /\ new = Append(infos, info)
      BY <1>1 DEF Noted
    <2>2. /\ Len(new) = Len(infos) + 1 /\ Len(infos) \in Nat /\ new[Len(infos) + 1] = info
          /\ \A i \in 1..Len(infos) : new[i] = infos[i]
      BY <2>1, AppendLast
    <2>3. /\ \A i \in 1..Len(new) : i \in 1..Len(infos) \/ i = Len(infos) + 1
          /\ \A i \in 1..Len(infos) : i \in 1..Len(new)
          /\ Len(infos) + 1 \in 1..Len(new)
      BY <2>2
    <2>4. ASSUME NEW i \in 1..Len(new)
          PROVE  \E e \in T \cup {entry} : new[i].file = e.file /\ new[i].latest = e.latest
      <3>1. CASE i \in 1..Len(infos)
        BY <2>2, <3>1 DEF Chosen
      <3>2. CASE i = Len(infos) + 1
        BY <2>1, <2>2, <3>2
      <3>3. QED BY <2>3, <3>1, <3>2
    <2>5. ASSUME NEW e \in T \cup {entry}, e.file.parses /\ e.file.metrics # {}
          PROVE  \E i \in 1..Len(new) : new[i].file = e.file
      <3>1. CASE e \in T
        <4>1. PICK i \in 1..Len(infos) : infos[i].file = e.file
          BY <2>5, <3>1 DEF Chosen
        <4>2. QED BY <2>2, <2>3, <4>1
      <3>2. CASE e = entry
        BY <2>1, <2>2, <2>3, <3>2
      <3>3. QED BY <3>1, <3>2
    <2>6. QED BY <2>4, <2>5 DEF Chosen
  <1>2. CASE ~(entry.file.parses /\ entry.file.metrics # {})
    BY <1>2 DEF Chosen, Noted
  <1>3. QED BY <1>1, <1>2

\* The figures create_figures_with_history makes.
LEMMA FiguresSound ==
  ASSUME FilesInv, NEW jobset, NEW filter, NEW d, d = create_figures_with_history(jobset, filter)
  PROVE  d \in Drawing /\ AllLinked(d, Checked(d)) /\ Chosen(d.selector, Entries(jobset, filter))
  <1> DEFINE E == Entries(jobset, filter)
             order == SetToSeq(Groups(jobset, filter))
             n == Cardinality(E)
  <1>1. /\ n \in Nat
        /\ \A k \in 1..n : Drawn(order, E, k) \in E
        /\ \A e \in E : \E k \in 1..n : Drawn(order, E, k) = e
    BY DrawnEntries
  <1>2. PICK F : DrawnOneByOne(F, order, E, n) /\ d = F[n]
    BY <1>1, FiguresOneByOne
  <1>3. \A e \in E : e \in [file : File, latest : BOOLEAN]
    BY EntryKnown
  <1> HIDE DEF E, order, n
  <1> DEFINE T(k) == {Drawn(order, E, j) : j \in 1..k}
             Good(k) == /\ F[k] \in Drawing /\ AllLinked(F[k], Checked(F[k]))
                        /\ Chosen(F[k].selector, T(k))
             S == {k \in Nat : k <= n => Good(k)}
  <1>4. 0 \in S
    <2>1. F[0] = Blank
      BY <1>1, <1>2 DEF DrawnOneByOne
    <2>2. << >> \in Seq(Bar) /\ << >> \in Seq(Info) /\ Len(<< >>) = 0
      OBVIOUS
    <2>3. Blank \in Drawing
      BY <2>2 DEF Blank, Drawing
    <2>4. Blank.selector = << >> /\ \A kind \in Figure : Blank[kind] = << >>
      BY DEF Blank, Figure
    <2>5. ASSUME NEW kind \in Figure, NEW on PROVE Linked(<< >>, << >>, kind, on)
      BY DEF Linked, With
    <2>6. AllLinked(Blank, Checked(Blank))
      BY <2>2, <2>4, <2>5 DEF AllLinked
    <2>7. T(0) = {}
      OBVIOUS
    <2>8. Chosen(Blank.selector, T(0))
      BY <2>4, <2>7 DEF Chosen
    <2>9. QED BY <2>1, <2>3, <2>6, <2>8
  <1>5. ASSUME NEW k \in Nat, k \in S PROVE k + 1 \in S
    <2> SUFFICES ASSUME k + 1 <= n PROVE Good(k + 1)
      OBVIOUS
    <2> DEFINE entry == Drawn(order, E, k + 1)
    <2>1. Good(k) /\ k + 1 \in 1..n /\ k + 1 \in 0..n /\ k + 1 # 0 /\ (k + 1) - 1 = k
      BY <1>1, <1>5
    <2>2. F[k + 1] = Draw(F[k], entry)
      BY <1>2, <2>1 DEF DrawnOneByOne
    <2>3. entry \in [file : File, latest : BOOLEAN]
      BY <1>1, <1>3, <2>1
    <2>4. T(k + 1) = T(k) \cup {entry}
      <3>1. \A j \in 1..k + 1 : j \in 1..k \/ j = k + 1
        OBVIOUS
      <3>2. k + 1 \in 1..k + 1 /\ \A j \in 1..k : j \in 1..k + 1
        OBVIOUS
      <3>3. QED BY <3>1, <3>2
    <2>5. F[k] \in Drawing /\ AllLinked(F[k], Checked(F[k])) /\ Chosen(F[k].selector, T(k))
      BY <2>1
    <2> HIDE DEF entry, T
    <2> DEFINE new == F[k + 1]
    <2>6. AllLinked(new, Checked(new)) /\ Noted(F[k].selector, entry, new.selector)
      <3> DEFINE old == F[k]
      <3>1. new = Draw(old, entry) /\ AllLinked(old, Checked(old))
        BY <2>2, <2>5
      <3> HIDE DEF new, old
      <3>2. AllLinked(new, Checked(new)) /\ Noted(old.selector, entry, new.selector)
        BY ONLY <2>3, <3>1, DrawSound
      <3>3. QED BY <3>2 DEF old
    <2>7. new \in Drawing
      <3>1. new.selector \in Seq(Info) /\ \A kind \in Figure : new[kind] \in Seq(Bar)
        BY <2>6 DEF AllLinked, Linked
      <3>2. QED BY <2>2, <2>5, <3>1, DrawShape
    <2>8. Chosen(new.selector, T(k) \cup {entry})
      <3>1. F[k].selector \in Seq(Info)
        BY <2>5 DEF AllLinked
      <3> HIDE DEF new
      <3>2. QED BY <2>5, <2>6, <3>1, ChosenNext
    <2>9. QED BY <2>4, <2>6, <2>7, <2>8
  <1>6. Nat \subseteq S
    <2> HIDE DEF S
    <2>1. QED BY <1>4, <1>5, Induction
  <1>7. Good(n)
    BY <1>1, <1>6
  <1>8. T(n) = E
    BY <1>1
  <1>9. QED BY <1>2, <1>7, <1>8 DEF E

(***************************************************************************)
(* The page looked at.                                                     *)
(***************************************************************************)
Page == [drawn : Drawing, checked : SUBSET Nat, flipped : SUBSET (Figure \X Nat)]

\* The results whose bar in a figure is shown.
Shown(p, kind) ==
  {k \in 1..Len(p.drawn.selector) :
     k \in p.checked <=> <<kind, p.drawn.selector[k].at[kind]>> \notin p.flipped}
PageLinked(p) ==
  /\ p.drawn.selector \in Seq(Info)
  /\ \A kind \in Figure : Linked(p.drawn[kind], p.drawn.selector, kind, Shown(p, kind))

PageInv ==
  page # NoPage =>
    /\ page \in Page /\ PageLinked(page)
    /\ \E p \in Pages : Chosen(page.drawn.selector, Entries(p[1], p[2]))

\* A click restyles the bars of the checkbox, and no other.
LEMMA RestyleSound ==
  ASSUME NEW bars, NEW infos \in Seq(Info), NEW kind, NEW on, NEW also,
         Linked(bars, infos, kind, on), NEW i \in 1..Len(infos), NEW visible \in BOOLEAN,
         \A k \in With(infos, kind) : k \in also <=> IF k = i THEN visible ELSE k \in on
  PROVE  Linked(Restyled(infos[i], kind, bars, visible), infos, kind, also)
  <1>1. bars \in Seq(Bar) /\ \A k \in With(infos, kind) : k \in 1..Len(infos)
    BY DEF Linked, With
  <1>2. CASE kind \notin DOMAIN infos[i].at
    <2>1. Restyled(infos[i], kind, bars, visible) = bars
      BY <1>2 DEF Restyled
    <2>2. \A k \in With(infos, kind) : k # i
      BY <1>2 DEF With
    <2>3. QED BY <1>1, <2>1, <2>2 DEF Linked
  <1>3. CASE kind \in DOMAIN infos[i].at
    <2> DEFINE b == infos[i].at[kind]
               new == [bars EXCEPT ![b].shown = visible]
    <2>1. Restyled(infos[i], kind, bars, visible) = new
      BY <1>3 DEF Restyled
    <2>2. i \in With(infos, kind)
      BY <1>3 DEF With
    <2>3. b \in 1..Len(bars)
      BY <2>2 DEF Linked
    <2>4. bars[b] \in Bar
      BY <1>1, <2>3
    <2> HIDE DEF b
    <2>5. [bars[b] EXCEPT !.shown = visible] \in Bar
      BY <2>4 DEF Bar
    <2>6. new = [bars EXCEPT ![b] = [bars[b] EXCEPT !.shown = visible]]
      OBVIOUS
    <2>7. new \in Seq(Bar) /\ Len(new) = Len(bars)
      <3> DEFINE bar == [bars[b] EXCEPT !.shown = visible]
      <3> HIDE DEF bar
      <3>1. [bars EXCEPT ![b] = bar] \in Seq(Bar) /\ Len([bars EXCEPT ![b] = bar]) = Len(bars)
        BY <1>1, <2>3, <2>5 DEF bar
      <3>2. QED BY <2>6, <3>1 DEF bar
    <2>8. \A c \in 1..Len(bars) : new[c].file = bars[c].file
      <3>1. new[b] = [bars[b] EXCEPT !.shown = visible]
        BY <1>1, <2>3, <2>6
      <3>2. new[b].file = bars[b].file
        BY <2>4, <3>1 DEF Bar
      <3>3. \A c \in 1..Len(bars) : c # b => new[c] = bars[c]
        BY <1>1, <2>6
      <3> HIDE DEF new
      <3>4. QED BY <3>2, <3>3
    <2>9. \A c \in 1..Len(bars) : new[c].shown = IF c = b THEN visible ELSE bars[c].shown
      <3>1. new[b] = [bars[b] EXCEPT !.shown = visible]
        BY <1>1, <2>3, <2>6
      <3>2. new[b].shown = visible
        BY <2>4, <3>1 DEF Bar
      <3>3. \A c \in 1..Len(bars) : c # b => new[c] = bars[c]
        BY <1>1, <2>6
      <3> HIDE DEF new
      <3>4. QED BY <3>2, <3>3
    <2> HIDE DEF new
    <2>10. ASSUME NEW k \in With(infos, kind)
           PROVE  /\ infos[k].at[kind] \in 1..Len(new)
                  /\ new[infos[k].at[kind]].file = infos[k].file
                  /\ new[infos[k].at[kind]].shown <=> k \in also
      <3>1. /\ infos[k].at[kind] \in 1..Len(bars)
            /\ bars[infos[k].at[kind]].file = infos[k].file
            /\ bars[infos[k].at[kind]].shown <=> k \in on
        BY DEF Linked
      <3>2. infos[k].at[kind] = b <=> k = i
        BY <2>2 DEF Linked, b
      <3>3. QED BY <1>1, <2>7, <2>8, <2>9, <3>1, <3>2
    <2>11. QED BY <2>1, <2>7, <2>10 DEF Linked
  <1>4. QED BY <1>2, <1>3

\* A page's entries stay while the results do.
LEMMA EntriesStay ==
  ASSUME files' = files, NEW CONSTANT jobset, NEW CONSTANT filter
  PROVE  Entries(jobset, filter)' = Entries(jobset, filter)
  BY DEF Entries, Groups, find_fio_files_with_history, Grouped

LEMMA PageNext == FilesInv /\ PageInv /\ [FNext]_<<svars, fvars>> => PageInv'
  <1> SUFFICES ASSUME FilesInv, PageInv, [FNext]_<<svars, fvars>> PROVE PageInv'
    OBVIOUS
  <1>1. CASE UNCHANGED <<files, page>>
    <2>1. page' = page /\ files' = files
      BY <1>1
    <2>2. \A p \in Pages : Entries(p[1], p[2])' = Entries(p[1], p[2])
      BY <2>1, EntriesStay
    <2>3. QED BY <2>1, <2>2 DEF PageInv
  <1>2. CASE RunBenchmark
    BY <1>2 DEF RunBenchmark, PageInv
  <1>3. CASE Plot
    <2>1. PICK p \in Pages :
            LET drawn == create_figures_with_history(p[1], p[2])
            IN  page' = [drawn |-> drawn, checked |-> Checked(drawn), flipped |-> {}]
      BY <1>3 DEF Plot
    <2> DEFINE d == create_figures_with_history(p[1], p[2])
    <2>2. d \in Drawing /\ AllLinked(d, Checked(d)) /\ Chosen(d.selector, Entries(p[1], p[2]))
      BY FiguresSound
    <2> DEFINE new == [drawn |-> d, checked |-> Checked(d), flipped |-> {}]
    <2>3. page' = new
      BY <2>1
    <2>4. Checked(d) \in SUBSET Nat
      BY <2>2 DEF Checked, Drawing
    <2> HIDE DEF d
    <2>5. new \in Page /\ new.drawn = d /\ new.checked = Checked(d) /\ new.flipped = {}
      BY <2>2, <2>4 DEF Page
    <2> HIDE DEF new
    <2>6. PageLinked(new)
      <3>1. ASSUME NEW kind \in Figure
            PROVE  Linked(d[kind], d.selector, kind, Shown(new, kind))
        <4>1. Linked(d[kind], d.selector, kind, Checked(d))
          BY <2>2 DEF AllLinked
        <4>2. \A k \in With(d.selector, kind) : k \in Shown(new, kind) <=> k \in Checked(d)
          BY <2>5 DEF Shown, With
        <4>3. QED BY <4>1, <4>2 DEF Linked
      <3>2. QED BY <2>2, <2>5, <3>1 DEF PageLinked, AllLinked
    <2>7. Entries(p[1], p[2])' = Entries(p[1], p[2])
      BY <1>3, EntriesStay DEF Plot
    <2>8. QED BY <2>2, <2>3, <2>5, <2>6, <2>7 DEF PageInv
  <1>4. CASE Toggle
    <2> DEFINE infos == page.drawn.selector
    <2>1. PICK i \in 1..Len(infos) :
            LET on == i \notin page.checked
                After(kind) == Restyled(infos[i], kind, page.drawn[kind], on)
            IN  page' = [checked |-> IF on THEN page.checked \cup {i} ELSE page.checked \ {i},
                         flipped |-> page.flipped \ OwnBars(infos[i]),
                         drawn |-> [bw |-> After("bw"), iops |-> After("iops"),
                                    lat |-> After("lat"), selector |-> infos]]
      BY <1>4 DEF Toggle
    <2>2. /\ page \in Page /\ PageLinked(page)
          /\ \E p \in Pages : Chosen(infos, Entries(p[1], p[2]))
      BY <1>4 DEF Toggle, PageInv
    <2> DEFINE d == page.drawn
               on == i \notin page.checked
               also == IF on THEN page.checked \cup {i} ELSE page.checked \ {i}
               less == page.flipped \ OwnBars(infos[i])
               Re(kind) == Restyled(infos[i], kind, d[kind], on)
               drawing == [bw |-> Re("bw"), iops |-> Re("iops"), lat |-> Re("lat"), selector |-> infos]
               new == [checked |-> also, flipped |-> less, drawn |-> drawing]
    <2>3. /\ d \in Drawing /\ page.checked \in SUBSET Nat /\ infos \in Seq(Info)
          /\ page.flipped \in SUBSET (Figure \X Nat)
      BY <2>2 DEF Page, Drawing
    <2>4. page' = new
      BY <2>1
    <2>5. i \in Nat /\ also \in SUBSET Nat /\ on \in BOOLEAN /\ less \in SUBSET (Figure \X Nat)
      BY <2>3
    <2>6. \A k \in 1..Len(infos) : k \in also <=> IF k = i THEN on ELSE k \in page.checked
      OBVIOUS
    <2>7. /\ drawing.selector = infos
          /\ drawing["bw"] = Re("bw") /\ drawing["iops"] = Re("iops") /\ drawing["lat"] = Re("lat")
      OBVIOUS
    <2>8. \A kind \in Figure : drawing[kind] = Re(kind)
      BY <2>7 DEF Figure
    <2> HIDE DEF drawing
    <2>9. new.drawn = drawing /\ new.checked = also /\ new.flipped = less
      OBVIOUS
    <2> HIDE DEF new
    <2>10. ASSUME NEW kind \in Figure PROVE Linked(Re(kind), infos, kind, Shown(new, kind))
      <3>1. Linked(d[kind], infos, kind, Shown(page, kind))
        BY <2>2 DEF PageLinked
      <3>2. ASSUME NEW k \in With(infos, kind)
            PROVE  k \in Shown(new, kind) <=> IF k = i THEN on ELSE k \in Shown(page, kind)
        <4>1. k \in 1..Len(infos) /\ kind \in DOMAIN infos[k].at
          BY DEF With
        <4>2. k \in Shown(new, kind) <=> (k \in also <=> <<kind, infos[k].at[kind]>> \notin less)
          BY <2>7, <2>9, <4>1 DEF Shown
        <4>3. CASE k = i
          <5>1. <<kind, infos[k].at[kind]>> \notin less
            BY <4>1, <4>3 DEF OwnBars
          <5>2. QED BY <2>6, <4>1, <4>2, <4>3, <5>1
        <4>4. CASE k # i
          <5>1. <<kind, infos[k].at[kind]>> \notin OwnBars(infos[i])
            <6>1. ASSUME NEW other \in DOMAIN infos[i].at,
                         <<kind, infos[k].at[kind]>> = <<other, infos[i].at[other]>>
                  PROVE  FALSE
              <7>1. other = kind /\ infos[k].at[kind] = infos[i].at[kind]
                BY <6>1
              <7>2. i \in With(infos, kind)
                BY <7>1 DEF With
              <7>3. QED BY <3>1, <4>4, <7>1, <7>2 DEF Linked
            <6>2. QED BY <6>1 DEF OwnBars
          <5>2. <<kind, infos[k].at[kind]>> \in less <=> <<kind, infos[k].at[kind]>> \in page.flipped
            BY <5>1
          <5>3. k \in Shown(page, kind) <=>
                  (k \in page.checked <=> <<kind, infos[k].at[kind]>> \notin page.flipped)
            BY <4>1 DEF Shown
          <5> HIDE DEF less, also
          <5>4. QED BY <2>6, <4>1, <4>2, <4>4, <5>2, <5>3
        <4>5. QED BY <4>3, <4>4
      <3> DEFINE bars == d[kind]
      <3> HIDE DEF also, on, bars, infos, less
      <3>3. Linked(Restyled(infos[i], kind, bars, on), infos, kind, Shown(new, kind))
        BY <2>3, <2>5, <3>1, <3>2, RestyleSound DEF bars
      <3>4. QED BY <3>3 DEF bars
    <2>11. drawing \in Drawing
      <3>1. \A kind \in Figure : Re(kind) \in Seq(Bar)
        BY <2>10 DEF Linked
      <3>2. Re("bw") \in Seq(Bar) /\ Re("iops") \in Seq(Bar) /\ Re("lat") \in Seq(Bar)
        BY <3>1 DEF Figure
      <3> HIDE DEF Re, infos
      <3>3. QED BY <2>3, <3>2 DEF Drawing, drawing
    <2> HIDE DEF Re, also, infos, less
    <2>12. PageLinked(new)
      BY <2>3, <2>7, <2>8, <2>9, <2>10 DEF PageLinked
    <2>13. new \in Page
      BY <2>5, <2>11 DEF Page, new
    <2>14. \E p \in Pages : Chosen(infos, Entries(p[1], p[2])')
      BY <1>4, <2>2, EntriesStay DEF Toggle, infos
    <2>15. new.drawn.selector = infos
      BY <2>7, <2>9
    <2>16. QED BY <2>4, <2>12, <2>13, <2>14, <2>15 DEF PageInv
  <1>5. CASE ClickLegend
    <2> DEFINE infos == page.drawn.selector
               d == page.drawn
    <2>0. PICK kind \in Figure : \E b \in 1..Len(d[kind]) :
            page' = [page EXCEPT !.drawn[kind][b].shown = ~@,
                                 !.flipped = IF <<kind, b>> \in @ THEN @ \ {<<kind, b>>}
                                                                 ELSE @ \cup {<<kind, b>>}]
      BY <1>5 DEF ClickLegend
    <2>1. PICK b \in 1..Len(d[kind]) :
            page' = [page EXCEPT !.drawn[kind][b].shown = ~@,
                                 !.flipped = IF <<kind, b>> \in @ THEN @ \ {<<kind, b>>}
                                                                 ELSE @ \cup {<<kind, b>>}]
      BY <2>0
    <2>2. /\ page \in Page /\ PageLinked(page)
          /\ \E p \in Pages : Chosen(infos, Entries(p[1], p[2]))
      BY <1>5 DEF ClickLegend, PageInv
    <2>3. /\ d \in Drawing /\ page.checked \in SUBSET Nat /\ infos \in Seq(Info)
          /\ page.flipped \in SUBSET (Figure \X Nat)
      BY <2>2 DEF Page, Drawing
    <2>4. Linked(d[kind], infos, kind, Shown(page, kind))
      BY <2>2 DEF PageLinked
    <2>5. PICK i \in With(infos, kind) : infos[i].at[kind] = b
      BY <2>4 DEF Linked
    <2>6. i \in 1..Len(infos) /\ kind \in DOMAIN infos[i].at
      BY <2>5 DEF With
    <2> DEFINE on == ~d[kind][b].shown
               turned == IF <<kind, b>> \in page.flipped THEN page.flipped \ {<<kind, b>>}
                                                         ELSE page.flipped \cup {<<kind, b>>}
               bars == Restyled(infos[i], kind, d[kind], on)
               drawing == [d EXCEPT ![kind] = bars]
               new == [drawn |-> drawing, checked |-> page.checked, flipped |-> turned]
    <2>7. page' = new
      <3>1. bars = [d[kind] EXCEPT ![b].shown = on]
        BY <2>5, <2>6 DEF Restyled
      <3>2. page = [drawn |-> d, checked |-> page.checked, flipped |-> page.flipped]
        BY <2>2 DEF Page
      <3>3. page' = [page EXCEPT !.drawn = [d EXCEPT ![kind] = [d[kind] EXCEPT ![b].shown = on]],
                                 !.flipped = turned]
        BY <2>1
      <3> HIDE DEF turned, on
      <3>4. QED BY <3>1, <3>2, <3>3
    <2>8. new.drawn = drawing /\ new.checked = page.checked /\ new.flipped = turned
      OBVIOUS
    <2>9. /\ drawing.selector = infos /\ drawing[kind] = bars
          /\ \A other \in Figure : other # kind => drawing[other] = d[other]
      <3> HIDE DEF bars
      <3>1. QED BY <2>3 DEF Drawing, Figure
    <2> HIDE DEF new
    <2>10. ASSUME NEW other \in Figure
           PROVE  Linked(drawing[other], infos, other, Shown(new, other))
      <3>1. ASSUME NEW k \in With(infos, other)
            PROVE  /\ k \in Shown(new, other) <=>
                        (k \in page.checked <=> <<other, infos[k].at[other]>> \notin turned)
                   /\ k \in Shown(page, other) <=>
                        (k \in page.checked <=> <<other, infos[k].at[other]>> \notin page.flipped)
        <4>1. k \in 1..Len(infos)
          BY DEF With
        <4> HIDE DEF turned, drawing
        <4>2. QED BY <2>8, <2>9, <4>1 DEF Shown
      <3>2. CASE other # kind
        <4>1. Linked(d[other], infos, other, Shown(page, other))
          BY <2>2 DEF PageLinked
        <4>2. \A k \in With(infos, other) : <<other, infos[k].at[other]>> # <<kind, b>>
          BY <3>2
        <4>3. \A k \in With(infos, other) : k \in Shown(new, other) <=> k \in Shown(page, other)
          BY <3>1, <4>2
        <4> HIDE DEF drawing
        <4>4. QED BY <2>9, <3>2, <4>1, <4>3 DEF Linked
      <3>3. CASE other = kind
        <4>1. on <=> i \notin Shown(page, kind)
          BY <2>4, <2>5 DEF Linked
        <4>2. ASSUME NEW k \in With(infos, kind)
              PROVE  k \in Shown(new, kind) <=> IF k = i THEN on ELSE k \in Shown(page, kind)
          <5>1. CASE k = i
            <6>1. <<kind, b>> \in turned <=> <<kind, b>> \notin page.flipped
              OBVIOUS
            <6> HIDE DEF turned, on
            <6>2. QED BY <2>5, <3>1, <3>3, <4>1, <5>1, <6>1
          <5>2. CASE k # i
            <6>1. infos[k].at[kind] # b
              BY <2>4, <2>5, <5>2 DEF Linked
            <6>2. <<kind, infos[k].at[kind]>> # <<kind, b>>
              BY <6>1
            <6>3. <<kind, infos[k].at[kind]>> \in turned <=> <<kind, infos[k].at[kind]>> \in page.flipped
              BY <6>2
            <6> HIDE DEF turned
            <6>4. QED BY <3>1, <3>3, <5>2, <6>3
          <5>3. QED BY <5>1, <5>2
        <4>3. on \in BOOLEAN
          OBVIOUS
        <4> DEFINE old == d[kind]
        <4> HIDE DEF on, old, infos
        <4>4. Linked(Restyled(infos[i], kind, old, on), infos, kind, Shown(new, kind))
          BY <2>3, <2>4, <2>6, <4>2, <4>3, RestyleSound DEF old
        <4> HIDE DEF drawing
        <4>5. QED BY <2>9, <3>3, <4>4 DEF old
      <3>4. QED BY <3>2, <3>3
    <2>11. drawing \in Drawing
      <3>1. bars \in Seq(Bar)
        <4> HIDE DEF drawing, bars
        <4>1. drawing[kind] \in Seq(Bar)
          BY <2>10 DEF Linked
        <4>2. QED BY <2>9, <4>1
      <3> HIDE DEF bars
      <3>2. QED BY <2>3, <3>1 DEF Drawing, Figure
    <2>12. turned \in SUBSET (Figure \X Nat)
      <3>1. <<kind, b>> \in Figure \X Nat
        OBVIOUS
      <3>2. QED BY <2>3, <3>1
    <2> HIDE DEF drawing, turned, infos
    <2>13. PageLinked(new)
      BY <2>3, <2>8, <2>9, <2>10 DEF PageLinked
    <2>14. new \in Page
      BY <2>3, <2>11, <2>12 DEF Page, new
    <2>15. \E p \in Pages : Chosen(infos, Entries(p[1], p[2])')
      BY <1>5, <2>2, EntriesStay DEF ClickLegend, infos
    <2>16. QED BY <2>7, <2>8, <2>9, <2>13, <2>14, <2>15 DEF PageInv
  <1>6. QED BY <1>1, <1>2, <1>3, <1>4, <1>5 DEF FNext, fvars

LEMMA PageInvariant == FSpec => [](FilesInv /\ PageInv)
  <1>1. FInit => FilesInv /\ PageInv
    BY FS_EmptySet DEF FInit, FilesInv, PageInv
  <1>2. QED BY <1>1, FilesNext, PageNext, PTL DEF FSpec

\* A page's checkboxes and its bars belong together, whatever figures a result has
\* no numbers for and in whatever order the reader clicks on checkboxes and legends,
\* but for the bars the legend has turned since (the running indices of
\* create_figures_with_history, and toggleTrace).
THEOREM SelectorShows == FSpec => []SelectorShowsOwn
  <1>1. PageInv => SelectorShowsOwn
    <2> SUFFICES ASSUME PageInv, page # NoPage, NEW kind \in Figure
                 PROVE  /\ \A i \in 1..Len(Infos) : kind \in DOMAIN Infos[i].at =>
                             /\ Infos[i].at[kind] \in DOMAIN Bars(kind)
                             /\ Bars(kind)[Infos[i].at[kind]].file = Infos[i].file
                             /\ Bars(kind)[Infos[i].at[kind]].shown <=>
                                  (i \in page.checked <=>
                                     <<kind, Infos[i].at[kind]>> \notin page.flipped)
                        /\ \A b \in 1..Len(Bars(kind)) : \E i \in 1..Len(Infos) :
                             kind \in DOMAIN Infos[i].at /\ Infos[i].at[kind] = b
      BY DEF SelectorShowsOwn
    <2>1. Linked(Bars(kind), Infos, kind, Shown(page, kind))
      BY DEF PageInv, PageLinked, Bars, Infos
    <2>2. Bars(kind) \in Seq(Bar)
      BY <2>1 DEF Linked
    <2>3. DOMAIN Bars(kind) = 1..Len(Bars(kind))
      BY <2>2
    <2>4. \A i \in 1..Len(Infos) :
            i \in Shown(page, kind) <=>
              (i \in page.checked <=> <<kind, Infos[i].at[kind]>> \notin page.flipped)
      BY DEF Shown, Infos
    <2>5. QED BY <2>1, <2>3, <2>4 DEF Linked, With
  <1>2. QED BY <1>1, PageInvariant, PTL

\* The history of a result's group has all that are newer than one it has.
LEMMA NewerToo ==
  ASSUME FilesInv, NEW f, f \in History(f), NEW g \in Grouped(f.job, Config(f)), g.stamp > f.stamp
  PROVE  g \in History(f)
  <1> DEFINE group == Grouped(f.job, Config(f))
             X == {h \in group : h.stamp > g.stamp}
             Y == {h \in group : h.stamp > f.stamp}
  <1>1. f \in group /\ Cardinality(Y) < MaxHistory
    BY DEF History, find_fio_files_with_history
  <1>2. group \in SUBSET files /\ \A h \in group : h.stamp \in Nat
    BY DEF Grouped, FilesInv, File
  <1>3. X \in SUBSET Y /\ Y \in SUBSET files
    BY <1>1, <1>2
  <1>4. IsFiniteSet(Y)
    <2> HIDE DEF Y
    <2>1. QED BY <1>3, FS_Subset DEF FilesInv
  <1>5. IsFiniteSet(X) /\ Cardinality(X) <= Cardinality(Y)
    <2> HIDE DEF X, Y
    <2>1. QED BY <1>3, <1>4, FS_Subset
  <1>6. Cardinality(X) \in Nat /\ Cardinality(Y) \in Nat
    BY <1>4, <1>5, FS_CardinalityType
  <1>7. Cardinality(X) < MaxHistory
    <2> HIDE DEF X, Y
    <2>1. QED BY <1>1, <1>5, <1>6, ResultsAssumption
  <1>8. QED BY <1>7 DEF History, find_fio_files_with_history

\* What is made of a name tells the type and the size it was made from, unless the
\* boot was direct.
LEMMA NamesTold ==
  ASSUME NEW name \in Names, NEW other \in Names, ~Direct(name),
         parse_config_from_path(name) = parse_config_from_path(other)
  PROVE  TypeAndSize(name) = TypeAndSize(other)
  <1>1. ASSUME NEW n \in Names
        PROVE  IF Direct(n) THEN parse_config_from_path(n)[2] = "direct"
               ELSE /\ parse_config_from_path(n) = TypeAndSize(n)
                    /\ parse_config_from_path(n)[2] # "direct"
    <2>1. n \in Seq(STRING) /\ Len(n) \in Nat
      BY NamesAssumption
    <2>2. CASE n[1] = "host" /\ Len(n) >= 2 /\ n[2] \notin {"disk", "direct"}
      <3>1. ~(Len(n) < 2)
        BY <2>1, <2>2
      <3>2. QED BY <2>2, <3>1 DEF parse_config_from_path, Direct, TypeAndSize
    <2>3. CASE /\ n[1] # "host" /\ Len(n) >= 3
               /\ n[2] \in {"disk", "direct"} /\ n[3] # "direct"
      <3>1. ~(Len(n) < 2) /\ Len(n) > 2 /\ "disk" # "direct"
        BY <2>1, <2>3
      <3>2. CASE n[2] = "disk"
        BY <2>3, <3>1, <3>2 DEF parse_config_from_path, Direct, TypeAndSize
      <3>3. CASE n[2] = "direct"
        BY <2>3, <3>1, <3>3 DEF parse_config_from_path, Direct
      <3>4. QED BY <2>3, <3>2, <3>3
    <2>4. QED BY <2>2, <2>3, NamesAssumption
  <1>2. QED BY <1>1

\* A page has the newest results of a configuration and job, and no other VM's
\* (find_fio_files_with_history, parse_config_from_path).
THEOREM NewestShown == FSpec => []NewestOfItsOwn
  <1>1. FilesInv /\ PageInv => NewestOfItsOwn
    <2> SUFFICES ASSUME FilesInv, PageInv, page # NoPage, NEW i \in 1..Len(Infos)
                 PROVE  LET f == Infos[i].file
                            group == Grouped(f.job, Config(f))
                            drawn == {Infos[k].file : k \in 1..Len(Infos)}
                        IN  /\ \A g \in group \ drawn :
                                 g.parses /\ g.metrics # {} => g.stamp < f.stamp
                            /\ Infos[i].latest => f = find_fio_files(f.job, Config(f))
                            /\ ~Direct(f.name) =>
                                 \A g \in group : TypeAndSize(f.name) = TypeAndSize(g.name)
      BY DEF NewestOfItsOwn
    <2> DEFINE f == Infos[i].file
               group == Grouped(f.job, Config(f))
               drawn == {Infos[k].file : k \in 1..Len(Infos)}
    <2>1. PICK p \in Pages : Chosen(Infos, Entries(p[1], p[2]))
      BY DEF PageInv, Infos
    <2>2. PICK e \in Entries(p[1], p[2]) : f = e.file /\ Infos[i].latest = e.latest
      BY <2>1 DEF Chosen
    <2>3. f \in OnPage(p[1], p[2]) /\ e = EntryOf(f) /\ f \in drawn
      <3>1. e.file \in OnPage(p[1], p[2]) /\ e = EntryOf(e.file)
        BY EntryKnown
      <3>2. QED BY <2>2, <3>1
    <2> HIDE DEF f, drawn
    <2>4. /\ f \in files /\ f.job \in p[1] /\ Passes(p[2], Config(f)) /\ f \in History(f)
          /\ f \in group
      BY <2>3 DEF OnPage, Grouped
    <2>5. ASSUME NEW g \in group
          PROVE  /\ g \in files /\ g \in File /\ f \in File
                 /\ g.stamp \in Nat /\ f.stamp \in Nat
                 /\ g.job = f.job /\ Config(g) = Config(f) /\ History(g) = History(f)
                 /\ g.stamp = f.stamp => g = f
      <3>1. g \in files /\ g.job = f.job /\ Config(g) = Config(f)
        BY DEF Grouped
      <3>2. g \in File /\ f \in File /\ (g.stamp = f.stamp => g = f)
        BY <2>4, <3>1 DEF FilesInv
      <3>3. QED BY <3>1, <3>2 DEF File, History
    <2>6. ASSUME NEW g \in group \ drawn, g.parses, g.metrics # {}, ~(g.stamp < f.stamp)
          PROVE  FALSE
      <3>1. g.stamp > f.stamp
        BY <2>3, <2>5, <2>6
      <3>2. g \in History(f)
        BY <2>4, <3>1, NewerToo
      <3>3. g \in OnPage(p[1], p[2])
        BY <2>4, <2>5, <3>2 DEF OnPage
      <3>4. EntryOf(g) \in Entries(p[1], p[2]) /\ EntryOf(g).file = g
        BY <3>3, EntriesByFile DEF EntryOf
      <3>5. \E k \in 1..Len(Infos) : Infos[k].file = g
        BY <2>1, <2>6, <3>4 DEF Chosen
      <3>6. QED BY <3>5 DEF drawn
    <2>7. ASSUME Infos[i].latest PROVE f = find_fio_files(f.job, Config(f))
      <3>1. \A h \in History(f) : f.stamp >= h.stamp
        <4>1. EntryOf(f).latest = (\A h \in History(f) : f.stamp >= h.stamp)
          BY DEF EntryOf
        <4>2. EntryOf(f).latest
          BY <2>2, <2>3, <2>7
        <4>3. QED BY <4>1, <4>2
      <3>2. ASSUME NEW g \in group PROVE f.stamp >= g.stamp
        <4>1. SUFFICES ASSUME g.stamp > f.stamp PROVE FALSE
          BY <2>5
        <4>2. g \in History(f)
          BY <2>4, <4>1, NewerToo
        <4>3. f.stamp >= g.stamp
          BY <3>1, <4>2
        <4>4. QED BY <2>5, <4>1, <4>3
      <3> DEFINE best == find_fio_files(f.job, Config(f))
      <3>3. best \in group /\ \A g \in group : best.stamp >= g.stamp
        <4>1. \E h \in group : \A g \in group : h.stamp >= g.stamp
          BY <2>4, <3>2
        <4>2. QED BY <4>1 DEF find_fio_files
      <3> HIDE DEF best
      <3>4. best.stamp = f.stamp
        BY <2>4, <2>5, <3>2, <3>3
      <3>5. best = f
        BY <2>5, <3>3, <3>4
      <3>6. QED BY <3>5 DEF best
    <2>8. ASSUME ~Direct(f.name), NEW g \in group PROVE TypeAndSize(f.name) = TypeAndSize(g.name)
      <3>1. f.name \in Names /\ g.name \in Names
        BY <2>5 DEF File
      <3>2. parse_config_from_path(f.name) = parse_config_from_path(g.name)
        BY <2>5 DEF Config
      <3>3. QED BY <2>8, <3>1, <3>2, NamesTold
    <2>9. QED BY <2>6, <2>7, <2>8 DEF f, drawn
  <1>2. QED BY <1>1, PageInvariant, PTL
=============================================================================
