------------------------------- MODULE SarLog -------------------------------
(***************************************************************************)
(* Reading a log of sar beside the results of the FIO run it watched       *)
(* (parse_sar_file and the window queries of                               *)
(* core/tasks/plotting/sar_parser.py; parse_fio_file and                   *)
(* correlate_with_sar of modules/fio/tasks/plotting/fio_parser.py).        *)
(*                                                                         *)
(* A log tells the time of day of a sample, to the second, and the date    *)
(* only in its header; the parser restores the rest.  Time here counts in  *)
(* fractions of a second, Second to the second and Day to the day, from a  *)
(* midnight.  A measurement is the number of the sample it was taken in.   *)
(***************************************************************************)
EXTENDS SequencesExt

CONSTANTS
  Second, Day,      \* the units of time
  Gaps,             \* the times between two samples of sar
  Cpu,              \* the CPUs "sar -P ALL" prints
  Starts,           \* when sar prints its header
  Schedules,        \* FIO runs: the first and the last moment of each job, in
                    \* order, counted from the start of sar
  MaxSamples,       \* the samples of a log
  NaN

ASSUME ClockAssumption ==
  /\ Second \in Nat \ {0} /\ Day \in Nat \ {0} /\ Day % Second = 0
  /\ \A gap \in Gaps : gap \in Nat \ {0} /\ 2 * (gap + Second) <= Day

\* Time runs forward from the midnight it is counted from.
ASSUME TimesAssumption == Starts \subseteq Nat /\ Schedules \subseteq Seq(Nat \X Nat)

VARIABLES
  began,     \* when sar printed its header
  jobs,      \* the FIO run, as in Schedules
  taken,     \* when each sample was really taken
  printed,   \* the CPUs printed of the last sample
  part,      \* what sar has printed last: "header", "cpu", "core", "mem", "end"
  date,      \* current_date, in days
  abs,       \* abs_timestamps
  idle,      \* cpu_idle
  cores,     \* per_cpu_idle
  mem        \* mem_used_kb

svars == <<began, jobs, taken, printed, part, date, abs, idle, cores, mem>>

SInit ==
  /\ began \in Starts
  /\ jobs \in Schedules
  /\ taken = << >> /\ printed = {} /\ part = "header"
  /\ date = began \div Day
  /\ abs = << >> /\ idle = << >> /\ mem = << >>
  /\ cores = [c \in Cpu |-> << >>]

-----------------------------------------------------------------------------
ToTheSecond(t) == (t \div Second) * Second

\* A time of day more than twelve hours before the last sample is one of the
\* next day.
Candidate(day, t) == day * Day + ToTheSecond(t % Day)
RolledOver(t) == abs # << >> /\ 2 * (Last(abs) - Candidate(date, t)) > Day

\* Mutant: the day advances for the one sample only.
StampOnce(t) ==
  /\ date' = date
  /\ abs' = Append(abs, Candidate(IF RolledOver(t) THEN date + 1 ELSE date, t))

Stamp(t) ==
  /\ date' = IF RolledOver(t) THEN date + 1 ELSE date
  /\ abs' = Append(abs, Candidate(date', t))

Now == IF taken = << >> THEN began ELSE Last(taken)

\* sar takes the next sample and prints its line for all CPUs.
CpuLine ==
  /\ part \in {"header", "mem"} /\ Len(taken) < MaxSamples
  /\ \E gap \in Gaps :
       /\ taken' = Append(taken, Now + gap)
       /\ Stamp(Now + gap)
  /\ idle' = Append(idle, Len(taken'))
  /\ printed' = {} /\ part' = "cpu"
  /\ UNCHANGED <<began, jobs, cores, mem>>

\* Its line for one CPU, if that is online; the parser pads what is missing.
\* Mutant: nothing is padded.
PadNothing(list, n) == list

Pad(list, n) == list \o [k \in 1..(n - Len(list)) |-> NaN]

CoreLine ==
  /\ part \in {"cpu", "core"}
  /\ \E c \in Cpu \ printed :
       /\ printed' = printed \cup {c}
       /\ cores' = [cores EXCEPT ![c] = Append(Pad(@, Len(abs) - 1), Len(taken))]
  /\ part' = "core"
  /\ UNCHANGED <<began, jobs, taken, date, abs, idle, mem>>

\* Its line for the memory.
MemLine ==
  /\ part \in {"cpu", "core"}
  /\ mem' = IF Len(mem) < Len(abs) THEN Append(mem, Len(taken)) ELSE mem
  /\ part' = "mem"
  /\ UNCHANGED <<began, jobs, taken, printed, date, abs, idle, cores>>

\* sar is terminated, in the middle of a sample or of a line: a line for all
\* CPUs that lacks its last number leaves a time without its idle share, and a
\* shorter one nothing.
Terminate ==
  /\ part # "end" /\ part' = "end"
  /\ \/ UNCHANGED <<taken, date, abs>>
     \/ /\ part \in {"header", "mem"} /\ Len(taken) < MaxSamples
        /\ \E gap \in Gaps : taken' = Append(taken, Now + gap) /\ Stamp(Now + gap)
  /\ UNCHANGED <<began, jobs, printed, idle, cores, mem>>

SNext == CpuLine \/ CoreLine \/ MemLine \/ Terminate

-----------------------------------------------------------------------------
\* FIO says when a job started and how many seconds, rounded up, had passed from
\* the start of FIO to the job's end.
Started(j) == began + jobs[j][1]
Ended(j) == began + jobs[j][2]
Elapsed(j) == (Ended(j) - Started(1) + Second - 1) \div Second

\* Mutant: the seconds counted from the job's own start.
JobEndFromOwnStart(j) == Started(j) + Elapsed(j) * Second

JobEnd(j) == Started(1) + Elapsed(j) * Second

\* The samples of a window, whose numbers make up its mean.  cpu_idle[i] raises
\* for a time that has lost its idle share.
InWindow(lo, hi) == {i \in 1..Len(abs) : lo <= abs[i] /\ abs[i] <= hi}
get_window_average(lo, hi) ==
  [samples |-> InWindow(lo, hi), raises |-> ~(InWindow(lo, hi) \subseteq 1..Len(idle))]

\* The samples of a job's mean: nothing catches what get_window_average raises, so
\* that job and the ones after it are left without one.
Average(j) == get_window_average(Started(j), JobEnd(j))
correlate_with_sar(j) ==
  IF \E k \in 1..j : Average(k).raises THEN {} ELSE Average(j).samples

\* get_window_cores_used: for each of them the CPUs of the set that count.
CoresCounted(i, cpus) == {c \in cpus : i <= Len(cores[c]) /\ cores[c][i] # NaN}
get_window_cores_used(lo, hi, cpus) ==
  {i \in InWindow(lo, hi) : CoresCounted(i, cpus) # {}}

-----------------------------------------------------------------------------
\* The parser restores the moment of every sample, over any number of
\* midnights, unless the first one falls between the header and the first
\* sample; the distances between the samples it restores even then.
HeaderDay == taken # << >> /\ began \div Day = taken[1] \div Day
ClockRecovered ==
  \A i \in 1..Len(abs) :
    /\ HeaderDay => abs[i] = ToTheSecond(taken[i])
    /\ abs[i] - abs[1] = ToTheSecond(taken[i]) - ToTheSecond(taken[1])

\* Every number is filed under the sample it was measured in, whichever CPUs
\* were offline and wherever the log breaks off; only a last line that breaks
\* off leaves a time without its idle share.
SamplesAligned ==
  /\ \A i \in 1..Len(mem) : mem[i] = i
  /\ \A c \in Cpu : \A i \in 1..Len(cores[c]) : cores[c][i] \in {i, NaN}
  /\ \A c \in printed : part # "end" => Len(cores[c]) = Len(abs)
  /\ \A i \in 1..Len(idle) : idle[i] = i
  /\ Len(idle) = IF part = "end" /\ Len(taken) > Len(idle) THEN Len(abs) - 1 ELSE Len(abs)

\* The log ends between the time and the idle share of a sample in the window of k.
BreaksOffIn(k) ==
  /\ Len(idle) < Len(abs)
  /\ Started(k) <= taken[Len(abs)] /\ taken[Len(abs)] < Ended(k) + 2 * Second

\* A job's mean is made of the samples taken while it ran, but for a second at
\* its start and two at its end, whatever jobs ran before and after it; unless the
\* log breaks off in a sample of its own or of a job before it, which may leave it
\* without a mean.
OwnSamples ==
  part = "end" /\ HeaderDay =>
    \A j \in 1..Len(jobs) : \A i \in 1..Len(abs) :
      LET own == correlate_with_sar(j)
          used == get_window_cores_used(Started(j), JobEnd(j), Cpu)
      IN  /\ i \in own \cup used => Started(j) <= taken[i] /\ taken[i] < Ended(j) + 2 * Second
          /\ Started(j) + Second <= taken[i] /\ taken[i] <= Ended(j) =>
               i \in own \/ \E k \in 1..j : BreaksOffIn(k)
=============================================================================
