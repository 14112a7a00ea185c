----------------------------- MODULE FioResults -----------------------------
(***************************************************************************)
(* What becomes of the results under bench-result/: benchmarks file them   *)
(* by the name of their VM and by job (vm.start, get_benchmark_output_path *)
(* of core/tasks/utils/utils.py), and "plot" finds them there and draws    *)
(* them (find_fio_files* of modules/fio/tasks/plotting/fio_parser.py,      *)
(* create_figures_with_history of plot_fio.py).  The other way to look at  *)
(* a result, next to the log of sar, is SarLog.                            *)
(***************************************************************************)
EXTENDS SarLog

CONSTANTS
  Names,        \* names of VMs, split at the dashes: their directories
  Jobs,         \* job directories
  Metrics,      \* the sets of figures ("bw", "iops", "lat") a result has bars in
  MaxHistory,   \* max_history
  MaxFiles,     \* the results there may be
  Filters,      \* the sizes pages are made for, with AnySize for all
  AnySize,
  MaxFlipped    \* the bars the legend may have turned against their checkbox

\* The figures a result can have bars in.
Figure == {"bw", "iops", "lat"}

\* Names are those of vm.start: "host-<size>", or a type, the way of the boot and a
\* size, and what a benchmark adds.
ASSUME NamesAssumption ==
  \A name \in Names :
    /\ name \in Seq(STRING)
    /\ \/ name[1] = "host" /\ Len(name) >= 2 /\ name[2] \notin {"disk", "direct"}
       \/ /\ name[1] # "host" /\ Len(name) >= 3
          /\ name[2] \in {"disk", "direct"} /\ name[3] # "direct"
ASSUME ResultsAssumption == Metrics \subseteq SUBSET Figure /\ MaxHistory \in Nat

VARIABLES
  use,      \* what they are used for with the results: "plot" or "correlate"
  files,    \* the results there are
  page      \* the page looked at: its figures and selector, the boxes checked,
            \* and the bars the legend has turned against theirs

fvars == <<use, files, page>>

NoPage == << >>
FInit == /\ use \in {"plot", "correlate"}
         /\ files = {} /\ page = NoPage
         /\ SInit
         /\ use = "plot" => /\ began = CHOOSE s \in Starts : TRUE
                            /\ jobs = CHOOSE s \in Schedules : TRUE

-----------------------------------------------------------------------------
\* The type and size a directory stands for: its first part, and its second one
\* or the one after "disk".
parse_config_from_path(name) ==
  IF Len(name) < 2 THEN <<"unknown", "unknown">>
  ELSE IF name[2] = "disk" THEN <<name[1], IF Len(name) > 2 THEN name[3] ELSE "unknown">>
  ELSE <<name[1], name[2]>>

Config(file) == parse_config_from_path(file.name)
Grouped(job, config) == {f \in files : f.job = job /\ Config(f) = config}

find_fio_files(job, config) ==
  CHOOSE f \in Grouped(job, config) : \A g \in Grouped(job, config) : f.stamp >= g.stamp

\* Mutant: the oldest of them are kept.
SlicedFromTheEnd(job, config) ==
  LET group == Grouped(job, config)
  IN  {f \in group : Cardinality({g \in group : g.stamp < f.stamp}) < MaxHistory}

\* The newest of them, and no more than max_history.
find_fio_files_with_history(job, config) ==
  LET group == Grouped(job, config)
  IN  {f \in group : Cardinality({g \in group : g.stamp > f.stamp}) < MaxHistory}

-----------------------------------------------------------------------------
\* "-small" also occurs in "snp-small2".
Passes(filter, config) ==
  filter = AnySize \/ filter = config[2] \/ (filter = "small" /\ config[2] = "small2")

\* The results of a page of these jobs: of each configuration and job that passes,
\* all there is in its history.  They are drawn configuration after configuration, job after
\* job, and the oldest first.
Groups(jobset, filter) ==
  {g \in jobset \X {Config(f) : f \in files} :
     Grouped(g[1], g[2]) # {} /\ Passes(filter, g[2])}
Entries(jobset, filter) ==
  UNION {LET h == find_fio_files_with_history(g[1], g[2])
         IN  {[file |-> f, latest |-> \A e \in h : f.stamp >= e.stamp] : f \in h} :
         g \in Groups(jobset, filter)}

DrawnBefore(order, e, f) ==
  LET At(x) == CHOOSE i \in 1..Len(order) : order[i] = <<x.file.job, Config(x.file)>>
  IN  At(e) < At(f) \/ (At(e) = At(f) /\ e.file.stamp < f.file.stamp)

\* The one to draw as the k-th has k - 1 before it.
Drawn(order, entries, k) ==
  CHOOSE e \in entries : Cardinality({f \in entries : DrawnBefore(order, f, e)}) = k - 1

\* Adding one result to the figures: a bar in every figure it has numbers for, of
\* which the newest one's are shown, and the numbers of these bars for the
\* selector, which forgets a result without any.  A file that does not parse is
\* left out.
\* Mutant: a figure counts a result without a bar in it, too.
NextIndex(drawn, kind) == Len(drawn.selector) + 1

Index(drawn, kind) == Len(drawn[kind]) + 1

Draw(drawn, entry) ==
  LET bar == [file |-> entry.file, shown |-> entry.latest]
      has == entry.file.metrics
      Bars(kind) == IF kind \in has THEN Append(drawn[kind], bar) ELSE drawn[kind]
      info == [file |-> entry.file, latest |-> entry.latest,
               at |-> [kind \in has |-> Index(drawn, kind)]]
  IN  IF ~entry.file.parses THEN drawn
      ELSE [bw |-> Bars("bw"), iops |-> Bars("iops"), lat |-> Bars("lat"),
            selector |-> IF has = {} THEN drawn.selector ELSE Append(drawn.selector, info)]

Blank == [bw |-> << >>, iops |-> << >>, lat |-> << >>, selector |-> << >>]

create_figures_with_history(jobset, filter) ==
  LET order == SetToSeq(Groups(jobset, filter))
      entries == Entries(jobset, filter)
      figures[k \in 0..Cardinality(entries)] ==
        IF k = 0 THEN Blank ELSE Draw(figures[k - 1], Drawn(order, entries, k))
  IN  figures[Cardinality(entries)]

\* generate_html_with_selector: a checkbox per result, checked for the newest one.
Checked(drawn) == {i \in 1..Len(drawn.selector) : drawn.selector[i].latest}

-----------------------------------------------------------------------------
\* A benchmark has ended: its result is filed under the time it began, in a
\* file that the run may have left without a result.
RunBenchmark ==
  /\ use = "plot" /\ Cardinality(files) < MaxFiles
  /\ \E name \in Names, job \in Jobs, metrics \in Metrics, parses \in BOOLEAN :
       /\ parses \/ metrics = {}
       /\ files' = files \cup {[name |-> name, job |-> job, metrics |-> metrics,
                                parses |-> parses, stamp |-> Cardinality(files) + 1]}
  /\ page' = NoPage
  /\ UNCHANGED <<use, svars>>

\* The pages generate_all_plots makes: one of each job, and one of all jobs for
\* every size.  It leaves out a page without a result.
Pages == {<<{job}, AnySize>> : job \in Jobs} \cup {<<Jobs, filter>> : filter \in Filters}
Plot ==
  /\ use = "plot" /\ files # {} /\ page = NoPage
  /\ \E p \in Pages :
       LET drawn == create_figures_with_history(p[1], p[2])
       IN  /\ drawn.selector # << >>
           /\ page' = [drawn |-> drawn, checked |-> Checked(drawn), flipped |-> {}]
  /\ UNCHANGED <<use, files, svars>>

\* The reader of the page clicks on a checkbox: toggleTrace restyles the bars that
\* TRACE_MAP has for it, whatever the legend has made of them.
Restyled(info, kind, bars, visible) ==
  IF kind \in DOMAIN info.at THEN [bars EXCEPT ![info.at[kind]].shown = visible] ELSE bars
OwnBars(info) == {<<kind, info.at[kind]>> : kind \in DOMAIN info.at}

Toggle ==
  /\ page # NoPage
  /\ \E i \in 1..Len(page.drawn.selector) :
       LET infos == page.drawn.selector
           on == i \notin page.checked
           After(kind) == Restyled(infos[i], kind, page.drawn[kind], on)
       IN  page' = [checked |-> IF on THEN page.checked \cup {i} ELSE page.checked \ {i},
                    flipped |-> page.flipped \ OwnBars(infos[i]),
                    drawn |-> [bw |-> After("bw"), iops |-> After("iops"), lat |-> After("lat"),
                               selector |-> infos]]
  /\ UNCHANGED <<use, files, svars>>

\* Or on a bar's name in the legend, which turns that bar alone (groupclick) and
\* leaves the checkbox as it is.
ClickLegend ==
  /\ page # NoPage
  /\ \E kind \in Figure : \E b \in 1..Len(page.drawn[kind]) :
       /\ <<kind, b>> \in page.flipped \/ Cardinality(page.flipped) < MaxFlipped
       /\ page' = [page EXCEPT !.drawn[kind][b].shown = ~@,
                               !.flipped = IF <<kind, b>> \in @ THEN @ \ {<<kind, b>>}
                                                               ELSE @ \cup {<<kind, b>>}]
  /\ UNCHANGED <<use, files, svars>>

FNext ==
  \/ RunBenchmark \/ Plot \/ Toggle \/ ClickLegend
  \/ use = "correlate" /\ SNext /\ UNCHANGED fvars

FSpec == FInit /\ [][FNext]_<<svars, fvars>>

-----------------------------------------------------------------------------
Bars(kind) == page.drawn[kind]
Infos == page.drawn.selector

\* A page's checkboxes and its bars belong together, whatever figures a result has
\* no numbers for and in whatever order the reader clicks on checkboxes and legends:
\* a bar is shown just if the checkbox of its own result is checked, unless it is
\* one the legend has turned since (the three running indices of
\* create_figures_with_history, and TRACE_MAP).
SelectorShowsOwn ==
  page # NoPage => \A kind \in Figure :
    /\ \A i \in 1..Len(Infos) : kind \in DOMAIN Infos[i].at =>
         /\ Infos[i].at[kind] \in DOMAIN Bars(kind)
         /\ Bars(kind)[Infos[i].at[kind]].file = Infos[i].file
         /\ Bars(kind)[Infos[i].at[kind]].shown <=>
              (i \in page.checked <=> <<kind, Infos[i].at[kind]>> \notin page.flipped)
    /\ \A b \in 1..Len(Bars(kind)) : \E i \in 1..Len(Infos) :
         kind \in DOMAIN Infos[i].at /\ Infos[i].at[kind] = b

\* A page has the newest results of a configuration, and no other VM's: a result
\* drawn is newer than any of its configuration and job left out, the one marked
\* as the latest is what find_fio_files takes, and two results of a group are of
\* VMs of one type and size, unless a direct boot's name has hidden the size.
Direct(name) == name[2] = "direct"
TypeAndSize(name) == <<name[1], IF name[1] = "host" THEN name[2] ELSE name[3]>>
NewestOfItsOwn ==
  page # NoPage => \A i \in 1..Len(Infos) :
    LET f == Infos[i].file
        group == Grouped(f.job, Config(f))
        drawn == {Infos[k].file : k \in 1..Len(Infos)}
    IN  /\ \A g \in group \ drawn : g.parses /\ g.metrics # {} => g.stamp < f.stamp
        /\ Infos[i].latest => f = find_fio_files(f.job, Config(f))
        /\ ~Direct(f.name) => \A g \in group : TypeAndSize(f.name) = TypeAndSize(g.name)
=============================================================================
