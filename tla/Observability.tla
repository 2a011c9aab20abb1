---------------------------- MODULE Observability ----------------------------
(***************************************************************************)
(* What the schedulers of a process tell about their work groups: the      *)
(* summary runWorkGroup counts, its publication through the observer chain *)
(* (scheduler_impl.go, observability.go), the Prometheus collectors at its *)
(* end, which several schedulers may share and a scraper reads, and        *)
(* RunWithTrace, which owns the tracer of the process for a while.         *)
(*                                                                         *)
(* The ticker of a scheduler publishes one summary after the other without *)
(* its lock, while WithInstrumentation may replace the chain under it.     *)
(* The observer is an interface, two words: the type of the observer and   *)
(* its data.  Nothing makes the ticker read both at once.  When it has the *)
(* words of two observers it calls a method of the one type on the data of *)
(* the other, which is undefined; the process is taken to crash.           *)
(***************************************************************************)
EXTENDS Integers, Sequences, FiniteSets

CONSTANTS
  Schedulers,
  Supplied,       (* the collectors of the callers, which a scraper reads   *)
  NoCollector,    (* nil                                                    *)
  Configs,        (* the InstrumentationConfigs there are                   *)
  Keys,           (* the labels of a work group: identifier, mode and async *)
  Runs,           (* what runWorkGroup may come across                      *)
  Buckets,        (* DurationBuckets, the upper bounds                      *)
  Callers,        (* goroutines that call RunWithTrace                      *)
  Scraper,        (* the goroutine that calls WriteMetrics                  *)
  Nobody,         (* stands for nobody                                      *)
  MaxSummaries,   (* bound: summaries published                             *)
  MaxReconfigs    (* bound: calls of WithInstrumentation                    *)

(* The observer of the caller, if any; whether a built-in one is enabled,  *)
(* and what it is given: a logger, a collector, a writer for the spans.    *)
InstrumentationConfig ==
  [observer : BOOLEAN, logging : BOOLEAN, logger : BOOLEAN,
   prometheus : BOOLEAN, collector : Supplied \cup {NoCollector},
   sigNoz : BOOLEAN, writer : BOOLEAN, trace : BOOLEAN]

Outcomes == {"executed", "skipped", "notDue", "failed", "cancelled"}

(* A run of runWorkGroup: the outcome of each system it came to.  It stops *)
(* at one that fails and before one that finds the context cancelled.      *)
WorkGroupRun == [key : Keys, outcomes : Seq(Outcomes), duration : Nat]

Stops(outcome) == outcome \in {"failed", "cancelled"}

(* A scheduler that is told to use Prometheus and not given a collector    *)
(* makes one, at each call of WithInstrumentation another.                 *)
OwnCollectors == Schedulers \X (0 .. MaxReconfigs)

ASSUME ObservabilityAssumption ==
  /\ IsFiniteSet(Schedulers) /\ IsFiniteSet(Supplied)
  /\ NoCollector \notin Supplied \cup OwnCollectors
  /\ Configs \subseteq InstrumentationConfig
  /\ Runs \subseteq WorkGroupRun
  /\ \A run \in Runs : \A i \in DOMAIN run.outcomes :
       Stops(run.outcomes[i]) => i = Len(run.outcomes)
  /\ Buckets \in Seq(Nat)
  /\ Scraper \notin Schedulers /\ Nobody \notin Schedulers \cup {Scraper}
  /\ MaxSummaries \in Nat
  /\ MaxReconfigs \in Nat

VARIABLES
  instrumentation,  (* the InstrumentationConfig of each scheduler          *)
  observer,         (* the observers its chain consists of, in order        *)
  publication,      (* how far its ticker is with a summary                 *)
  durations, counters, holder, pages,    (* the collectors                  *)
  runtimeTracing,   (* whether the tracer of the process is on              *)
  traced,           (* the callers whose function is being traced           *)
  reconfigs,        (* how many calls of WithInstrumentation there were     *)
  published,        (* how many summaries there were                        *)
  observed,         (* history: the runs each collector was told of         *)
  crashed           (* whether a method ran on the data of another type     *)

metrics == <<durations, counters, holder, pages>>
config  == <<instrumentation, observer, reconfigs>>
tracing == <<runtimeTracing, traced>>
vars == <<config, publication, metrics, tracing, published, observed, crashed>>

Metrics == INSTANCE Collector
  WITH Collectors <- Supplied \cup OwnCollectors, Printing <- OwnCollectors

-----------------------------------------------------------------------------
(* The summary of a run.                                                   *)

Times(run, outcome) ==
  Cardinality({i \in DOMAIN run.outcomes : run.outcomes[i] = outcome})

RunWorkGroup(run) ==
  [key |-> run.key,
   duration |-> run.duration,
   executed |-> Times(run, "executed"),
   skipped |-> Times(run, "skipped") + Times(run, "notDue"),
   failed |-> \E i \in DOMAIN run.outcomes : Stops(run.outcomes[i])]

-----------------------------------------------------------------------------
(* The observer chain.  An observer that has nowhere to tell things to, for*)
(* want of a logger or a writer, is part of the chain and does nothing.    *)

Observer(kind, effective) ==
  [kind |-> kind, effective |-> effective, collector |-> NoCollector]

(* Defective variant: the scheduler does not make a collector.             *)
SuppliedOnly(cfg, own) == cfg.collector

CollectorOf(cfg, own) == IF cfg.collector = NoCollector THEN own ELSE cfg.collector

PartIf(enabled, part) == IF enabled THEN <<part>> ELSE <<>>

BuildObserverChain(cfg, own) ==
  PartIf(cfg.observer, Observer("custom", TRUE))
  \o PartIf(cfg.logging, Observer("logging", cfg.logger))
  \o PartIf(cfg.prometheus, [Observer("prometheus", TRUE) EXCEPT
                               !.collector = CollectorOf(cfg, own)])
  \o PartIf(cfg.sigNoz, Observer("sigNoz", cfg.writer))

TypeOf(chain) ==
  CASE Len(chain) = 0 -> "noop"
    [] Len(chain) = 1 -> chain[1].kind
    [] OTHER          -> "composite"

-----------------------------------------------------------------------------
Quiet == [pc |-> "idle", run |-> [outcomes |-> <<>>], type |-> "noop",
          left |-> <<>>, told |-> <<>>, offered |-> {}]

(* Every scheduler was given a configuration before it is first used.      *)
Init ==
  /\ instrumentation \in [Schedulers -> Configs]
  /\ observer = [s \in Schedulers |-> BuildObserverChain(instrumentation[s], <<s, 0>>)]
  /\ publication = [s \in Schedulers |-> Quiet]
  /\ Metrics!Init
  /\ runtimeTracing = FALSE
  /\ traced = {}
  /\ reconfigs = 0
  /\ published = 0
  /\ observed = [c \in Supplied \cup OwnCollectors |-> <<>>]
  /\ crashed = FALSE

(* applyInstrumentation, under the lock of the scheduler.  offered keeps   *)
(* what a publication under way may have to do with.                       *)
WithInstrumentation(s, cfg) ==
  /\ reconfigs < MaxReconfigs
  /\ reconfigs' = reconfigs + 1
  /\ instrumentation' = [instrumentation EXCEPT ![s] = cfg]
  /\ observer' = [observer EXCEPT ![s] = BuildObserverChain(cfg, <<s, reconfigs'>>)]
  /\ publication' = IF publication[s].pc = "idle" THEN publication
                    ELSE [publication EXCEPT ![s].offered = @ \cup {cfg}]
  /\ UNCHANGED <<metrics, tracing, published, observed, crashed>>

-----------------------------------------------------------------------------
(* publishWorkGroupSummary, by the ticker of s.                            *)

At(s, pc) == publication[s].pc = pc

OnlyPublication == UNCHANGED <<config, metrics, tracing, published, observed, crashed>>

Publish(s, run) ==
  /\ At(s, "idle")
  /\ published < MaxSummaries
  /\ published' = published + 1
  /\ publication' = [publication EXCEPT ![s] =
       [Quiet EXCEPT !.pc = "read", !.run = run, !.offered = {instrumentation[s]}]]
  /\ UNCHANGED <<config, metrics, tracing, observed, crashed>>

(* The words of the interface, one now and one in a later step.            *)
ReadType(s) ==
  /\ At(s, "read")
  /\ publication' = [publication EXCEPT ![s].pc = "typeRead",
                                        ![s].type = TypeOf(observer[s])]
  /\ OnlyPublication

ReadData(s) ==
  /\ At(s, "read")
  /\ publication' = [publication EXCEPT ![s].pc = "dataRead", ![s].left = observer[s]]
  /\ OnlyPublication

(* WorkGroupCompleted of a type, on the data of a chain; that of no type   *)
(* but noop can do without its own data.                                   *)
Call(s, type, chain) ==
  \/ /\ type = "noop"
     /\ publication' = [publication EXCEPT ![s] = [Quiet EXCEPT !.offered = publication[s].offered]]
     /\ OnlyPublication
  \/ /\ type # "noop" /\ type = TypeOf(chain)
     /\ publication' = [publication EXCEPT ![s].pc = "telling", ![s].left = chain,
                                           ![s].type = "noop"]
     /\ OnlyPublication
  \/ /\ type # "noop" /\ type # TypeOf(chain)
     /\ crashed' = TRUE
     /\ UNCHANGED <<config, publication, metrics, tracing, published, observed>>

CallObserver(s) ==
  \/ At(s, "typeRead") /\ Call(s, publication[s].type, observer[s])
  \/ At(s, "dataRead") /\ Call(s, TypeOf(observer[s]), publication[s].left)

(* The observer whose turn it is, which has been told.                     *)
Part(s) == Head(publication[s].left)

Telling(s, kind) == At(s, "telling") /\ Part(s).kind = kind

(* Defective variant: the rest of the chain is that of the scheduler now.  *)
ToldAnew(s) ==
  LET rest == SubSeq(observer[s], Len(publication[s].told) + 2, Len(observer[s]))
  IN  publication' = [publication EXCEPT
        ![s].pc = IF rest = <<>> THEN "idle" ELSE "telling",
        ![s].left = rest,
        ![s].told = IF Part(s).effective THEN Append(@, Part(s)) ELSE @]

Told(s) ==
  publication' = [publication EXCEPT
    ![s].pc = IF Len(publication[s].left) = 1 THEN "idle" ELSE "telling",
    ![s].run = IF Len(publication[s].left) = 1 THEN Quiet.run ELSE @,
    ![s].left = Tail(@),
    ![s].told = IF Part(s).effective THEN Append(@, Part(s)) ELSE @]

Tell(s, kind) == Telling(s, kind) /\ Told(s) /\ OnlyPublication

(* The observer of the caller; the line of a loggingObserver; the span of  *)
(* a SigNozSpanExporter, written under its lock.                           *)
NotifyCaller(s) == Tell(s, "custom")
Log(s)          == Tell(s, "logging")
ExportSpan(s)   == Tell(s, "sigNoz")

Observe(s) ==
  /\ Telling(s, "prometheus")
  /\ Metrics!ObserveDuration(s, Part(s).collector, RunWorkGroup(publication[s].run))
  /\ publication' = [publication EXCEPT ![s].pc = "observing"]
  /\ UNCHANGED <<config, tracing, published, observed, crashed>>

Observed(s) ==
  /\ At(s, "observing")
  /\ Metrics!ObserveCounts(s, Part(s).collector, RunWorkGroup(publication[s].run))
  /\ observed' = [observed EXCEPT ![Part(s).collector] = Append(@, publication[s].run)]
  /\ Told(s)
  /\ UNCHANGED <<config, tracing, published, crashed>>

Proceed(s) ==
  \/ ReadType(s) \/ ReadData(s) \/ CallObserver(s)
  \/ NotifyCaller(s) \/ Log(s) \/ ExportSpan(s) \/ Observed(s)

-----------------------------------------------------------------------------
(* WriteMetrics of a collector that was supplied.                          *)

BeginScrape(c) ==
  /\ Metrics!WriteDurations(Scraper, c)
  /\ UNCHANGED <<config, publication, tracing, published, observed, crashed>>

EndScrape(c) ==
  /\ Metrics!WriteCounters(Scraper, c)
  /\ UNCHANGED <<config, publication, tracing, published, observed, crashed>>

-----------------------------------------------------------------------------
(* RunWithTrace, of a scheduler that has tracing enabled and with a writer;*)
(* without those it only runs the function.  trace.Start fails when the    *)
(* tracer of the process is on already: then the function is not run.      *)

(* Defective variant: that it failed is overlooked.                        *)
StartAnyway(t, s) ==
  /\ instrumentation[s].trace
  /\ t \notin traced
  /\ runtimeTracing' = TRUE
  /\ traced' = traced \cup {t}
  /\ UNCHANGED <<config, publication, metrics, published, observed, crashed>>

RunWithTrace(t, s) ==
  /\ instrumentation[s].trace
  /\ ~runtimeTracing
  /\ runtimeTracing' = TRUE
  /\ traced' = traced \cup {t}
  /\ UNCHANGED <<config, publication, metrics, published, observed, crashed>>

(* The function returns or panics.                                         *)
RunReturns(t) ==
  /\ t \in traced
  /\ runtimeTracing' = FALSE
  /\ traced' = traced \ {t}
  /\ UNCHANGED <<config, publication, metrics, published, observed, crashed>>

-----------------------------------------------------------------------------
Running ==
  \/ \E s \in Schedulers, cfg \in Configs : WithInstrumentation(s, cfg)
  \/ \E s \in Schedulers, run \in Runs : Publish(s, run)
  \/ \E s \in Schedulers : Proceed(s) \/ Observe(s)
  \/ \E c \in Supplied : BeginScrape(c) \/ EndScrape(c)
  \/ \E t \in Callers : RunReturns(t) \/ \E s \in Schedulers : RunWithTrace(t, s)

Crashed == crashed /\ UNCHANGED vars

Next == (~crashed /\ Running) \/ Crashed

Spec == Init /\ [][Next]_vars

(* A ticker goes on publishing, a scrape comes to its end, and the mutex of*)
(* a collector is handed to whoever has waited for it long enough.         *)
Fairness ==
  /\ \A s \in Schedulers : WF_vars(~crashed /\ Proceed(s)) /\ SF_vars(~crashed /\ Observe(s))
  /\ \A c \in Supplied : WF_vars(~crashed /\ EndScrape(c))

FairSpec == Spec /\ Fairness

-----------------------------------------------------------------------------
Kinds == {"custom", "logging", "prometheus", "sigNoz"}

ObserverRecord == [kind : Kinds, effective : BOOLEAN,
                   collector : Supplied \cup OwnCollectors \cup {NoCollector}]

TypeOK ==
  /\ instrumentation \in [Schedulers -> Configs]
  /\ \A s \in Schedulers :
       /\ observer[s] \in Seq(ObserverRecord)
       /\ \A k \in DOMAIN observer[s] :
            observer[s][k].kind = "prometheus" <=> observer[s][k].collector # NoCollector
       /\ publication[s].pc \in {"idle", "read", "typeRead", "dataRead",
                                 "telling", "observing"}
       /\ publication[s].run \in Runs \cup {Quiet.run}
       /\ publication[s].type \in {"noop", "composite"} \cup Kinds
       /\ publication[s].left \in Seq(ObserverRecord)
       /\ publication[s].told \in Seq(ObserverRecord)
       /\ publication[s].offered \subseteq Configs
       /\ At(s, "telling") \/ At(s, "observing") => publication[s].left # <<>>
  /\ \A c \in Supplied \cup OwnCollectors :
       /\ holder[c] \in Schedulers \cup {Scraper, Nobody}
       /\ DOMAIN durations[c] \subseteq Keys
       /\ DOMAIN counters[c] \subseteq DOMAIN durations[c]
  /\ runtimeTracing \in BOOLEAN
  /\ traced \subseteq Callers
  /\ reconfigs \in 0 .. MaxReconfigs
  /\ published \in 0 .. MaxSummaries

(* Said by docs/examples/observability.md:122: the observer of the caller  *)
(* is told first, then the logger, the collector and the exporter.         *)
Rank == [custom |-> 1, logging |-> 2, prometheus |-> 3, sigNoz |-> 4]

Tells(cfg, kind) ==
  CASE kind = "custom"     -> cfg.observer
    [] kind = "logging"    -> cfg.logging /\ cfg.logger
    [] kind = "prometheus" -> cfg.prometheus
    [] kind = "sigNoz"     -> cfg.sigNoz /\ cfg.writer

DeliveredBy(s, cfg) ==
  LET told == publication[s].told
  IN  /\ \A k, l \in DOMAIN told : k < l => Rank[told[k].kind] < Rank[told[l].kind]
      /\ \A k \in DOMAIN told :
           /\ Tells(cfg, told[k].kind)
           /\ told[k].kind = "prometheus" =>
                told[k].collector \in
                  IF cfg.collector = NoCollector THEN OwnCollectors ELSE {cfg.collector}
      /\ At(s, "idle") => \A kind \in Kinds : Tells(cfg, kind) =>
           \E k \in DOMAIN told : told[k].kind = kind

(* Each summary is told to everyone one configuration names, once and in   *)
(* the documented order, and to nobody else: one that was in effect while  *)
(* it was published, never parts of two, however the chain is replaced in  *)
(* between.  If the process crashes, the race on the observer was between  *)
(* chains of two types.                                                    *)
SummaryIsDelivered ==
  /\ \A s \in Schedulers : publication[s].offered # {} =>
       \E cfg \in publication[s].offered : DeliveredBy(s, cfg)
  /\ crashed => \E s \in Schedulers :
       Cardinality({TypeOf(BuildObserverChain(cfg, <<s, 0>>)) :
                      cfg \in publication[s].offered}) > 1

(* The sum of a sequence of numbers.                                       *)
SumOf(amounts) ==
  LET sum[n \in 0 .. Len(amounts)] == IF n = 0 THEN 0 ELSE sum[n - 1] + amounts[n]
  IN  sum[Len(amounts)]

(* What the runs with a key add up to, if each adds amount[run].           *)
Total(runs, key, amount) ==
  SumOf([i \in DOMAIN runs |-> IF runs[i].key = key THEN amount[runs[i]] ELSE 0])

Ended(run) == Times(run, "failed") + Times(run, "cancelled")

KeysOf(runs) == {runs[i].key : i \in DOMAIN runs}

DurationOf(runs, key) ==
  [sum |-> Total(runs, key, [run \in Runs |-> run.duration]),
   count |-> Cardinality({i \in DOMAIN runs : runs[i].key = key}),
   buckets |-> [b \in DOMAIN Buckets |->
     Total(runs, key, [run \in Runs |-> IF run.duration <= Buckets[b] THEN 1 ELSE 0])]]

CounterOf(runs, key) ==
  [executed |-> Total(runs, key, [run \in Runs |-> Times(run, "executed")]),
   skipped |-> Total(runs, key, [run \in Runs |->
                 Len(run.outcomes) - Ended(run) - Times(run, "executed")]),
   errors |-> Total(runs, key, [run \in Runs |-> Ended(run)])]

(* What a page says when runs are all the collector was told of.           *)
Exposed(runs) ==
  [durations |-> [key \in KeysOf(runs) |-> DurationOf(runs, key)],
   counters |-> [key \in KeysOf(runs) |-> CounterOf(runs, key)],
   whole |-> TRUE]

(* A page shows the collector as it is between two summaries: its counters *)
(* and its durations are of the same runs, whoever publishes or scrapes    *)
(* meanwhile, and no run is counted twice or in part.  One that is written *)
(* after each summary is up to date.                                       *)
PagesAreExact ==
  \A c \in Supplied \cup OwnCollectors : pages[c].whole =>
    \E n \in 0 .. Len(observed[c]) :
      /\ pages[c] = Exposed(SubSeq(observed[c], 1, n))
      /\ c \in OwnCollectors => n = Len(observed[c])

(* The tracer of the process is on for exactly as long as one function runs*)
(* under the RunWithTrace that started it, whatever becomes of the         *)
(* configuration that asked for it.                                        *)
TraceIsOwned ==
  Cardinality(traced) = IF runtimeTracing THEN 1 ELSE 0

(* A Tick gets past each of its summaries, although a scrape holds the     *)
(* lock of the collector while it writes.                                  *)
PublishReturns ==
  \A s \in Schedulers : ~At(s, "idle") ~> (At(s, "idle") \/ crashed)
=============================================================================
