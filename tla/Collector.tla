------------------------------ MODULE Collector ------------------------------
(***************************************************************************)
(* PrometheusWorkGroupCollector (observability.go): the samples of each    *)
(* collector, and the pages of metrics written from them.  A mutex makes   *)
(* each of ObserveWorkGroup and WriteMetrics whole; both are two steps     *)
(* here, the durations and the counters, so that it has something to do.   *)
(***************************************************************************)
EXTENDS Integers, Sequences

CONSTANTS
  Collectors,   (* the collectors there may be                              *)
  Printing,     (* those whose options have a Writer                        *)
  Keys,         (* the labels of a work group: identifier, mode and async   *)
  Buckets,      (* DurationBuckets, the upper bounds                        *)
  Nobody        (* stands for nobody                                        *)

VARIABLES
  durations,    (* sum, count and buckets of each sample, by its key        *)
  counters,     (* executed, skipped and errors of each sample, by its key  *)
  holder,       (* who has locked each collector                            *)
  pages         (* the metrics of each collector written last               *)

collectorVars == <<durations, counters, holder, pages>>

NoDuration == [sum |-> 0, count |-> 0, buckets |-> [i \in DOMAIN Buckets |-> 0]]
NoCounter  == [executed |-> 0, skipped |-> 0, errors |-> 0]

NoSamples == [key \in {} |-> NoCounter]

(* A page before anything was written, and one of which the scraper has    *)
(* come as far as the durations.                                           *)
Page(d, c, whole) == [durations |-> d, counters |-> c, whole |-> whole]

Init ==
  /\ durations = [c \in Collectors |-> NoSamples]
  /\ counters = [c \in Collectors |-> NoSamples]
  /\ holder = [c \in Collectors |-> Nobody]
  /\ pages = [c \in Collectors |-> Page(NoSamples, NoSamples, TRUE)]

-----------------------------------------------------------------------------
(* The sample of a key, which is made when it is first observed.           *)
Sample(samples, key, new) == IF key \in DOMAIN samples THEN samples[key] ELSE new

With(samples, key, sample) ==
  [k \in DOMAIN samples \cup {key} |-> IF k = key THEN sample ELSE samples[k]]

(* Buckets are cumulative, and a bound belongs to its bucket.              *)
Bucketed(old, duration) ==
  [i \in DOMAIN Buckets |-> IF duration <= Buckets[i] THEN old[i] + 1 ELSE old[i]]

AddDuration(old, summary) ==
  [sum |-> old.sum + summary.duration,
   count |-> old.count + 1,
   buckets |-> Bucketed(old.buckets, summary.duration)]

AddCounts(old, summary) ==
  [executed |-> old.executed + summary.executed,
   skipped |-> old.skipped + summary.skipped,
   errors |-> IF summary.failed THEN old.errors + 1 ELSE old.errors]

-----------------------------------------------------------------------------
(* Defective variant: WriteMetrics does not take the lock.                 *)
AnyHolder(c) == TRUE

Unlocked(c) == holder[c] = Nobody

(* ObserveWorkGroup, called by who.  A collector whose options have a      *)
(* Writer writes its page before it unlocks.                               *)
ObserveDuration(who, c, summary) ==
  /\ Unlocked(c)
  /\ holder' = [holder EXCEPT ![c] = who]
  /\ durations' = [durations EXCEPT ![c] =
       With(@, summary.key, AddDuration(Sample(@, summary.key, NoDuration), summary))]
  /\ UNCHANGED <<counters, pages>>

ObserveCounts(who, c, summary) ==
  /\ holder[c] = who
  /\ holder' = [holder EXCEPT ![c] = Nobody]
  /\ counters' = [counters EXCEPT ![c] =
       With(@, summary.key, AddCounts(Sample(@, summary.key, NoCounter), summary))]
  /\ pages' = IF c \in Printing
                THEN [pages EXCEPT ![c] = Page(durations[c], counters'[c], TRUE)]
                ELSE pages
  /\ UNCHANGED durations

(* WriteMetrics, called by who: the durations, then the counters.          *)
WriteDurations(who, c) ==
  /\ Unlocked(c)
  /\ holder' = [holder EXCEPT ![c] = who]
  /\ pages' = [pages EXCEPT ![c] = Page(durations[c], NoSamples, FALSE)]
  /\ UNCHANGED <<durations, counters>>

(* Defective variant: the lock is kept when the write fails, as it does    *)
(* when the client has gone.                                               *)
WriteCountersAndKeep(who, c) ==
  /\ holder[c] = who
  /\ ~pages[c].whole
  /\ pages' = [pages EXCEPT ![c] = Page(@.durations, counters[c], TRUE)]
  /\ UNCHANGED <<durations, counters, holder>>

WriteCounters(who, c) ==
  /\ holder[c] = who
  /\ holder' = [holder EXCEPT ![c] = Nobody]
  /\ pages' = [pages EXCEPT ![c] = Page(@.durations, counters[c], TRUE)]
  /\ UNCHANGED <<durations, counters>>
=============================================================================
