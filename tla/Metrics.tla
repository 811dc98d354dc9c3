------------------------------ MODULE Metrics ------------------------------
(***************************************************************************)
(* A MetricsCollector: a goroutine that owns the counters and selects from *)
(* three buffered channels.  A handler announces itself on load1 when it   *)
(* begins a task and sends the finished task on end; whoever asks for the  *)
(* statistics sends a channel on read and waits for the answer on it.      *)
(* That channel has no buffer, so while the collector answers it takes     *)
(* nothing else, until the reader takes the answer.                        *)
(*                                                                         *)
(* The effects of the messages of one channel commute, so a channel is the *)
(* set of what waits in it.  Times are left out.                           *)
(***************************************************************************)
EXTENDS Integers, FiniteSets, Functions

CONSTANTS
  Task,     \* uses of Task() and End()
  Reader,   \* callers of Stats()
  Stopper,  \* callers of Stop()
  Size,     \* the bytes a task adds to its Metric
  Cap       \* capacity of the channels, 100 in the code

ASSUME MetricsAssumption ==
  /\ IsFiniteSet(Task)
  /\ Task \cap Stopper = {}
  /\ Size \in [Task -> Nat]
  /\ Cap \in Nat \ {0}

VARIABLES
  st,        \* where each task is: "new", "running" or "ended"
  stopped,   \* the callers of Stop that have been through
  asked,     \* where each reader is: "idle", "asking" or "answered"
  load1,     \* tasks and stops announced and not taken
  end,       \* tasks ended and not taken
  read,      \* readers waiting for their turn
  sending,   \* the answer the collector is sending, and to whom
  load, bytes, requests,  \* the collector's own counters
  report,    \* what each reader was last told
  floor      \* history: bytes counted when the reader asked

vars == <<st, stopped, asked, load1, end, read, sending, load, bytes, requests, report, floor>>

clients  == <<st, stopped, asked, floor>>
counters == <<load, bytes, requests>>

Stats == [load : Int, bytes : Nat, requests : Nat]

\* No channel ever holds more than its capacity, and the rest are of their types.
TypeOK ==
  /\ st \in [Task -> {"new", "running", "ended"}]
  /\ stopped \subseteq Stopper
  /\ asked \in [Reader -> {"idle", "asking", "answered"}]
  /\ load1 \subseteq Task \cup Stopper /\ Cardinality(load1) <= Cap
  /\ end \subseteq Task /\ Cardinality(end) <= Cap
  /\ read \subseteq Reader /\ Cardinality(read) <= Cap
  /\ sending \subseteq [to : Reader, stats : Stats]
  /\ load \in Int /\ bytes \in Nat /\ requests \in Nat
  /\ report \in [Reader -> Stats]
  /\ floor \in [Reader -> Nat]

Init ==
  /\ st = [t \in Task |-> "new"]
  /\ stopped = {}
  /\ asked = [r \in Reader |-> "idle"]
  /\ load1 = {} /\ end = {} /\ read = {} /\ sending = {}
  /\ load = 0 /\ bytes = 0 /\ requests = 0
  /\ report = [r \in Reader |-> [load |-> 0, bytes |-> 0, requests |-> 0]]
  /\ floor = [r \in Reader |-> 0]

\* Mutant: a channel takes one more than it holds.
HasRoomAndOne(channel) == Cardinality(channel) <= Cap

\* A send on a buffered channel waits for room.
HasRoom(channel) == Cardinality(channel) < Cap

-----------------------------------------------------------------------------
(* The callers.                                                            *)

\* Task(), which calls Load().
Begin(t) ==
  /\ st[t] = "new"
  /\ HasRoom(load1)
  /\ load1' = load1 \cup {t}
  /\ st' = [st EXCEPT ![t] = "running"]
  /\ UNCHANGED <<stopped, asked, end, read, sending, counters, report, floor>>

\* Mutant: a full channel drops what is sent (a select with a default).
EndOrDrop(t) ==
  /\ st[t] = "running"
  /\ end' = IF HasRoom(end) THEN end \cup {t} ELSE end
  /\ st' = [st EXCEPT ![t] = "ended"]
  /\ UNCHANGED <<stopped, asked, load1, read, sending, counters, report, floor>>

End(t) ==
  /\ st[t] = "running"
  /\ HasRoom(end)
  /\ end' = end \cup {t}
  /\ st' = [st EXCEPT ![t] = "ended"]
  /\ UNCHANGED <<stopped, asked, load1, read, sending, counters, report, floor>>

Stop(s) ==
  /\ s \notin stopped
  /\ HasRoom(load1)
  /\ load1' = load1 \cup {s}
  /\ stopped' = stopped \cup {s}
  /\ UNCHANGED <<st, asked, end, read, sending, counters, report, floor>>

\* The first half of Stats(): the question is sent.
Ask(r) ==
  /\ asked[r] # "asking"
  /\ HasRoom(read)
  /\ read' = read \cup {r}
  /\ asked' = [asked EXCEPT ![r] = "asking"]
  /\ floor' = [floor EXCEPT ![r] = bytes]
  /\ UNCHANGED <<st, stopped, load1, end, sending, counters, report>>

-----------------------------------------------------------------------------
(* The collector: one case of its select at a time, and none while it is   *)
(* sending an answer.                                                      *)

\* Mutant: the answer channel has a buffer.
FreeAlways == TRUE

Free == sending = {}

\* Mutant: a stop is counted as a load.
CollectAnyLoad(m) ==
  /\ Free
  /\ m \in load1
  /\ load1' = load1 \ {m}
  /\ load' = load + 1
  /\ UNCHANGED <<clients, end, read, sending, bytes, requests, report>>

\* A stop only leaves the select, and the loop goes on.
CollectLoad(m) ==
  /\ Free
  /\ m \in load1
  /\ load1' = load1 \ {m}
  /\ load' = IF m \in Task THEN load + 1 ELSE load
  /\ UNCHANGED <<clients, end, read, sending, bytes, requests, report>>

\* Mutant: the last task's bytes replace the sum.
CollectLastEnd(t) ==
  /\ Free
  /\ t \in end
  /\ end' = end \ {t}
  /\ bytes' = Size[t]
  /\ load' = load - 1
  /\ UNCHANGED <<clients, load1, read, sending, requests, report>>

CollectEnd(t) ==
  /\ Free
  /\ t \in end
  /\ end' = end \ {t}
  /\ bytes' = bytes + Size[t]
  /\ load' = load - 1
  /\ UNCHANGED <<clients, load1, read, sending, requests, report>>

\* The collector's statistics with so many bytes, on their way to a reader.
To(r, counted) == [to |-> r, stats |-> [load |-> load, bytes |-> counted, requests |-> requests]]

\* Mutant: what waits to be counted is reported already.
OfferAhead(r) ==
  /\ Free
  /\ r \in read
  /\ read' = read \ {r}
  /\ sending' = sending \cup {To(r, bytes + FoldFunctionOnSet(+, 0, Size, end))}
  /\ UNCHANGED <<clients, load1, end, counters, report>>

\* The collector takes a question and evaluates the answer, and its send waits for the
\* reader.
Offer(r) ==
  /\ Free
  /\ r \in read
  /\ read' = read \ {r}
  /\ sending' = sending \cup {To(r, bytes)}
  /\ UNCHANGED <<clients, load1, end, counters, report>>

\* Mutant: the reader gives up (a select with a timeout), and nobody takes the answer.
GiveUp(r) ==
  /\ \E answer \in sending : answer.to = r
  /\ asked' = [asked EXCEPT ![r] = "idle"]
  /\ UNCHANGED <<st, stopped, load1, end, read, sending, counters, report, floor>>

\* The second half of Stats(): the reader takes the answer, and the collector goes on.
Receive(r) ==
  /\ asked[r] = "asking"
  /\ \E answer \in sending :
      /\ answer.to = r
      /\ sending' = sending \ {answer}
      /\ report' = [report EXCEPT ![r] = answer.stats]
      /\ asked' = [asked EXCEPT ![r] = "answered"]
      /\ UNCHANGED <<st, stopped, load1, end, read, counters, floor>>

Next ==
  \/ \E t \in Task : Begin(t) \/ End(t) \/ CollectEnd(t)
  \/ \E s \in Stopper : Stop(s)
  \/ \E r \in Reader : Ask(r) \/ Offer(r) \/ Receive(r)
  \/ \E m \in Task \cup Stopper : CollectLoad(m)

(***************************************************************************)
(* A handler that has begun a task ends it, and one that waits for room    *)
(* gets it when there is some again and again: senders wait in line.  A    *)
(* reader does nothing but wait for its answer.  The select takes a ready  *)
(* case at random and a channel is first in first out, so no message that  *)
(* the collector could take again and again, between two answers, is       *)
(* passed over for ever.                                                   *)
(***************************************************************************)
Fairness ==
  /\ \A t \in Task : SF_vars(End(t)) /\ SF_vars(CollectEnd(t))
  /\ \A r \in Reader : SF_vars(Offer(r)) /\ WF_vars(Receive(r))
  /\ \A m \in Task \cup Stopper : SF_vars(CollectLoad(m))

Spec == Init /\ [][Next]_vars

FairSpec == Spec /\ Fairness

-----------------------------------------------------------------------------

\* The tasks whose announcement, and whose end, the collector has taken.
Loaded  == {t \in Task : st[t] # "new" /\ t \notin load1}
Counted == {t \in Task : st[t] = "ended" /\ t \notin end}

Quiet == load1 = {} /\ end = {} /\ \A t \in Task : st[t] # "running"

\* The load counter is the tasks whose announcement the collector has taken less
\* those whose end it has, in whatever order its select took them
\* (prometheus.go:55-68).
LoadBalance == load = Cardinality(Loaded) - Cardinality(Counted)

\* Nothing sticks: once nobody is at work and the channels are empty the load is
\* zero again, and every task's bytes were counted once.
Settled ==
  Quiet => /\ load = 0
           /\ bytes = FoldFunctionOnSet(+, 0, Size, {t \in Task : st[t] = "ended"})

\* What a reader is told was true at some moment between its question and its
\* answer: it misses nothing that was counted before it asked, and counts
\* nothing that has not been counted (prometheus.go:69-77, 117-123).
ReportInInterval ==
  \A r \in Reader : asked[r] = "answered" =>
    /\ floor[r] <= report[r].bytes
    /\ report[r].bytes <= bytes

\* What the metrics pages call counters never goes back: whoever is told now is told
\* no less than anybody was told before, because an answer that is not taken yet keeps
\* the collector from counting and from answering others (prometheus.go:69-77,
\* 117-123, 143-158).
NeverGoesBack ==
  [][\A r, s \in Reader : asked[r] = "asking" /\ asked'[r] = "answered"
       => report[s].bytes <= report'[r].bytes]_vars

\* Whoever asks is answered: the one reader the collector waits for takes its answer,
\* and neither the readers in front nor the tasks keep it from the others for ever
\* (prometheus.go:56-77, 117-123).
Answered == \A r \in Reader : asked[r] = "asking" ~> asked[r] = "answered"

\* The collector does what Meter says: the channels lose and repeat nothing.
Metered == INSTANCE Meter WITH
  phase <- [t \in Task |-> IF t \in Counted THEN "counted" ELSE st[t]],
  total <- bytes

Implements == Metered!Spec
=============================================================================
