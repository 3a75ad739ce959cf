----------------------------- MODULE MCProducers -----------------------------
(***************************************************************************)
(* The producers around one confluent-kafka client, side by side: a        *)
(* behaviour exercises one of them, the one on the bench, while the others *)
(* stay as they began.  What they promise alike is stated once, and each   *)
(* is shown to keep the same PublishContract.                              *)
(*                                                                         *)
(*   router      KafkaEventRouter of the package;                          *)
(*   confirmed   CallbackConfirmedProducer;     prefix c                   *)
(*   forget      FireAndForgetProducer;         prefix g                   *)
(*   shared      SharedKafkaPublisher;          prefix s                   *)
(*   lesson      LessonPublisher;               prefix l                   *)
(*   lifecycle   SingletonLifecycle;            prefix y                   *)
(***************************************************************************)
EXTENDS KafkaClient, Sequences

CONSTANTS
  RejectedMessages,   (* those the client will not have                    *)
  SampleSize, MaxInterrupts, NoEvent, NoSummary,
  MayWait, MayCloseEarly,
  Threads, MaxResets

VARIABLES
  bench,
  at, expired, flushing, acceptedCount, deliveredCount, failedCount,
  cfate, cat, ccurrent, cexpired, cisFinished, cqueued, cdelivered, cfailed,
  crecent, csummary, coutcome, cinterrupts, cunheard,
  gfate, gat, gexpired, gresult, glifecycle, gresolved, gearly,
  sfate, sat, sexpired, sclosing, spoller, scloser, saccepted, sdelivered,
  sfailed, srejected, sdrained,
  lfate, llesson, lat, lexpired, laccepted, ldelivered, lfailed, lshutdown, lsummary,
  yinstance, yinitialized, ymade, yconnected, yat, ymine, yresets

routerVars    == <<fate, at, expired, flushing, acceptedCount, deliveredCount, failedCount>>
confirmedVars == <<cfate, cat, ccurrent, cexpired, cisFinished, cqueued, cdelivered,
                   cfailed, crecent, csummary, coutcome, cinterrupts, cunheard>>
forgetVars    == <<gfate, gat, gexpired, gresult, glifecycle, gresolved, gearly>>
sharedVars    == <<sfate, sat, sexpired, sclosing, spoller, scloser, saccepted,
                   sdelivered, sfailed, srejected, sdrained>>
lessonVars    == <<lfate, llesson, lat, lexpired, laccepted, ldelivered, lfailed,
                   lshutdown, lsummary>>
lifecycleVars == <<yinstance, yinitialized, ymade, yconnected, yat, ymine, yresets>>

vars == <<bench, routerVars, confirmedVars, forgetVars, sharedVars, lessonVars,
          lifecycleVars>>

Router == INSTANCE KafkaEventRouter

Confirmed == INSTANCE CallbackConfirmedProducer WITH
  RefusedEvents <- RejectedMessages,
  fate <- cfate, at <- cat, current <- ccurrent, expired <- cexpired,
  isFinished <- cisFinished, queuedCount <- cqueued, deliveredCount <- cdelivered,
  failedCount <- cfailed, recentFailures <- crecent, summary <- csummary,
  outcome <- coutcome, interrupts <- cinterrupts, unheard <- cunheard

Forget == INSTANCE FireAndForgetProducer WITH
  fate <- gfate, at <- gat, expired <- gexpired, result <- gresult,
  lifecycle <- glifecycle, resolved <- gresolved, early <- gearly

Shared == INSTANCE SharedKafkaPublisher WITH
  fate <- sfate, at <- sat, expired <- sexpired, closing <- sclosing, poller <- spoller,
  closer <- scloser, accepted <- saccepted, delivered <- sdelivered,
  failed <- sfailed, rejected <- srejected, drained <- sdrained

Lesson == INSTANCE LessonPublisher WITH
  fate <- lfate, lesson <- llesson, at <- lat, expired <- lexpired,
  accepted <- laccepted, delivered <- ldelivered, failed <- lfailed,
  shutdown <- lshutdown, summary <- lsummary

Lifecycle == INSTANCE SingletonLifecycle WITH
  instance <- yinstance, initialized <- yinitialized, made <- ymade,
  connected <- yconnected, at <- yat, mine <- ymine, resets <- yresets

ASSUME ProducersAssumption ==
  /\ Confirmed!CallbackConfirmedAssumption
  /\ Forget!FireAndForgetAssumption
  /\ Lifecycle!LifecycleAssumption

Init ==
  /\ bench \in {"router", "confirmed", "forget", "shared", "lesson", "lifecycle"}
  /\ Router!Init /\ Confirmed!Init /\ Forget!Init /\ Shared!Init /\ Lifecycle!Init
  /\ Lesson!Init /\ (bench = "lesson" \/ llesson = "router")

Next ==
  \/ /\ bench = "router" /\ Router!Next
     /\ UNCHANGED <<bench, confirmedVars, forgetVars, sharedVars, lessonVars, lifecycleVars>>
  \/ /\ bench = "confirmed" /\ Confirmed!Next
     /\ UNCHANGED <<bench, routerVars, forgetVars, sharedVars, lessonVars, lifecycleVars>>
  \/ /\ bench = "forget" /\ Forget!Next
     /\ UNCHANGED <<bench, routerVars, confirmedVars, sharedVars, lessonVars, lifecycleVars>>
  \/ /\ bench = "shared" /\ Shared!Next
     /\ UNCHANGED <<bench, routerVars, confirmedVars, forgetVars, lessonVars, lifecycleVars>>
  \/ /\ bench = "lesson" /\ Lesson!Next
     /\ UNCHANGED <<bench, routerVars, confirmedVars, forgetVars, sharedVars, lifecycleVars>>
  \/ /\ bench = "lifecycle" /\ Lifecycle!Next
     /\ UNCHANGED <<bench, routerVars, confirmedVars, forgetVars, sharedVars, lessonVars>>

Spec == Init /\ [][Next]_vars

-----------------------------------------------------------------------------
(***************************************************************************)
(* Threads that have begun a call go on, two that contend for a lock both  *)
(* get it, and time advances.  The fire-and-forget producer's callers try  *)
(* again while their result is retryable, which ends only if the broker    *)
(* answers and who tries for ever also waits again and again: his budget   *)
(* is not gone before the first attempt each time.  Only what is on the    *)
(* bench is anybody's business.                                            *)
(***************************************************************************)
benchVars ==
  CASE bench = "router"    -> routerVars
    [] bench = "confirmed" -> confirmedVars
    [] bench = "forget"    -> forgetVars
    [] bench = "shared"    -> sharedVars
    [] bench = "lesson"    -> lessonVars
    [] OTHER               -> lifecycleVars

CallerGoesOn(m) ==
  /\ UNCHANGED bench
  /\ \/ bench = "router"    /\ Router!PublishStep(m)
     \/ bench = "confirmed" /\ ccurrent \in {m, NoEvent} /\ Confirmed!CallStep
     \/ bench = "forget"    /\ Forget!CallerGoesOn(m)
     \/ bench = "shared"    /\ Shared!PublishStep(m)
     \/ bench = "lesson"    /\ Lesson!PublishStep(m)

TimePasses(m) ==
  /\ UNCHANGED bench
  /\ \/ bench = "router"    /\ Router!DeadlinePasses(m)
     \/ bench = "confirmed" /\ ccurrent \in {m, NoEvent} /\ Confirmed!DeadlinePasses
     \/ bench = "forget"    /\ Forget!BudgetRunsOut(m)
     \/ bench = "shared"    /\ Shared!DeadlinePasses(m)
     \/ bench = "lesson"    /\ Lesson!DeadlinePasses(m)

Fairness ==
  /\ \A m \in Messages : SF_benchVars(CallerGoesOn(m)) /\ WF_benchVars(TimePasses(m))
  /\ \A m \in Messages :
       []<>(bench = "forget" /\ MayWait /\ Forget!Retryable(m) => gat[m] = "draining")
  /\ WF_forgetVars(bench = "forget" /\ Forget!Background)

FairSpec == Spec /\ Fairness

-----------------------------------------------------------------------------
(***************************************************************************)
(* Properties.                                                             *)
(***************************************************************************)
\* What a producer presents as "all confirmed" is: everything its client
\* ever took has been delivered.  For the callback-confirmed producer also
\* after one KeyboardInterrupt between any two steps; for the router whenever
\* no publish is between produce() and its count.
ConfirmedMeansDelivered ==
  /\ Confirmed!VerdictIsSound
  /\ Router!ConfirmedMeansDelivered
  /\ Lesson!VerdictIsSound

\* A run of the callback-confirmed producer that no interrupt disturbed
\* reports exactly what happened.
HonestReport == Confirmed!HonestReport

\* The counters that several threads and the callbacks keep tell how many
\* messages the client still holds, up to those that a publish has handed
\* over and not counted; behind SharedKafkaPublisher's two locks, exactly.
CountsAreExact ==
  /\ Router!AwaitingIsExact
  /\ Shared!CountsAreOrdered
  /\ Lesson!AwaitingIsExact

\* A shutdown that reports nothing outstanding has left nothing behind, and
\* no publish slips a message in after it: the log line of a fire-and-forget
\* producer closed as documented, the 0 of SharedKafkaPublisher.close(), the
\* return of a lesson's close().
DrainedForGood ==
  /\ Forget!ResolvedMeansNothingLost
  /\ Shared!DrainedForGood
  /\ Lesson!ClosedMeansDrained

-----------------------------------------------------------------------------
Answers(at_, queued, refused) ==
  [m \in DOMAIN at_ |-> CASE at_[m] \in queued -> "queued"
                          [] at_[m] \in refused -> "refused"
                          [] OTHER -> "none"]

TakenBy(fates) == {m \in DOMAIN fates : fates[m] # "absent"}

RouterContract == INSTANCE PublishContract WITH
  answer <- Answers(at, {"returned"}, {"invalid", "refused", "timedOut"}),
  taken <- TakenBy(fate)

ConfirmedContract == INSTANCE PublishContract WITH
  answer <- Answers([e \in Messages |-> IF e = ccurrent THEN "none" ELSE coutcome[e]],
                    {"returned"}, {"refused", "timedOut"}),
  taken <- TakenBy(cfate)

ForgetContract == INSTANCE PublishContract WITH
  answer <- Answers([m \in Messages |-> IF gat[m] = "idle" THEN gresult[m] ELSE "none"],
                    {"queued"}, {"producer_closed", "queue_full", "client_rejected", "raised"}),
  taken <- TakenBy(gfate)

SharedContract == INSTANCE PublishContract WITH
  answer <- Answers(sat, {"accepted"}, {"closed", "refused", "timedOut"}),
  taken <- TakenBy(sfate)

LessonContract == INSTANCE PublishContract WITH
  answer <- Answers(lat, {"returned"}, {"refused"}),
  taken <- TakenBy(lfate)

\* Every producer keeps the contract of publishing: what a caller is told was
\* queued was, once, and what it is told was not queued was not, whatever the
\* clock, the queue, an interrupt or a close() under its feet do.
KeepsPublishContract ==
  /\ RouterContract!Spec
  /\ ConfirmedContract!Spec
  /\ ForgetContract!Spec
  /\ SharedContract!Spec
  /\ LessonContract!Spec

-----------------------------------------------------------------------------
Working(m) ==
  CASE bench = "router"    -> at[m] \in {"producing", "draining", "counting", "polling"}
    [] bench = "confirmed" -> cat # "idle"
    [] bench = "forget"    -> gat[m] # "idle"
    [] bench = "shared"    -> sat[m] \in {"trying", "locked", "counting", "full"}
    [] bench = "lesson"    -> lat[m] \in {"producing", "draining", "counting", "polling"}
    [] OTHER               -> FALSE

\* Every call comes to its end, even while the queue stays full and other
\* threads take each place that becomes free; a fire-and-forget send even to
\* an end that is not retryable.
CallsEnd ==
  \A m \in Messages :
    Working(m) ~> ~Working(m) /\ (bench = "forget" => ~Forget!Retryable(m))

\* The threads that get_instance() has served hold the one object of the
\* class, and only its client is connected.
OneInstance == Lifecycle!OneInstance /\ Lifecycle!OneConnection

\* Whoever has been served holds an object whose client has been built.
ServedMeansReady == Lifecycle!ServedMeansReady

=============================================================================
