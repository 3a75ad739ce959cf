--------------------- MODULE MCDeadLetterQueueProducer ---------------------
EXTENDS DeadLetterQueueProducer, TLC

(* c1 runs on the main thread; the other calls are interchangeable. *)
WorkerSymmetry == Permutations(Calls \ Interruptible)

=============================================================================
