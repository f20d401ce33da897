----------------------------- MODULE WorkQueue -----------------------------
(***************************************************************************)
(* What the dispatch package promises about each job, without channels,    *)
(* maps, workers or locks: a submitted job is leased to one worker at a    *)
(* time, every lease ends in completion, in a retry with the next attempt  *)
(* number while attempts remain, in the dead-letter list once they do not  *)
(* (or once the queue is shut), or - the one leak the code allows - with   *)
(* the job stranded.  Finished, dead and stranded jobs never come back.    *)
(***************************************************************************)
EXTENDS Naturals

CONSTANTS Jobs, MaxTries

VARIABLES
    job,    \* the state of every job
    tries,  \* the attempt a live, dead or stranded job is at
    open    \* FALSE once the queue is shut

JobStates == {"new", "queued", "leased", "done", "dead", "stranded"}

Init ==
    /\ job = [j \in Jobs |-> "new"]
    /\ tries = [j \in Jobs |-> 0]
    /\ open = TRUE

Move(j, from, to, n) ==
    /\ job[j] = from
    /\ job' = [job EXCEPT ![j] = to]
    /\ tries' = [tries EXCEPT ![j] = n]
    /\ UNCHANGED open

Submit(j)   == Move(j, "new", "queued", 1)
Lease(j)    == Move(j, "queued", "leased", tries[j])
Complete(j) == Move(j, "leased", "done", 0)
Retry(j)    == tries[j] < MaxTries /\ Move(j, "leased", "queued", tries[j] + 1)
Strand(j)   == tries[j] < MaxTries /\ Move(j, "leased", "stranded", tries[j] + 1)
Bury(j)     == (tries[j] = MaxTries \/ ~open) /\ Move(j, "leased", "dead", tries[j])

Shut ==
    /\ open
    /\ open' = FALSE
    /\ UNCHANGED <<job, tries>>

Next ==
    \/ \E j \in Jobs :
          Submit(j) \/ Lease(j) \/ Complete(j) \/ Retry(j) \/ Strand(j) \/ Bury(j)
    \/ Shut

Spec == Init /\ [][Next]_<<job, tries, open>>
=============================================================================
