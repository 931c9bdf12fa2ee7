-------------------------- MODULE MCThreadPoolDocs --------------------------
(* The program of docs/22-COMPLETE-EXAMPLES.md:471-483, on the model of the  *)
(* pools, with one worker and two tasks: main creates a pool, submits every  *)
(* task, waits and destroys the pool.                                        *)
EXTENDS ThreadPool

CONSTANTS main, square1, square2

VARIABLES called,   \* how many operations main called
          squared   \* how many tasks returned

DocsCall ==
  \/ called = 0 /\ CreateWith(main, 1)
  \/ called = 1 /\ Enter(main, square1, "submit_lock")
  \/ called = 2 /\ Enter(main, square2, "submit_lock")
  \/ called = 3 /\ WaitCall(main)
  \/ called = 4 /\ DestroyCall(main)

DocsInit == Init /\ called = 0 /\ squared = 0

DocsNext ==
  \/ DocsCall /\ called' = called + 1 /\ UNCHANGED squared
  \/ Step(main) /\ UNCHANGED <<called, squared>>
  \/ \E w \in Workers :
       /\ Worker(w)
       /\ squared' = IF wpc[w] = "run" THEN squared + 1 ELSE squared
       /\ UNCHANGED called

DocsSpec == DocsInit /\ [][DocsNext]_<<vars, called, squared>>

(* Main is back from the operations it called so far. *)
Returned(n) == called >= n /\ pc[main] = "idle"

(* docs/22-COMPLETE-EXAMPLES.md:481: "All tasks completed".                  *)
AllTasksCompleted == Returned(5) => squared = 2
=============================================================================
