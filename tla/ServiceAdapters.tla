-------------------------- MODULE ServiceAdapters --------------------------
(***************************************************************************)
(* The two runtimes that are services of their own under the trial:        *)
(* Restate (adapters/restate_adapter.py, harness/restate_matrix.py) and    *)
(* the Vercel Workflow fixture (runtime/vercel-workflow, harness/          *)
(* vercel_matrix.py).  Their workers carry the barrier in both runs and    *)
(* leave a marker file before they kill themselves, which the recovery     *)
(* finds.                                                                  *)
(*                                                                         *)
(* Restate is seen as its adapter uses it: it journals the result of the   *)
(* one action and calls the handler again until it returns.  The Vercel    *)
(* Local World keeps a run, its completed steps, and a claim on the step   *)
(* begun: linked first, its entity and event written while the body is     *)
(* already running.                                                        *)
(***************************************************************************)
EXTENDS TrialHarness

CrashOnce ==
  /\ Running(trial.barrier)
  /\ todo' = IF disk.marker THEN Tail(todo) ELSE <<"kill">>
  /\ disk' = [disk EXCEPT !.marker = TRUE]
  /\ UNCHANGED <<daemonVars, harnessVars, exit, request, drawn>>

Kill ==
  /\ Running("kill")
  /\ ExitWith("killed")
  /\ UNCHANGED <<daemonVars, harnessVars, request, drawn, disk>>

(***************************************************************************)
(* Restate.                                                                *)
(***************************************************************************)
\* Mutant: a trial finds the marker of an earlier one.
RestateState_SharedMarker(t) == [marker |-> TRUE, journaled |-> FALSE]

RestateState(t) == [marker |-> FALSE, journaled |-> FALSE]

RestateDisk == [marker : BOOLEAN, journaled : BOOLEAN]

\* The handler, in which a journaled action is replayed and not run.
RestateRun(t, journal) ==
  ArmedWith(<<"b0">>
              \o (IF journal.journaled THEN << >> ELSE <<"send", "await", "b1", "journal">>)
              \o <<"b2">>,
            t.barrier)

Journal ==
  /\ Running("journal")
  /\ Persists([disk EXCEPT !.journaled = TRUE])

RestateProcess == CrashOnce \/ Kill \/ Journal

(***************************************************************************)
(* The Vercel Workflow fixture.                                            *)
(***************************************************************************)
LocalWorld(t) == [run |-> FALSE, claim |-> "none", marker |-> FALSE, completed |-> << >>]
VercelDisk == [run : BOOLEAN, claim : {"none", "linked", "created"}, marker : BOOLEAN,
               completed : Seq({"prepareIdentity", "charge", "sentinel"})]

Steps(t) == (IF TwoPhase(t) THEN <<"prepareIdentity">> ELSE << >>) \o <<"charge", "sentinel">>

StepBody(step) == CASE step = "prepareIdentity" -> << >>
                    [] step = "charge" -> <<"b0", "send", "await", "b1">>
                    [] step = "sentinel" -> <<"b2">>

Replay(t, world) == [n \in 1 .. Len(Steps(t)) - Len(world.completed) |-> "start_step"]
VercelCrashRun(t) == <<"create_run">> \o Replay(t, LocalWorld(t))
VercelRecoveryRun(t, world) == Replay(t, world)

CreateRun ==
  /\ Running("create_run")
  /\ Persists([disk EXCEPT !.run = TRUE])

\* Mutant: any claim left by the crash is taken for a stale one.
StartStep_AnyClaimStale ==
  /\ Running("start_step")
  /\ LET step == Steps(trial)[Len(disk.completed) + 1] IN
       IF disk.claim # "none" THEN todo' = <<"hang">>
       ELSE \E body \in Interleavings(<<"link_claim", "write_created">>, StepBody(step)) :
              todo' = ArmedWith(body, trial.barrier) \o <<step>> \o Tail(todo)
  /\ UNCHANGED <<daemonVars, harnessVars, exit, request, drawn, disk>>

\* A step whose claim is linked and not created is skipped, and its delivery
\* hangs.
StartStep ==
  /\ Running("start_step")
  /\ LET step == Steps(trial)[Len(disk.completed) + 1]
         goes(body) == ArmedWith(body, trial.barrier) \o <<step>> \o Tail(todo) IN
       CASE disk.claim = "none" ->
              \E body \in Interleavings(<<"link_claim", "write_created">>, StepBody(step)) :
                todo' = goes(body)
         [] disk.claim = "linked" -> todo' = <<"hang">>
         [] disk.claim = "created" -> todo' = goes(StepBody(step))
  /\ UNCHANGED <<daemonVars, harnessVars, exit, request, drawn, disk>>

ClaimStep ==
  \/ Running("link_claim") /\ Persists([disk EXCEPT !.claim = "linked"])
  \/ Running("write_created") /\ Persists([disk EXCEPT !.claim = "created"])

CompleteStep ==
  \E step \in {"prepareIdentity", "charge", "sentinel"} :
    /\ Running(step)
    /\ Persists([disk EXCEPT !.completed = Append(@, step), !.claim = "none"])

\* What of the step's claim the process has still to write.
Unwritten == CASE \E n \in DOMAIN todo : todo[n] = "link_claim" ->
                    <<"link_claim", "write_created">>
               [] \A n \in DOMAIN todo : todo[n] \notin {"link_claim", "write_created"} -> << >>
               [] OTHER -> <<"write_created">>

\* A charge that threw is run again, under the claim it was begun with.  (It is
\* given up after a hundred times.)
RetryCharge ==
  \E n \in DOMAIN todo : \E body \in Interleavings(Unwritten, StepBody("charge")) :
    /\ todo[n] = "charge"
    /\ RejectReply(ArmedWith(body, trial.barrier)
                     \o <<"charge">> \o SubSeq(todo, n + 1, Len(todo)))

VercelProcess == CrashOnce \/ Kill \/ CreateRun \/ StartStep \/ ClaimStep \/ CompleteStep

\* RecoveryStalled: the run does not complete in time.
RecoveryStalls ==
  /\ Running("hang")
  /\ ExitWith("stalled")
  /\ UNCHANGED <<daemonVars, harnessVars, request, drawn, disk>>

\* discover_run_id finds no run in the data directory.
NoRunFound ==
  /\ trial.engine = "vercel" /\ harness = "crash_run" /\ exit \in Expected
  /\ ~ disk.run
  /\ harness' = "failed"
  /\ UNCHANGED <<daemonVars, processVars, trial, before, dump, outcome>>

RestatePersisted == disk.journaled
VercelPersisted == \E n \in DOMAIN disk.completed : disk.completed[n] = "charge"
==============================================================================
