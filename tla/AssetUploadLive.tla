-------------------------- MODULE AssetUploadLive --------------------------
(***************************************************************************)
(* AssetUpload with a bound on what fails: crashes, lost requests, storage *)
(* or database errors, and leases that lapse although their holder is at   *)
(* work.  After MaxFailures of them the maintenance schedule and the       *)
(* workers, which run again and again, bring every upload to its end.      *)
(***************************************************************************)
EXTENDS AssetUpload

CONSTANT MaxFailures
ASSUME FailuresAssumption == MaxFailures \in Nat

VARIABLE failures

liveVars == <<vars, failures>>

\* A holder at work on s renews its lease every heartbeat, a quarter of the
\* lease's length; only a stall lets it lapse.
Attends(w, s) == w # NoOne /\ on[w] = s

Stall(s) ==
    \/ Attends(completer[s], s) /\ CompletionLapses(s)
    \/ Attends(validator[s], s) /\ ValidationLapses(s)
    \/ Attends(aborter[s], s) /\ TaskLapses(s)

\* The lease of a holder that died or went on to other work.
Lapse(s) ==
    \/ ~Attends(completer[s], s) /\ CompletionLapses(s)
    \/ ~Attends(validator[s], s) /\ ValidationLapses(s)
    \/ ~Attends(aborter[s], s) /\ TaskLapses(s)

Maintenance(s) ==
    \/ CreateMultipart(s) \/ SetAllocated(s)
    \/ PassExpiresAt(s) \/ ExpireTimedOutSession(s)
    \/ StoreCompletes(s) \/ StoreRefuses(s) \/ ReapObject(s)
    \/ QueueUnknownMultipartAbort(s)

Undisturbed ==
    \/ ExpireStaleAllocations
    \/ \E s \in Session : UserStep(s) \/ Maintenance(s) \/ Lapse(s)
    \/ \E w \in Worker : Progress(w)
    \/ \E w \in Worker, s \in Session : Claim(w, s)

Failure ==
    \/ \E s \in Session : SessionFailure(s) \/ Stall(s)
    \/ \E w \in Worker : WorkerFailure(w)

LiveInit == Init /\ failures = 0

LiveNext ==
    \/ Undisturbed /\ UNCHANGED failures
    \/ failures < MaxFailures /\ Failure /\ failures' = failures + 1

Fairness ==
    /\ \A s \in Session :
          /\ WF_liveVars(PassExpiresAt(s) /\ UNCHANGED failures)
          /\ WF_liveVars(ExpireTimedOutSession(s) /\ UNCHANGED failures)
          /\ WF_liveVars(StoreCompletes(s) /\ UNCHANGED failures)
          /\ WF_liveVars(StoreRefuses(s) /\ UNCHANGED failures)
          /\ WF_liveVars(QueueUnknownMultipartAbort(s) /\ UNCHANGED failures)
          /\ WF_liveVars(Lapse(s) /\ UNCHANGED failures)
    /\ \A w \in Worker :
          /\ WF_liveVars(Progress(w) /\ UNCHANGED failures)
          /\ \A s \in Session : WF_liveVars(Claim(w, s) /\ UNCHANGED failures)

FairSpec == LiveInit /\ [][LiveNext]_liveVars /\ Fairness

\* No upload stays under way for ever, so none blocks its project's slot: a
\* completion that nobody answers for is recovered, a validation that keeps
\* failing is given up, an abandoned upload expires.  And the multipart upload
\* of a dead session is removed in the end, also when its id was lost and no
\* abort task names it.
EveryUploadEnds ==
    \A s \in Session :
        /\ state[s] \in Active ~> state[s] \in Terminal
        /\ (state[s] \in Dead /\ multipart[s] = "open") ~> multipart[s] # "open"
=============================================================================
