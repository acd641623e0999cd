--------------------------- MODULE WorktreeClaims ---------------------------
(***************************************************************************)
(* agentstore's worktree store, on top of LeaseStore: a resource is one    *)
(* branch of one repository, and a claim has the ID of its lease.          *)
(*                                                                         *)
(* Exclusivity is the lease store's.  Once the lease layer has answered, a *)
(* second, unconditional append records the claim event that goes with it; *)
(* other events, and the end of the caller, fit between the two appends.   *)
(***************************************************************************)
EXTENDS LeaseStore

VARIABLES
    claims,          \* the projection of the worktree events
    followUp         \* per run: the claim event it has yet to append

claimVars == <<claims, followUp>>
allVars == <<vars, claimVars>>

NoClaim  == [state |-> "unused", run |-> Nothing, token |-> 0]
NoFollow == [kind |-> "none", id |-> 0, old |-> 0, run |-> Nothing, token |-> 0]

ClaimsInit ==
    /\ Init
    /\ claims = [i \in LeaseId |-> NoClaim]
    /\ followUp = [c \in Caller |-> NoFollow]

-----------------------------------------------------------------------------
(* The projection *)

LiveClaim(i) == claims[i].state = "live"

Live(e) == [state |-> "live", run |-> e.run, token |-> e.token]

\* Every event but a claim itself needs a claim to change; a renewal and a
\* handoff rewrite the fence (and the run) and leave a release as it is.
FoldClaim(e) ==
    claims' = [i \in LeaseId |->
        IF i = e.id /\ (e.kind \in {"claimed", "reclaimed"} \/ claims[i].state # "unused")
          THEN CASE e.kind \in {"claimed", "reclaimed"} -> Live(e)
                 [] e.kind = "renewed"   -> [claims[i] EXCEPT !.token = e.token]
                 [] e.kind = "released"  -> [claims[i] EXCEPT !.state = "released"]
                 [] e.kind = "handedoff" -> [claims[i] EXCEPT !.run = e.run, !.token = e.token]
        ELSE IF i = e.old /\ LiveClaim(i) THEN [claims[i] EXCEPT !.state = "released"]
        ELSE claims[i]]

-----------------------------------------------------------------------------
(* Claim, Renew, Release, Handoff *)

Free(c) == followUp[c] = NoFollow

Claim(c) == Free(c) /\ AcquireBegin(c) /\ UNCHANGED claimVars

\* Mutant: neither the claim nor an operation under way is looked at.
OnAnyLease(c) == UNCHANGED claimVars

\* The other operations look the claim up first; without one, or with a
\* released one, they end there.
OnLiveClaim(c) == Free(c) /\ LiveClaim(call'[c].id) /\ UNCHANGED claimVars

Renew(c) == RenewBegin(c) /\ OnLiveClaim(c)
Release(c) == ReleaseBegin(c) /\ OnLiveClaim(c)
Handoff(c) == TransferBegin(c) /\ OnLiveClaim(c)

\* The claim event that goes with the lease event e.
Following(e) ==
    [kind |-> CASE e.kind = "acquired"    -> "claimed"
                [] e.kind = "transferred" -> "handedoff"
                [] e.kind \notin {"acquired", "transferred"} -> e.kind,
     id |-> e.id, old |-> e.old, run |-> e.lease.holder, token |-> e.lease.token]

Follows(c, e) == followUp' = [followUp EXCEPT ![c] = Following(e)] /\ UNCHANGED claims

\* The lease layer at work; its refusals and failures end the operation.
LeaseWorks(c) ==
    /\ \/ ReadHead(c) \/ AcquireDecides(c) \/ HolderDecides(c) \/ Raced(c)
       \/ AcquireConflict(c) \/ FenceRefuses(c) \/ GiveUp(c) \/ Fails(c)
    /\ UNCHANGED claimVars

LeaseGranted(c) == Commit(c) /\ Follows(c, call[c].event)

\* Mutant: a refused release records the release of the claim.
LeaseGoneOrRefused(c) ==
    /\ ReleasedAlready(c) \/ (FenceRefuses(c) /\ call[c].op = "release")
    /\ Follows(c, [NoEvent EXCEPT !.kind = "released", !.id = call[c].id])

\* Releasing a lease that has ended already is a success too.
LeaseGone(c) ==
    /\ ReleasedAlready(c)
    /\ Follows(c, [NoEvent EXCEPT !.kind = "released", !.id = call[c].id])

\* appendWithRetry: the event takes whatever slot is next.
FollowUp(c) ==
    /\ ~Free(c)
    /\ FoldClaim(followUp[c])
    /\ followUp' = [followUp EXCEPT ![c] = NoFollow]
    /\ fresh' = {} /\ ghosts' = {}
    /\ UNCHANGED <<leases, current, call, grant>>

\* The process ends between the two appends, or the second one fails.
FollowUpLost(c) ==
    /\ ~Free(c)
    /\ followUp' = [followUp EXCEPT ![c] = NoFollow]
    /\ UNCHANGED <<vars, claims>>

Elsewhere == (GhostLands \/ OtherAppend \/ Tick) /\ UNCHANGED claimVars

ClaimsNext ==
    \/ \E c \in Caller :
          \/ Claim(c) \/ Renew(c) \/ Release(c) \/ Handoff(c)
          \/ LeaseWorks(c) \/ LeaseGranted(c) \/ LeaseGone(c)
          \/ FollowUp(c) \/ FollowUpLost(c)
    \/ Elsewhere

ClaimsSpec == ClaimsInit /\ [][ClaimsNext]_allVars

(***************************************************************************)
(* Fairness, for the promise that an abandoned branch is not lost: time    *)
(* passes, and some run keeps claiming it, is not stopped every time and   *)
(* does not lose every race.  The other runs may do anything.              *)
(***************************************************************************)
Acquiring(c) == call[c].op = "acquire"

Persistence(c) ==
    /\ WF_allVars(CallStep(c) /\ LeaseWorks(c))
    /\ WF_allVars(LeaseGranted(c) \/ LeaseGone(c))
    /\ WF_allVars(FollowUp(c))
    /\ SF_allVars(Claim(c))
    /\ SF_allVars(ReadHead(c) /\ Acquiring(c) /\ UNCHANGED claimVars)
    /\ SF_allVars(AcquireDecides(c) /\ c \in fresh /\ UNCHANGED claimVars)
    /\ SF_allVars(LeaseGranted(c) /\ Acquiring(c))

PersistentSpec ==
    ClaimsSpec /\ WF_allVars(Tick /\ UNCHANGED claimVars) /\ \E c \in Caller : Persistence(c)
-----------------------------------------------------------------------------
(* Properties *)

ClaimsTypeOK ==
    /\ TypeOK
    /\ \A i \in LeaseId :
          /\ claims[i].state \in {"unused", "live", "released"}
          /\ claims[i].token \in 0..MaxTransfers
          /\ claims[i].state # "unused" => claims[i].run \in Run /\ Exists(i)
    /\ \A c \in Caller : ~Free(c) => followUp[c].id \in LeaseId /\ At(c, "idle")

(* A claim that is shown as released is over: its lease has ended and no   *)
(* run relies on it, however late its other events were recorded.          *)
ReleasedClaimIsOver ==
    \A i \in LeaseId : claims[i].state = "released" => ~Held(i) /\ ~Relies(i)

(* agent-coordination abandoned-run-is-resumable: a lease whose deadline   *)
(* has passed does not keep its resource from a run that keeps asking,     *)
(* although an append by anybody makes it start over.                      *)
ExpiredIsReclaimed ==
    \A i \in LeaseId :
        (Held(i) /\ Expired(leases[i]) /\ Unused # {}) ~> ~(Held(i) /\ Expired(leases[i]))

-----------------------------------------------------------------------------
(* What the comments of the code say and TLC refutes.                      *)

(* worktreeReclaimedPayload: List(ActiveOnly) never shows the abandoned    *)
(* and the reclaiming claim of a branch as live at once.                   *)
OneLiveClaimPerBranch ==
    \A i, j \in LeaseId :
        (LiveClaim(i) /\ LiveClaim(j) /\ leases[i].resource = leases[j].resource) => i = j
=============================================================================
