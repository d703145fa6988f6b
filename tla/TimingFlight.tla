---------------------------- MODULE TimingFlight ----------------------------
(***************************************************************************)
(* How the coordinator answers a request for a task's timing from its cache *)
(* or from a transcription that is under way, which the requests for the     *)
(* same task, capability and audio share: the body of transcribe around      *)
(* run_job, cached_timing, lookup and the first stage of draft               *)
(* (l0_draft_engine/coordinator.py), with clients that hang up, timeouts,    *)
(* and crashes and restarts of the coordinator.  What happens in run_job is *)
(* the business of SwarmJobs; here it ends, well or badly.                  *)
(***************************************************************************)
EXTENDS TimingCache

CONSTANTS
  Uploads,     (* the requests that are POST /v1/transcribe; the others are
                  lookups and drafts                                        *)
  Nobody

VARIABLES
  pc,          (* where each request is                                     *)
  flights,     (* timing_flights: by key, the request that leads            *)
  outcome,     (* TimingFlight.result of the flight a request leads         *)
  joined,      (* the flight a request waits for, by its leader             *)
  answer,      (* the response: whose timing, or why not                    *)
  strict       (* require_current_release of this process                   *)

vars == <<cacheVars, pc, flights, outcome, joined, answer, strict>>

Places == {"idle", "uploading", "leading", "waiting", "done"}
Refusals == {"none", "conflict", "missing", "failed"}

ASSUME FlightAssumption ==
  /\ Uploads \subseteq Requests
  /\ Nobody \notin Requests
  /\ Refusals \cap Requests = {}

TypeOK ==
  /\ CacheTypeOK
  /\ pc \in [Requests -> Places]
  /\ flights \in [Keys -> Requests \cup {Nobody}]
  /\ outcome \in [Requests -> {"pending", "failed", "timed"}]
  /\ joined \in [Requests -> Requests \cup {Nobody}]
  /\ answer \in [Requests -> Requests \cup Refusals]
  /\ strict \in BOOLEAN

Init ==
  /\ CacheInit
  /\ pc = [r \in Requests |-> "idle"]
  /\ flights = [k \in Keys |-> Nobody]
  /\ outcome = [r \in Requests |-> "pending"]
  /\ joined = [r \in Requests |-> Nobody]
  /\ answer = [r \in Requests |-> "none"]
  /\ strict \in BOOLEAN

Goto(r, from, to) == pc[r] = from /\ pc' = [pc EXCEPT ![r] = to]

Reply(r, from, a) == Goto(r, from, "done") /\ answer' = [answer EXCEPT ![r] = a]

----------------------------------------------------------------------------
(* transcribe: the body is read and hashed, then everything up to the next   *)
(* wait is decided at once.                                                *)

Upload(r) ==
  /\ r \in Uploads
  /\ Goto(r, "idle", "uploading")
  /\ UNCHANGED <<cacheVars, flights, outcome, joined, answer, strict>>

Reuse(r) ==
  /\ HeldFor(Key(r), InputOf[r])
  /\ Reply(r, "uploading", files[Key(r)].by)
  /\ Touch(Key(r))
  /\ UNCHANGED <<orphans, flights, outcome, joined, strict>>

Underway(r) == flights[Key(r)] # Nobody
SameInput(r) == InputOf[flights[Key(r)]] = InputOf[r]

Conflict(r) ==
  /\ \/ Held(Key(r)) /\ ~HeldFor(Key(r), InputOf[r])
     \/ ~Held(Key(r)) /\ Underway(r) /\ ~SameInput(r)
  /\ Reply(r, "uploading", "conflict")
  /\ Forget(Key(r))
  /\ UNCHANGED <<orphans, flights, outcome, joined, strict>>

(* Mutant: whoever asks for the same task and capability shares the flight. *)
JoinAny(r) ==
  /\ ~Held(Key(r)) /\ Underway(r)
  /\ Goto(r, "uploading", "waiting")
  /\ joined' = [joined EXCEPT ![r] = flights[Key(r)]]
  /\ Forget(Key(r))
  /\ UNCHANGED <<orphans, flights, outcome, answer, strict>>

Join(r) ==
  /\ ~Held(Key(r)) /\ Underway(r) /\ SameInput(r)
  /\ Goto(r, "uploading", "waiting")
  /\ joined' = [joined EXCEPT ![r] = flights[Key(r)]]
  /\ Forget(Key(r))
  /\ UNCHANGED <<orphans, flights, outcome, answer, strict>>

(* Mutant: only a record of the same input keeps one from leading.          *)
LeadUnlessReused(r) ==
  /\ ~HeldFor(Key(r), InputOf[r]) /\ ~Underway(r)
  /\ Goto(r, "uploading", "leading")
  /\ flights' = [flights EXCEPT ![Key(r)] = r]
  /\ Forget(Key(r))
  /\ UNCHANGED <<orphans, outcome, joined, answer, strict>>

(* Mutant: a second request for the timing leads beside the first.          *)
LeadBeside(r) ==
  /\ ~Held(Key(r))
  /\ Goto(r, "uploading", "leading")
  /\ flights' = [flights EXCEPT ![Key(r)] = r]
  /\ Forget(Key(r))
  /\ UNCHANGED <<orphans, outcome, joined, answer, strict>>

Lead(r) ==
  /\ ~Held(Key(r)) /\ ~Underway(r)
  /\ Goto(r, "uploading", "leading")
  /\ flights' = [flights EXCEPT ![Key(r)] = r]
  /\ Forget(Key(r))
  /\ UNCHANGED <<orphans, outcome, joined, answer, strict>>

Settle(r, how) ==
  /\ outcome' = [outcome EXCEPT ![r] = IF @ = "pending" THEN how ELSE @]
  /\ flights' = [flights EXCEPT ![Key(r)] = Nobody]

(* _validated_result: an enforced release takes no timing without labels.    *)
Allowed(labelled) == strict => labelled

(* Mutant: the flight is settled although the record is not stored.         *)
SucceedUnstored(r) ==
  /\ Reply(r, "leading", r)
  /\ Settle(r, "timed")
  /\ \E labelled \in BOOLEAN :
       Allowed(labelled) /\ IF Fits(r) THEN Put(r, labelled) ELSE UNCHANGED <<files, byUse>>
  /\ UNCHANGED <<orphans, joined, strict>>

Succeed(r) ==
  /\ Reply(r, "leading", r)
  /\ Fits(r)
  /\ \E labelled \in BOOLEAN : Allowed(labelled) /\ Put(r, labelled)
  /\ Settle(r, "timed")
  /\ UNCHANGED <<orphans, joined, strict>>

(* Mutant: the flight is taken off the table, and its future forgotten.     *)
FailUnsettled(r) ==
  /\ Reply(r, "leading", "failed")
  /\ flights' = [flights EXCEPT ![Key(r)] = Nobody]
  /\ UNCHANGED <<cacheVars, outcome, joined, strict>>

(* run_job answers otherwise, put raises, or the leader's client hangs up.   *)
Fail(r) ==
  /\ Reply(r, "leading", "failed")
  /\ Settle(r, "failed")
  /\ UNCHANGED <<cacheVars, joined, strict>>

----------------------------------------------------------------------------
(* cached_timing, for lookup and draft.                                    *)

Usable(k) == Held(k) /\ Allowed(files[k].labelled)

FindCached(r) ==
  /\ r \notin Uploads
  /\ Usable(Key(r))
  /\ Reply(r, "idle", files[Key(r)].by)
  /\ Touch(Key(r))
  /\ UNCHANGED <<orphans, flights, outcome, joined, strict>>

(* get has touched a record that validation then turns down.                *)
FindNothing(r) ==
  /\ r \notin Uploads
  /\ Reply(r, "idle", "missing")
  /\ \/ Held(Key(r)) /\ ~Usable(Key(r)) /\ Touch(Key(r))
     \/ ~Held(Key(r)) /\ ~Underway(r) /\ Forget(Key(r))
  /\ UNCHANGED <<orphans, flights, outcome, joined, strict>>

FindFlight(r) ==
  /\ r \notin Uploads
  /\ ~Held(Key(r)) /\ Underway(r)
  /\ Goto(r, "idle", "waiting")
  /\ joined' = [joined EXCEPT ![r] = flights[Key(r)]]
  /\ Forget(Key(r))
  /\ UNCHANGED <<orphans, flights, outcome, answer, strict>>

----------------------------------------------------------------------------

(* Mutant: who wakes looks the flight up again.                             *)
WakeByTable(r) ==
  /\ pc[r] = "waiting" /\ outcome[joined[r]] # "pending"
  /\ Reply(r, "waiting",
           IF outcome[joined[r]] = "timed" THEN flights[Key(r)]
           ELSE IF r \in Uploads THEN "failed" ELSE "missing")
  /\ UNCHANGED <<cacheVars, flights, outcome, joined, strict>>

(* A request that waits for a flight is woken with its outcome.             *)
Wake(r) ==
  /\ pc[r] = "waiting" /\ outcome[joined[r]] # "pending"
  /\ Reply(r, "waiting",
           IF outcome[joined[r]] = "timed" THEN joined[r]
           ELSE IF r \in Uploads THEN "failed" ELSE "missing")
  /\ UNCHANGED <<cacheVars, flights, outcome, joined, strict>>

(* Mutant: without the shield, the timeout cancels the flight's future.      *)
GiveUpUnshielded(r) ==
  /\ Reply(r, "waiting", "failed")
  /\ outcome' = [outcome EXCEPT ![joined[r]] = "failed"]
  /\ UNCHANGED <<cacheVars, flights, joined, strict>>

(* Its deadline passes, or its client hangs up; the flight is shielded.      *)
GiveUp(r) ==
  /\ Reply(r, "waiting", "failed")
  /\ UNCHANGED <<cacheVars, flights, outcome, joined, strict>>

(* A body that is refused or never ends well.                              *)
Reject(r) ==
  /\ Reply(r, "uploading", "failed")
  /\ UNCHANGED <<cacheVars, flights, outcome, joined, strict>>

(* The process dies, in the middle of a put or not, and starts again, maybe *)
(* with another setting and another release: everything in memory is gone,  *)
(* and __init__ rotates the directory.                                     *)
Restart ==
  /\ \E deployed \in BOOLEAN :
       \/ /\ Rotate(Aged(files, deployed), byUse)
          /\ UNCHANGED orphans
       \/ /\ \E r \in Requests : pc[r] = "leading" /\ Fits(r) /\ orphans' = orphans \cup {r}
          /\ Rotate(Aged(files, deployed), byUse)
       \/ /\ \E r \in Requests, labelled \in BOOLEAN :
               /\ pc[r] = "leading" /\ Fits(r) /\ Allowed(labelled)
               /\ Rotate(Aged(Replaced(r, labelled), deployed), LastUsed(Key(r)))
          /\ UNCHANGED orphans
  /\ strict' \in BOOLEAN
  /\ pc' = [r \in Requests |-> IF pc[r] = "idle" THEN "idle" ELSE "done"]
  /\ flights' = [k \in Keys |-> Nobody]
  /\ UNCHANGED <<outcome, joined, answer>>

Step(r) ==
  \/ Upload(r) \/ Reject(r)
  \/ Reuse(r) \/ Conflict(r) \/ Join(r) \/ Lead(r)
  \/ Succeed(r) \/ Fail(r)
  \/ FindCached(r) \/ FindNothing(r) \/ FindFlight(r)
  \/ Wake(r) \/ GiveUp(r)

Next ==
  \/ \E r \in Requests : Step(r)
  \/ Restart

Spec == Init /\ [][Next]_vars

LeaderEnds == \E r \in Requests : Fail(r) \/ Succeed(r)
WaiterWakes == \E r \in Requests : Wake(r)

(* run_job ends by its deadline, and the event loop wakes who is ready; as    *)
(* no request comes twice, one condition for all of them will do.  Nothing   *)
(* is assumed of the waiting requests' own timeouts.                       *)
FairSpec == Spec /\ WF_vars(LeaderEnds) /\ WF_vars(WaiterWakes)

----------------------------------------------------------------------------
(* Properties.                                                             *)

Given(r) == answer[r] \in Requests

(* Timing is private to the task and the capability it was made for, and an *)
(* upload never gets the timing of other audio: through the cache, through   *)
(* a flight, across evictions and restarts.                                *)
OwnTimingOnly ==
  \A r \in Requests : Given(r) =>
    /\ TaskOf[answer[r]] = TaskOf[r]
    /\ TokenOf[answer[r]] = TokenOf[r]
    /\ r \in Uploads => InputOf[answer[r]] = InputOf[r]

(* The GPUs work once: no two requests lead for the same task and           *)
(* capability, nor does one while the cache has the timing.                *)
WorkedOnce ==
  \A r \in Requests : pc[r] = "leading" =>
    /\ Key(r) \notin DOMAIN files
    /\ \A q \in Requests \ {r} : pc[q] = "leading" => Key(q) # Key(r)

(* Who waits, waits for somebody who still works, or for the time it takes   *)
(* to be woken: no flight is taken off the table without an outcome.        *)
WaitersHaveLeaders ==
  \A r \in Requests : pc[r] = "waiting" =>
    joined[r] # Nobody /\ (outcome[joined[r]] = "pending" => pc[joined[r]] = "leading")

(* A client that leaves takes nothing from the others: the future of a       *)
(* flight is pending as long as its leader works.                          *)
LeadersDecide ==
  \A r \in Requests : pc[r] = "leading" => outcome[r] = "pending"

(* A key's work has one leader, who alone ends what the others wait for.     *)
FlightsHaveLeaders == WorkedOnce /\ WaitersHaveLeaders /\ LeadersDecide

(* A task's timing does not change under a capability: a record gives way to *)
(* none but its removal, whether by rotation or with its release.           *)
CachedIsFinal ==
  [][\A k \in DOMAIN files \cap DOMAIN files' : files'[k].by = files[k].by]_vars

(* What a flight hands out is on disk by then, where a later request and a   *)
(* restarted coordinator find it.                                          *)
HandedOutIsStored ==
  [][\A r \in Requests : outcome[r] = "pending" /\ outcome'[r] = "timed" =>
       Key(r) \in DOMAIN files' /\ files'[Key(r)].by = r]_vars

(* README.md on POST /v1/timing/lookup: it "returns cached timing (404 for a *)
(* missing or unauthorized task)"; so it finds what the cache has.           *)
CachedIsFound ==
  [][\A r \in Requests : pc[r] = "idle" /\ answer'[r] = "missing" =>
       Key(r) \notin DOMAIN files']_vars

(* Everybody who waits for a flight is answered, even without a timeout: as  *)
(* each request waits at most once, there is an end to all waiting.         *)
WaitersAnswered == <>[](\A r \in Requests : pc[r] # "waiting")

=============================================================================
