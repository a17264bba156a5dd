----------------------------- MODULE BatchPrefetch -----------------------------
(***************************************************************************)
(* scripts/run_librarian_prefetch.py: the Librarian's prompts that are not *)
(* yet in the disk replay cache are bought from the vendor in batches, at  *)
(* half price, and written into the cache that the live run replays.       *)
(*                                                                         *)
(* A batch is billed when the vendor creates it.  The script notes its id  *)
(* in a ledger file (open_batches.json), polls it until it has ended and   *)
(* stores its succeeded results; --resume starts by collecting what the    *)
(* ledger still calls open.  One invocation runs at a time; it may crash   *)
(* at any point, also half way through rewriting the ledger.               *)
(***************************************************************************)
EXTENDS Naturals, FiniteSets

CONSTANTS
    Keys,             \* the custom_ids: one per batchable prompt and model
    JobSets,          \* the sets of keys an invocation's --set/--t5 may ask for
    MaxBatches,       \* bound: batches created in a behaviour
    ChunkSize,        \* _MAX_BATCH_REQUESTS, the requests one batch may hold
    RetrieveMayFail,  \* whether the vendor's retrieve/results calls may raise
    None, Live        \* an empty cache slot; a response bought by the live run

Batches == 1 .. MaxBatches

ASSUME PrefetchAssumption ==
    /\ JobSets \subseteq SUBSET Keys
    /\ MaxBatches \in Nat /\ ChunkSize \in Nat \ {0}
    /\ RetrieveMayFail \in BOOLEAN
    /\ None \notin Batches /\ Live \notin Batches /\ None # Live

VARIABLES
    \* On disk.
    cache,       \* cache[k]: None, Live, or the batch whose response is stored
    ledger,      \* ledger[b]: "absent", "open" or "collected"
    readable,    \* whether open_batches.json parses
    sidecar,     \* prefetch_manifest.json: the batches it lists, the results
                 \* (batch and key) whose tokens it counts
    \* At the vendor.
    asked,       \* asked[b]: the keys of batch b, {} before it is created
    ended,       \* the batches that have finished processing
    succeeded,   \* succeeded[b]: the keys of b that have a response
    \* In the running invocation.
    pc,          \* the step it is about to take; "idle": no invocation
    resuming,    \* args.resume
    planned,     \* by_id: the keys it considers missing
    toResume,    \* open batches it has still to collect
    todo,        \* planned keys it has still to submit
    batch,       \* the batch at hand
    caller,      \* the loop that asked for it: "resume" or "submit"
    left,        \* results of that batch it has still to look at
    skipped,     \* resumed batches it has reported as "left open"
    listed,      \* outcome["batch_ids"]
    counted      \* outcome["tokens"]: the results it has counted

disk == <<cache, ledger, readable, sidecar>>
vendor == <<asked, ended, succeeded>>
plan == <<resuming, planned>>
outcome == <<listed, counted>>
work == <<toResume, todo, batch, caller, left, skipped>>
vars == <<disk, vendor, pc, plan, work, outcome>>

Steps == {"resume", "submit", "record", "poll", "collect", "sidecar"}

NoSidecar == [batches |-> {}, tokens |-> {}]

Missing(keys) == {k \in keys : cache[k] = None}

OpenBatches == {b \in Batches : ledger[b] = "open"}

Uncreated == {b \in Batches : asked[b] = {}}

Earliest(bs) == CHOOSE b \in bs : \A c \in bs : b <= c

Init ==
    /\ cache = [k \in Keys |-> None]
    /\ ledger = [b \in Batches |-> "absent"]
    /\ readable = TRUE
    /\ sidecar = NoSidecar
    /\ asked = [b \in Batches |-> {}]
    /\ ended = {}
    /\ succeeded = [b \in Batches |-> {}]
    /\ pc = "idle"
    /\ resuming = FALSE
    /\ planned = {} /\ toResume = {} /\ todo = {}
    /\ batch = None /\ caller = "submit" /\ left = {} /\ skipped = {}
    /\ listed = {} /\ counted = {}

(* The process ends and takes its memory with it.                          *)
Exit ==
    /\ pc' = "idle"
    /\ resuming' = FALSE
    /\ planned' = {} /\ toResume' = {} /\ todo' = {}
    /\ batch' = None /\ caller' = "submit" /\ left' = {} /\ skipped' = {}
    /\ listed' = {} /\ counted' = {}

-------------------------------------------------------------------------------
(* One invocation.                                                         *)

(* build_plan, then the branch on --resume.  An invocation that has        *)
(* nothing to do, or whose --resume cannot parse the ledger, changes       *)
(* nothing and is no step.  The last guard is MaxBatches: an invocation    *)
(* starts only if the batches it may need are left.                        *)
Start(keys, flag) ==
    /\ pc = "idle"
    /\ flag => readable
    /\ Missing(keys) # {} \/ (flag /\ OpenBatches # {})
    /\ planned' = Missing(keys)
    /\ todo' = Missing(keys)
    /\ resuming' = flag
    /\ toResume' = IF flag THEN OpenBatches ELSE {}
    /\ listed' = toResume'
    /\ counted' = {}
    /\ pc' = IF toResume' # {} THEN "resume" ELSE "submit"
    /\ Cardinality(Missing(keys)) <= Cardinality(Uncreated)
    /\ UNCHANGED <<disk, vendor, batch, caller, left, skipped>>

\* A wrong ResumeNext that turns to submitting after the first open batch.
ResumeNextOnlyOne ==
    /\ pc = "resume"
    /\ toResume # {}
    /\ batch' = Earliest(toResume)
    /\ toResume' = {}
    /\ caller' = "resume"
    /\ pc' = "poll"
    /\ UNCHANGED <<disk, vendor, plan, todo, left, skipped, outcome>>

(* The open batches are collected in the order of the ledger.              *)
ResumeNext ==
    /\ pc = "resume"
    /\ toResume # {}
    /\ batch' = Earliest(toResume)
    /\ toResume' = toResume \ {batch'}
    /\ caller' = "resume"
    /\ pc' = "poll"
    /\ UNCHANGED <<disk, vendor, plan, todo, left, skipped, outcome>>

\* A wrong ResumeDone: the collected keys leave by_id, not the chunks.
ResumeDoneStaleTodo ==
    /\ pc = "resume"
    /\ toResume = {}
    /\ planned' = Missing(planned)
    /\ pc' = "submit"
    /\ UNCHANGED <<disk, vendor, resuming, work, outcome>>

(* Whatever the open batches filled is no longer a miss.                   *)
ResumeDone ==
    /\ pc = "resume"
    /\ toResume = {}
    /\ planned' = Missing(planned)
    /\ todo' = Missing(planned)
    /\ pc' = "submit"
    /\ UNCHANGED <<disk, vendor, resuming, toResume, batch, caller, left, skipped,
                   outcome>>

(* The vendor creates, and bills, a batch of the next chunk of requests,   *)
(* which the caps on requests and on bytes bound.                          *)
CreateBatch ==
    /\ pc = "submit"
    /\ Uncreated # {}
    /\ LET b == Earliest(Uncreated) IN
         \E chunk \in (SUBSET todo) \ {{}} :
            /\ Cardinality(chunk) <= ChunkSize
            /\ asked' = [asked EXCEPT ![b] = chunk]
            /\ todo' = todo \ chunk
            /\ batch' = b
            /\ listed' = listed \cup {b}
    /\ caller' = "submit"
    /\ pc' = "record"
    /\ UNCHANGED <<disk, ended, succeeded, plan, toResume, left, skipped, counted>>

(* _record_batch reads the whole ledger and writes it again.               *)
RecordOpen ==
    /\ pc = "record"
    /\ readable
    /\ ledger' = [ledger EXCEPT ![batch] = "open"]
    /\ pc' = "poll"
    /\ UNCHANGED <<cache, readable, sidecar, vendor, plan, work, outcome>>

(* The ledger that an earlier crash left does not parse: the invocation    *)
(* dies with a billed batch it has told nobody about.                      *)
RecordFails ==
    /\ pc = "record"
    /\ ~readable
    /\ Exit
    /\ UNCHANGED <<disk, vendor>>

\* A wrong poll that waits for every request of the batch to succeed.
PollAllSucceeded ==
    /\ pc = "poll"
    /\ batch \in ended
    /\ succeeded[batch] = asked[batch]
    /\ left' = asked[batch]
    /\ pc' = "collect"
    /\ UNCHANGED <<disk, vendor, plan, toResume, todo, batch, caller, skipped, outcome>>

(* The poll loop of collect_batch has seen the batch end.                  *)
PollEnded ==
    /\ pc = "poll"
    /\ batch \in ended
    /\ left' = asked[batch]
    /\ pc' = "collect"
    /\ UNCHANGED <<disk, vendor, plan, toResume, todo, batch, caller, skipped, outcome>>

(* One entry of the results.  A key outside the plan is skipped, an entry  *)
(* that did not succeed is only counted as such, and the cache keeps the   *)
(* response it has.                                                        *)
CollectEntry(k) ==
    /\ pc = "collect"
    /\ k \in left
    /\ left' = left \ {k}
    /\ IF k \in planned \cap succeeded[batch]
       THEN /\ cache' = [cache EXCEPT ![k] = IF @ = None THEN batch ELSE @]
            /\ counted' = counted \cup {<<batch, k>>}
       ELSE UNCHANGED <<cache, counted>>
    /\ UNCHANGED <<ledger, readable, sidecar, vendor, pc, plan, toResume, todo,
                   batch, caller, skipped, listed>>

\* A wrong CollectDone that closes the batch before its results are stored.
CollectDoneEarly ==
    /\ pc = "collect"
    /\ ledger' = [ledger EXCEPT ![batch] = "collected"]
    /\ pc' = IF left = {} THEN caller ELSE "collect"
    /\ UNCHANGED <<cache, readable, sidecar, vendor, plan, work, outcome>>

CollectDone ==
    /\ pc = "collect"
    /\ left = {}
    /\ readable
    /\ ledger' = [ledger EXCEPT ![batch] = "collected"]
    /\ pc' = caller
    /\ UNCHANGED <<cache, readable, sidecar, vendor, plan, work, outcome>>

(* The vendor's retrieve or results call raises.  A resumed batch is left  *)
(* open and the next one is tried; a batch just submitted takes the        *)
(* invocation with it.                                                     *)
RetrieveFails ==
    /\ RetrieveMayFail
    /\ pc \in {"poll", "collect"}
    /\ IF caller = "submit" THEN Exit
       ELSE /\ skipped' = skipped \cup {batch}
            /\ pc' = "resume"
            /\ left' = {}
            /\ UNCHANGED <<plan, toResume, todo, batch, caller, outcome>>
    /\ UNCHANGED <<disk, vendor>>

SubmitDone ==
    /\ pc = "submit"
    /\ todo = {}
    /\ pc' = "sidecar"
    /\ UNCHANGED <<disk, vendor, plan, work, outcome>>

(* The resumed and the submitted outcomes, folded, are the spend record.   *)
WriteSidecar ==
    /\ pc = "sidecar"
    /\ sidecar' = [batches |-> listed, tokens |-> counted]
    /\ Exit
    /\ UNCHANGED <<cache, ledger, readable, vendor>>

-------------------------------------------------------------------------------
(* Crashes, the vendor and the live run.                                   *)

Crash ==
    /\ pc # "idle"
    /\ Exit
    /\ UNCHANGED <<disk, vendor>>

(* write_text truncates the ledger before it fills it.                     *)
CrashInLedgerWrite ==
    /\ pc = "record" \/ (pc = "collect" /\ left = {})
    /\ readable
    /\ readable' = FALSE
    /\ Exit
    /\ UNCHANGED <<cache, ledger, sidecar, vendor>>

CrashInSidecarWrite ==
    /\ pc = "sidecar"
    /\ sidecar' = NoSidecar
    /\ Exit
    /\ UNCHANGED <<cache, ledger, readable, vendor>>

(* The vendor finishes a batch; requests may have erred or expired.  It    *)
(* does so in its own time, which only a poll can observe: an end that     *)
(* nobody polls for is put off to the next poll.                           *)
EndBatch(b) ==
    /\ pc = "poll" /\ batch = b
    /\ b \notin ended
    /\ ended' = ended \cup {b}
    /\ \E ks \in SUBSET asked[b] : succeeded' = [succeeded EXCEPT ![b] = ks]
    /\ UNCHANGED <<disk, asked, pc, plan, work, outcome>>

(* The live run buys what it misses, at any time.                          *)
LiveFill(k) ==
    /\ cache[k] = None
    /\ cache' = [cache EXCEPT ![k] = Live]
    /\ UNCHANGED <<ledger, readable, sidecar, vendor, pc, plan, work, outcome>>

Advance ==
    \/ ResumeNext \/ ResumeDone \/ CreateBatch \/ RecordOpen \/ RecordFails
    \/ PollEnded \/ (\E k \in Keys : CollectEntry(k)) \/ CollectDone
    \/ SubmitDone \/ WriteSidecar

Next ==
    \/ \E keys \in JobSets, flag \in BOOLEAN : Start(keys, flag)
    \/ Advance
    \/ RetrieveFails \/ Crash \/ CrashInLedgerWrite \/ CrashInSidecarWrite
    \/ \E b \in Batches : EndBatch(b)
    \/ \E k \in Keys : LiveFill(k)

Spec == Init /\ [][Next]_vars

(* A running invocation goes on, and the vendor ends every batch (within a *)
(* day, by its terms).  Nobody has to start another invocation.            *)
Fairness ==
    /\ WF_vars(Advance)
    /\ \A b \in Batches : WF_vars(EndBatch(b))

FairSpec == Spec /\ Fairness

-------------------------------------------------------------------------------
(* Properties.                                                             *)

Results == Batches \X Keys

(* Type invariant.  It also says that the ledger knows no batch the vendor *)
(* has not created, and that only keys asked for have a response.          *)
TypeOK ==
    /\ cache \in [Keys -> {None, Live} \cup Batches]
    /\ ledger \in [Batches -> {"absent", "open", "collected"}]
    /\ readable \in BOOLEAN
    /\ sidecar \in [batches : SUBSET Batches, tokens : SUBSET Results]
    /\ asked \in [Batches -> SUBSET Keys]
    /\ ended \subseteq Batches
    /\ succeeded \in [Batches -> SUBSET Keys]
    /\ \A b \in Batches : succeeded[b] \subseteq asked[b]
    /\ \A b \in Uncreated : ledger[b] = "absent"
    /\ pc \in {"idle"} \cup Steps
    /\ resuming \in BOOLEAN
    /\ planned \subseteq Keys
    /\ toResume \subseteq Batches
    /\ todo \subseteq planned
    /\ batch \in {None} \cup Batches
    /\ caller \in {"resume", "submit"}
    /\ left \subseteq Keys
    /\ skipped \subseteq Batches
    /\ listed \subseteq Batches
    /\ counted \subseteq Results

(* A batch leaves the ledger's open list for good, so nothing that was     *)
(* paid for may still be in it alone: a custom_id that collect_batch skips *)
(* has "its cache entry" (run_librarian_prefetch.py:272), through crashes  *)
(* in any state and whatever the live run has filled meanwhile.            *)
CollectedIsCached ==
    \A b \in Batches : ledger[b] = "collected" =>
        \A k \in succeeded[b] : cache[k] # None

(* --resume "avoids resubmitting work an in-flight batch already billed"   *)
(* (run_librarian_prefetch.py:407): an invocation that resumes buys a key  *)
(* of a batch still open in the ledger only if it has just reported that   *)
(* batch as left open, because the vendor's calls failed.                  *)
ResubmitsOnlySkipped ==
    [][\A b \in Uncreated, c \in OpenBatches \ skipped :
          resuming => asked'[b] \cap asked[c] = {}]_vars

(* A response some batch has brought into the cache is never bought in a   *)
(* batch again, though the plan was made before older batches were         *)
(* collected.                                                              *)
NeverRebuysCached ==
    [][\A b \in Uncreated : \A k \in asked'[b] : cache[k] \notin Batches]_vars

(* An invocation ends, whatever the batches it waits for come to.          *)
RunEnds == pc # "idle" ~> pc = "idle"

===============================================================================
