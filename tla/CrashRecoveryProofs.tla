------------------------- MODULE CrashRecoveryProofs -------------------------
(***************************************************************************)
(* Proofs about the two components whose promise is one about crashes.      *)
(*                                                                         *)
(* BatchPrefetch, for every set of keys and any number of batches: its type *)
(* invariant; that no response is lost in a batch that the ledger calls     *)
(* collected, when every invocation asks for one and the same set of        *)
(* prompts; and, whatever they ask for, that nothing in the cache or in an  *)
(* open batch is bought again.                                              *)
(*                                                                         *)
(* ReporterPublish, for every set of runs and any bounds on the bundles and *)
(* the invocations: publish does what it tells its caller, and it           *)
(* implements AtomicPublication.                                            *)
(***************************************************************************)
EXTENDS BatchPrefetch, ReporterPublish, WellFoundedInduction, TLAPS

-------------------------------------------------------------------------------
(* The inductive invariants.                                               *)

\* The steps at which an invocation has a batch in its hands.
Holding == {"record", "poll", "collect"}

(* TypeOK is not inductive: that the ledger knows no batch the vendor has  *)
(* not created rests on the batch an invocation holds, and on the ones it  *)
(* is about to resume, having been created.                                *)
BatchIsCreated ==
    /\ \A b \in toResume : asked[b] # {}
    /\ pc \in Holding => batch \in Batches /\ asked[batch] # {}

TypeInv == TypeOK /\ BatchIsCreated

Wanted == UNION JobSets

\* Every invocation asks for the same prompts.
OneSet == \A s, t \in JobSets : s = t

(* What an invocation that is running has not planned is in the cache.     *)
PlanInv ==
    /\ planned \subseteq Wanted
    /\ \A b \in Batches : asked[b] \subseteq Wanted
    /\ pc # "idle" => \A k \in Wanted : k \in planned \/ cache[k] # None

(* A batch is closed when it has ended and each of its results is stored.  *)
ClosedInv ==
    /\ CollectedIsCached
    /\ \A b \in Batches : ledger[b] = "collected" => b \in ended
    /\ pc = "collect" =>
         /\ batch \in ended
         /\ \A k \in succeeded[batch] : k \in left \/ cache[k] # None

\* An invocation has begun to buy what is left to do.
Buying == pc = "submit" \/ (pc \in Holding /\ caller = "submit")

(* What an invocation is going to buy has come from no batch, and what it  *)
(* stores meanwhile is not what it is going to buy.                        *)
ToBuyInv ==
    /\ Buying => \A k \in todo : cache[k] \notin Batches
    /\ Buying /\ pc \in Holding => todo \cap asked[batch] = {}
    /\ pc = "collect" => left \subseteq asked[batch]

(* An invocation that resumes knows the open batches: those still ahead,   *)
(* the one at hand, and those it has reported as left open.                *)
OpenInv ==
    /\ pc = "record" => caller = "submit"
    /\ resuming =>
         /\ pc = "resume" => OpenBatches \subseteq skipped \cup toResume
         /\ pc = "submit" => OpenBatches \subseteq skipped
         /\ pc \in Holding => OpenBatches \subseteq
                skipped \cup {batch} \cup (IF caller = "resume" THEN toResume ELSE {})

-------------------------------------------------------------------------------
(* The operators.                                                          *)

(* There is an earliest batch among any.                                   *)
LEMMA EarliestIsOne ==
    ASSUME NEW bs \in SUBSET Batches, bs # {}
    PROVE  Earliest(bs) \in bs
<1>1. bs \subseteq Nat
  BY PrefetchAssumption DEF Batches
<1>2. PICK b \in bs : \A c \in bs : ~(<<c, b>> \in OpToRel(<, Nat))
  BY <1>1, NatLessThanWellFounded, WFMin
<1>3. ASSUME NEW c \in bs PROVE b <= c
  <2>1. b \in Nat /\ c \in Nat
    BY <1>1
  <2>2. ~(c < b)
    BY <1>2, <2>1 DEF OpToRel
  <2> QED
    BY <2>1, <2>2
<1> QED
  BY <1>3 DEF Earliest

(* The keys an invocation finds missing.                                   *)
LEMMA MissingIs ==
    ASSUME NEW keys
    PROVE  /\ Missing(keys) \subseteq keys
           /\ \A k \in keys : k \in Missing(keys) <=> cache[k] = None
BY DEF Missing

-------------------------------------------------------------------------------
(* Type correctness.                                                       *)

LEMMA TypeInvStep ==
    ASSUME TypeInv, [Next]_vars
    PROVE  TypeInv'
<1> USE DEF disk, vendor, plan, outcome, work, Steps
<1>0. TypeOK /\ BatchIsCreated
  BY DEF TypeInv
<1>1. ASSUME NEW keys \in JobSets, NEW flag \in BOOLEAN, Start(keys, flag)
      PROVE  TypeInv'
  <2>1. Missing(keys) \subseteq Keys
    BY MissingIs, PrefetchAssumption
  <2>2. toResume' \subseteq OpenBatches /\ listed' = toResume' /\ counted' = {}
    BY <1>1 DEF Start
  <2>3. \A b \in OpenBatches : b \in Batches /\ asked[b] # {}
    BY <1>0 DEF OpenBatches, TypeOK, Uncreated
  <2>4. /\ pc' \in {"resume", "submit"}
        /\ planned' = Missing(keys) /\ todo' = Missing(keys) /\ resuming' = flag
        /\ UNCHANGED <<cache, ledger, readable, sidecar, asked, ended, succeeded, batch,
                       caller, left, skipped>>
    BY <1>1 DEF Start
  <2>5. TypeOK'
    BY <1>0, <2>1, <2>2, <2>3, <2>4 DEF TypeOK, Uncreated
  <2>6. BatchIsCreated'
    BY <2>2, <2>3, <2>4 DEF BatchIsCreated, Holding
  <2> QED
    BY <2>5, <2>6 DEF TypeInv
<1>2. CASE ResumeNext
  <2>1. batch' \in toResume /\ toResume' \subseteq toResume
    BY <1>0, <1>2, EarliestIsOne DEF ResumeNext, TypeOK
  <2> QED
    BY <1>0, <1>2, <2>1 DEF ResumeNext, TypeInv, TypeOK, BatchIsCreated, Uncreated
<1>3. CASE ResumeDone
  <2>1. Missing(planned) \subseteq planned
    BY MissingIs
  <2> QED
    BY <1>0, <1>3, <2>1
       DEF ResumeDone, TypeInv, TypeOK, BatchIsCreated, Uncreated, Holding
<1>4. CASE CreateBatch
  <2> DEFINE b == Earliest(Uncreated)
  <2>1. b \in Batches /\ asked[b] = {}
    BY <1>4, EarliestIsOne DEF CreateBatch, Uncreated
  <2>2. PICK chunk \in SUBSET todo :
          /\ chunk # {}
          /\ asked' = [asked EXCEPT ![b] = chunk]
          /\ todo' = todo \ chunk
          /\ batch' = b
          /\ listed' = listed \cup {b}
    <3>1. \E chunk \in (SUBSET todo) \ {{}} :
            /\ asked' = [asked EXCEPT ![b] = chunk]
            /\ todo' = todo \ chunk
            /\ batch' = b
            /\ listed' = listed \cup {b}
      BY <1>4, Zenon DEF CreateBatch
    <3>2. \A chunk \in (SUBSET todo) \ {{}} : chunk \in SUBSET todo /\ chunk # {}
      BY Zenon
    <3> QED
      BY <3>1, <3>2, Zenon
  <2>3. /\ caller' = "submit" /\ pc' = "record"
        /\ UNCHANGED <<cache, ledger, readable, sidecar, ended, succeeded, resuming,
                       planned, toResume, left, skipped, counted>>
    BY <1>4 DEF CreateBatch
  <2> HIDE DEF b
  <2>4. chunk \subseteq Keys
    BY <1>0 DEF TypeOK
  <2>5. /\ asked' \in [Batches -> SUBSET Keys]
        /\ \A c \in Batches : asked[c] \subseteq asked'[c]
        /\ asked'[b] # {}
    BY <1>0, <2>1, <2>2, <2>4 DEF TypeOK
  <2>6. /\ \A c \in Batches : succeeded'[c] \subseteq asked'[c]
        /\ \A c \in Batches : asked'[c] = {} => ledger'[c] = "absent"
    BY <1>0, <2>3, <2>5 DEF TypeOK, Uncreated
  <2>7. TypeOK'
    BY <1>0, <2>1, <2>2, <2>3, <2>5, <2>6 DEF TypeOK, Uncreated
  <2>8. BatchIsCreated'
    BY <1>0, <2>1, <2>2, <2>3, <2>5 DEF BatchIsCreated, TypeOK, Holding
  <2> QED
    BY <2>7, <2>8 DEF TypeInv
<1>5. CASE RecordOpen
  <2>1. batch \in Batches /\ asked[batch] # {}
    BY <1>0, <1>5 DEF BatchIsCreated, RecordOpen, Holding
  <2> QED
    BY <1>0, <1>5, <2>1
       DEF RecordOpen, TypeInv, TypeOK, BatchIsCreated, Uncreated, Holding
<1>6. ASSUME Exit, UNCHANGED <<cache, asked, ended, succeeded>>,
             ledger' = ledger, readable' \in BOOLEAN,
             sidecar' \in [batches : SUBSET Batches, tokens : SUBSET Results]
      PROVE  TypeInv'
  BY <1>0, <1>6 DEF Exit, TypeInv, TypeOK, BatchIsCreated, Uncreated, Holding
<1>7. CASE RecordFails \/ Crash \/ CrashInLedgerWrite
  BY <1>0, <1>6, <1>7 DEF RecordFails, Crash, CrashInLedgerWrite, TypeOK
<1>8. CASE WriteSidecar \/ CrashInSidecarWrite
  BY <1>0, <1>6, <1>8 DEF WriteSidecar, CrashInSidecarWrite, TypeOK, NoSidecar
<1>9. CASE PollEnded
  <2>1. asked[batch] \subseteq Keys
    BY <1>0, <1>9 DEF PollEnded, BatchIsCreated, Holding, TypeOK
  <2> QED
    BY <1>0, <1>9, <2>1 DEF PollEnded, TypeInv, TypeOK, BatchIsCreated, Uncreated, Holding
<1>10. ASSUME NEW k \in Keys, CollectEntry(k) PROVE TypeInv'
  <2>1. batch \in Batches /\ <<batch, k>> \in Results
    BY <1>0, <1>10 DEF CollectEntry, BatchIsCreated, Holding, Results
  <2>2. cache' \in [Keys -> {None, Live} \cup Batches] /\ counted' \subseteq Results
    <3>1. CASE k \in planned \cap succeeded[batch]
      <4>1. /\ cache' = [cache EXCEPT ![k] = IF @ = None THEN batch ELSE @]
            /\ counted' = counted \cup {<<batch, k>>}
        BY <1>10, <3>1 DEF CollectEntry
      <4> QED
        BY <1>0, <2>1, <4>1 DEF TypeOK
    <3>2. CASE k \notin planned \cap succeeded[batch]
      BY <1>0, <1>10, <3>2 DEF CollectEntry, TypeOK
    <3> QED
      BY <3>1, <3>2
  <2> QED
    BY <1>0, <1>10, <2>2
       DEF CollectEntry, TypeInv, TypeOK, BatchIsCreated, Uncreated, Holding
<1>11. CASE CollectDone
  <2>1. batch \in Batches /\ asked[batch] # {} /\ caller \in {"resume", "submit"}
    BY <1>0, <1>11 DEF BatchIsCreated, CollectDone, Holding, TypeOK
  <2> QED
    BY <1>0, <1>11, <2>1
       DEF CollectDone, TypeInv, TypeOK, BatchIsCreated, Uncreated, Holding
<1>12. CASE RetrieveFails
  <2>1. CASE caller = "submit"
    BY <1>0, <1>6, <1>12, <2>1 DEF RetrieveFails, TypeOK
  <2>2. CASE caller # "submit"
    BY <1>0, <1>12, <2>2
       DEF RetrieveFails, TypeInv, TypeOK, BatchIsCreated, Uncreated, Holding
  <2> QED
    BY <2>1, <2>2
<1>13. CASE SubmitDone
  BY <1>0, <1>13 DEF SubmitDone, TypeInv, TypeOK, BatchIsCreated, Uncreated, Holding
<1>14. ASSUME NEW b \in Batches, EndBatch(b) PROVE TypeInv'
  <2>1. PICK ks \in SUBSET asked[b] : succeeded' = [succeeded EXCEPT ![b] = ks]
    BY <1>14 DEF EndBatch
  <2>2. /\ ended' = ended \cup {b}
        /\ UNCHANGED <<disk, asked, pc, plan, work, outcome>>
    BY <1>14 DEF EndBatch
  <2>3. /\ succeeded' \in [Batches -> SUBSET Keys]
        /\ \A c \in Batches : succeeded'[c] \subseteq asked[c]
    BY <1>0, <2>1 DEF TypeOK
  <2> QED
    BY <1>0, <2>2, <2>3 DEF TypeInv, TypeOK, BatchIsCreated, Uncreated
<1>15. ASSUME NEW k \in Keys, LiveFill(k) PROVE TypeInv'
  BY <1>0, <1>15 DEF LiveFill, TypeInv, TypeOK, BatchIsCreated, Uncreated
<1>16. CASE UNCHANGED vars
  BY <1>0, <1>16 DEF vars, TypeInv, TypeOK, BatchIsCreated, Uncreated
<1> QED
  BY <1>1, <1>2, <1>3, <1>4, <1>5, <1>7, <1>8, <1>9, <1>10, <1>11, <1>12, <1>13,
     <1>14, <1>15, <1>16 DEF Next, Advance

(* TypeOK of BatchPrefetch, with what makes it inductive, is an invariant. *)
THEOREM TypeCorrect == Spec => []TypeInv
<1>1. Init => TypeInv
  <2> SUFFICES ASSUME Init PROVE TypeInv
    OBVIOUS
  <2>1. /\ cache \in [Keys -> {None, Live} \cup Batches]
        /\ ledger \in [Batches -> {"absent", "open", "collected"}]
        /\ \A b \in Batches : ledger[b] = "absent"
    BY DEF Init
  <2>2. /\ asked \in [Batches -> SUBSET Keys]
        /\ succeeded \in [Batches -> SUBSET Keys]
        /\ \A b \in Batches : succeeded[b] \subseteq asked[b]
    BY DEF Init
  <2>3. sidecar \in [batches : SUBSET Batches, tokens : SUBSET Results]
    BY DEF Init, NoSidecar
  <2>4. TypeOK
    BY <2>1, <2>2, <2>3 DEF Init, TypeOK, Uncreated
  <2>5. BatchIsCreated
    BY DEF Init, BatchIsCreated, Holding
  <2> QED
    BY <2>4, <2>5 DEF TypeInv
<1>2. TypeInv /\ [Next]_vars => TypeInv'
  BY TypeInvStep
<1> QED
  BY <1>1, <1>2, PTL DEF Spec

-------------------------------------------------------------------------------
(* No response is lost in a closed batch.                                  *)

(* What is cached stays cached.                                            *)
LEMMA CacheGrows ==
    ASSUME TypeInv, [Next]_vars, NEW k \in Keys, cache[k] # None
    PROVE  cache'[k] # None
<1> USE DEF disk, vendor
<1>0. TypeOK /\ BatchIsCreated /\ None \notin Batches
  BY PrefetchAssumption DEF TypeInv
<1>1. ASSUME NEW l \in Keys, CollectEntry(l) PROVE cache'[k] # None
  <2>1. batch # None
    BY <1>0, <1>1 DEF CollectEntry, BatchIsCreated, Holding
  <2>2. \/ cache' = [cache EXCEPT ![l] = IF @ = None THEN batch ELSE @]
        \/ cache' = cache
    BY <1>1 DEF CollectEntry
  <2> QED
    BY <1>0, <2>1, <2>2 DEF TypeOK
<1>2. ASSUME NEW l \in Keys, LiveFill(l) PROVE cache'[k] # None
  BY <1>0, <1>2 DEF LiveFill, TypeOK
<1>3. ASSUME UNCHANGED cache PROVE cache'[k] # None
  BY <1>3
<1>4. CASE \/ ResumeNext \/ ResumeDone \/ CreateBatch \/ RecordOpen \/ RecordFails
           \/ PollEnded \/ CollectDone \/ SubmitDone \/ WriteSidecar
           \/ RetrieveFails \/ Crash \/ CrashInLedgerWrite \/ CrashInSidecarWrite
           \/ (\E keys \in JobSets, flag \in BOOLEAN : Start(keys, flag))
           \/ (\E b \in Batches : EndBatch(b))
           \/ UNCHANGED vars
  BY <1>3, <1>4
     DEF Start, ResumeNext, ResumeDone, CreateBatch, RecordOpen, RecordFails, PollEnded,
         CollectDone, SubmitDone, WriteSidecar, RetrieveFails, Crash, CrashInLedgerWrite,
         CrashInSidecarWrite, EndBatch, vars
<1> QED
  BY <1>1, <1>2, <1>4 DEF Next, Advance

LEMMA PlanInvStep ==
    ASSUME OneSet, TypeInv, PlanInv, [Next]_vars
    PROVE  PlanInv'
<1> USE DEF disk, vendor, plan, outcome, work
<1>0. TypeOK /\ Wanted \subseteq Keys
  BY PrefetchAssumption DEF TypeInv, Wanted
<1>1. ASSUME NEW keys \in JobSets, NEW flag \in BOOLEAN, Start(keys, flag)
      PROVE  PlanInv'
  <2>1. Wanted = keys
    BY DEF OneSet, Wanted
  <2>2. planned' = Missing(keys) /\ UNCHANGED <<cache, asked>>
    BY <1>1 DEF Start
  <2>3. \A k \in Wanted : k \in planned' \/ cache'[k] # None
    BY <2>1, <2>2, MissingIs
  <2>4. planned' \subseteq Wanted
    BY <2>1, <2>2, MissingIs
  <2> QED
    BY <2>2, <2>3, <2>4 DEF PlanInv
<1>2. CASE ResumeDone
  <2>1. planned' = Missing(planned) /\ pc # "idle" /\ UNCHANGED <<cache, asked>>
    BY <1>2 DEF ResumeDone
  <2> QED
    BY <2>1, MissingIs DEF PlanInv
<1>3. CASE CreateBatch
  <2> DEFINE b == Earliest(Uncreated)
  <2>1. PICK chunk \in (SUBSET todo) \ {{}} : asked' = [asked EXCEPT ![b] = chunk]
    BY <1>3, Zenon DEF CreateBatch
  <2>2. pc = "submit" /\ UNCHANGED <<cache, planned>>
    BY <1>3 DEF CreateBatch
  <2>3. chunk \subseteq todo
    BY Zenon
  <2>4. chunk \subseteq Wanted
    BY <1>0, <2>3 DEF TypeOK, PlanInv
  <2> QED
    BY <1>0, <2>1, <2>2, <2>4 DEF PlanInv, TypeOK
<1>4. ASSUME pc' # "idle" => pc # "idle" /\ planned' = planned,
             planned' \subseteq planned, UNCHANGED asked
      PROVE  PlanInv'
  BY <1>0, <1>4, CacheGrows DEF PlanInv
<1>5. CASE \/ ResumeNext \/ RecordOpen \/ RecordFails \/ PollEnded
           \/ (\E k \in Keys : CollectEntry(k)) \/ CollectDone \/ SubmitDone
           \/ WriteSidecar \/ RetrieveFails \/ Crash \/ CrashInLedgerWrite
           \/ CrashInSidecarWrite \/ (\E b \in Batches : EndBatch(b))
           \/ (\E k \in Keys : LiveFill(k)) \/ UNCHANGED vars
  <2>1. UNCHANGED asked
    BY <1>5
       DEF ResumeNext, RecordOpen, RecordFails, PollEnded, CollectEntry, CollectDone,
           SubmitDone, WriteSidecar, RetrieveFails, Crash, CrashInLedgerWrite,
           CrashInSidecarWrite, EndBatch, LiveFill, vars
  <2>2. (pc' # "idle" => pc # "idle" /\ planned' = planned) /\ planned' \subseteq planned
    BY <1>5
       DEF ResumeNext, RecordOpen, RecordFails, PollEnded, CollectEntry, CollectDone,
           SubmitDone, WriteSidecar, RetrieveFails, Crash, CrashInLedgerWrite,
           CrashInSidecarWrite, EndBatch, LiveFill, Exit, vars
  <2> QED
    BY <1>4, <2>1, <2>2
<1> QED
  BY <1>1, <1>2, <1>3, <1>5 DEF Next, Advance

LEMMA ClosedInvStep ==
    ASSUME TypeInv, PlanInv, ClosedInv, [Next]_vars
    PROVE  ClosedInv'
<1> USE DEF disk, vendor, plan, outcome, work
<1>0. /\ TypeOK /\ BatchIsCreated
      /\ \A b \in Batches : succeeded[b] \subseteq Keys
      /\ \A k \in Keys : cache[k] # None => cache'[k] # None
  BY CacheGrows DEF TypeInv, TypeOK
(* A step that closes no batch and does not turn to a batch's results.     *)
<1>1. ASSUME \A b \in Batches : ledger'[b] = "collected" => ledger[b] = "collected",
             UNCHANGED <<succeeded, ended>>,
             pc' = "collect" => pc = "collect" /\ UNCHANGED <<batch, left>>
      PROVE  ClosedInv'
  <2>1. CollectedIsCached'
    BY <1>0, <1>1 DEF ClosedInv, CollectedIsCached
  <2>2. pc = "collect" => batch \in Batches
    BY <1>0 DEF BatchIsCreated, Holding
  <2>3. pc' = "collect" => \A k \in succeeded[batch] : k \in left \/ cache'[k] # None
    BY <1>0, <1>1, <2>2 DEF ClosedInv
  <2> QED
    BY <1>1, <2>1, <2>3 DEF ClosedInv
<1>2. CASE \/ ResumeNext \/ ResumeDone \/ CreateBatch \/ RecordFails \/ SubmitDone
           \/ WriteSidecar \/ RetrieveFails \/ Crash \/ CrashInLedgerWrite
           \/ CrashInSidecarWrite \/ UNCHANGED vars
           \/ (\E keys \in JobSets, flag \in BOOLEAN : Start(keys, flag))
           \/ (\E k \in Keys : LiveFill(k))
  <2>1. UNCHANGED <<ledger, succeeded, ended>>
    BY <1>2
       DEF ResumeNext, ResumeDone, CreateBatch, RecordFails, SubmitDone, WriteSidecar,
           RetrieveFails, Crash, CrashInLedgerWrite, CrashInSidecarWrite, Start,
           LiveFill, vars
  <2>2. pc' = "collect" => pc = "collect" /\ UNCHANGED <<batch, left>>
    BY <1>2
       DEF ResumeNext, ResumeDone, CreateBatch, RecordFails, SubmitDone, WriteSidecar,
           RetrieveFails, Crash, CrashInLedgerWrite, CrashInSidecarWrite, Start,
           LiveFill, Exit, vars
  <2> QED
    BY <1>1, <2>1, <2>2
<1>3. CASE RecordOpen
  BY <1>0, <1>1, <1>3 DEF RecordOpen, TypeOK
<1>4. CASE PollEnded
  <2>1. batch \in Batches /\ succeeded[batch] \subseteq asked[batch]
    BY <1>0, <1>4 DEF PollEnded, BatchIsCreated, Holding, TypeOK
  <2> QED
    BY <1>4, <2>1 DEF PollEnded, ClosedInv, CollectedIsCached
<1>5. ASSUME NEW l \in Keys, CollectEntry(l) PROVE ClosedInv'
  <2>1. /\ pc = "collect" /\ pc' = "collect" /\ left' = left \ {l}
        /\ UNCHANGED <<ledger, succeeded, ended, batch>>
    BY <1>5 DEF CollectEntry
  <2>2. batch \in Batches /\ batch # None
    BY <1>0, <2>1, PrefetchAssumption DEF BatchIsCreated, Holding
  <2>3. CollectedIsCached'
    BY <1>0, <2>1 DEF ClosedInv, CollectedIsCached
  <2>4. l \in succeeded[batch] => cache'[l] # None
    <3>1. CASE l \in planned /\ l \in succeeded[batch]
      <4>1. cache' = [cache EXCEPT ![l] = IF @ = None THEN batch ELSE @]
        BY <1>5, <3>1 DEF CollectEntry
      <4> QED
        BY <1>0, <2>2, <4>1 DEF TypeOK
    <3>2. CASE l \notin planned /\ l \in succeeded[batch]
      <4>1. l \in Wanted
        BY <1>0, <2>2, <3>2 DEF PlanInv, TypeOK
      <4> QED
        BY <1>0, <2>1, <3>2, <4>1 DEF PlanInv
    <3> QED
      BY <3>1, <3>2
  <2>5. \A k \in succeeded[batch] : k \in left' \/ cache'[k] # None
    BY <1>0, <2>1, <2>2, <2>4 DEF ClosedInv
  <2> QED
    BY <2>1, <2>3, <2>5 DEF ClosedInv
<1>6. CASE CollectDone
  <2>1. /\ pc = "collect" /\ left = {} /\ pc' # "collect"
        /\ ledger' = [ledger EXCEPT ![batch] = "collected"]
        /\ UNCHANGED <<cache, succeeded, ended>>
    BY <1>0, <1>6 DEF CollectDone, TypeOK
  <2>2. \A b \in Batches : ledger'[b] = "collected" => ledger[b] = "collected" \/ b = batch
    BY <1>0, <2>1 DEF TypeOK
  <2>3. batch \in ended /\ \A k \in succeeded[batch] : cache[k] # None
    BY <2>1 DEF ClosedInv
  <2> QED
    BY <2>1, <2>2, <2>3 DEF ClosedInv, CollectedIsCached
<1>7. ASSUME NEW b \in Batches, EndBatch(b) PROVE ClosedInv'
  <2>1. /\ b \notin ended /\ ended' = ended \cup {b} /\ pc' # "collect"
        /\ \A c \in Batches : c # b => succeeded'[c] = succeeded[c]
        /\ UNCHANGED <<cache, ledger>>
    BY <1>0, <1>7 DEF EndBatch, TypeOK
  <2>2. ledger[b] # "collected"
    BY <2>1 DEF ClosedInv
  <2> QED
    BY <2>1, <2>2 DEF ClosedInv, CollectedIsCached
<1> QED
  BY <1>2, <1>3, <1>4, <1>5, <1>6, <1>7 DEF Next, Advance

(* When every invocation asks for the same prompts, whatever crashes and   *)
(* whatever the live run fills meanwhile, a batch that the ledger calls    *)
(* collected has left no response behind.                                  *)
THEOREM NothingPaidForIsLost == OneSet => (Spec => []CollectedIsCached)
<1> SUFFICES ASSUME OneSet PROVE Spec => []CollectedIsCached
  OBVIOUS
<1>1. Init => PlanInv /\ ClosedInv
  BY DEF Init, PlanInv, ClosedInv, CollectedIsCached
<1>2. TypeInv /\ PlanInv /\ [Next]_vars => PlanInv'
  BY PlanInvStep
<1>3. TypeInv /\ PlanInv /\ ClosedInv /\ [Next]_vars => ClosedInv'
  BY ClosedInvStep
<1>4. ClosedInv => CollectedIsCached
  BY DEF ClosedInv
<1> QED
  BY <1>1, <1>2, <1>3, <1>4, TypeCorrect, PTL DEF Spec

-------------------------------------------------------------------------------
(* Nothing is bought twice.                                                *)

(* The only step that buys: a batch is created of some of what is to do,   *)
(* for a batch number that was free.                                       *)
LEMMA OnlyCreateBuys ==
    ASSUME TypeInv, [Next]_vars, NEW b \in Uncreated, NEW k \in asked'[b]
    PROVE  CreateBatch /\ pc = "submit" /\ k \in todo
<1> USE DEF disk, vendor
<1>0. b \in Batches /\ asked[b] = {}
  BY DEF Uncreated
<1>1. CASE CreateBatch
  <2>1. PICK chunk \in (SUBSET todo) \ {{}} :
            asked' = [asked EXCEPT ![Earliest(Uncreated)] = chunk]
    BY <1>1, Zenon DEF CreateBatch
  <2>2. k \in chunk
    BY <1>0, <2>1 DEF TypeInv, TypeOK
  <2>3. k \in todo
    BY <2>2, Zenon
  <2> QED
    BY <1>1, <2>3 DEF CreateBatch
<1>2. CASE ~CreateBatch
  <2>1. UNCHANGED asked
    BY <1>2
       DEF Next, Advance, Start, ResumeNext, ResumeDone, RecordOpen, RecordFails,
           PollEnded, CollectEntry, CollectDone, SubmitDone, WriteSidecar, RetrieveFails,
           Crash, CrashInLedgerWrite, CrashInSidecarWrite, EndBatch, LiveFill, vars
  <2> QED
    BY <1>0, <2>1
<1> QED
  BY <1>1, <1>2

LEMMA ToBuyInvStep ==
    ASSUME TypeInv, ToBuyInv, [Next]_vars
    PROVE  ToBuyInv'
<1> USE DEF disk, vendor, plan, outcome, work, Holding
<1>0. TypeOK /\ BatchIsCreated /\ None \notin Batches /\ Live \notin Batches
  BY PrefetchAssumption DEF TypeInv
<1>1. ASSUME NEW keys \in JobSets, NEW flag \in BOOLEAN, Start(keys, flag)
      PROVE  ToBuyInv'
  <2>1. /\ todo' = Missing(keys) /\ pc' \in {"resume", "submit"} /\ UNCHANGED cache
    BY <1>1 DEF Start
  <2>2. \A k \in todo' : cache[k] \notin Batches
    BY <1>0, <2>1, MissingIs
  <2> QED
    BY <2>1, <2>2 DEF ToBuyInv
<1>2. CASE ResumeDone
  <2>1. todo' = Missing(planned) /\ pc' = "submit" /\ UNCHANGED cache
    BY <1>2 DEF ResumeDone
  <2>2. \A k \in todo' : cache[k] \notin Batches
    BY <1>0, <2>1, MissingIs
  <2> QED
    BY <2>1, <2>2 DEF ToBuyInv
<1>3. CASE CreateBatch
  <2> DEFINE b == Earliest(Uncreated)
  <2>1. PICK chunk \in (SUBSET todo) \ {{}} :
          /\ asked' = [asked EXCEPT ![b] = chunk]
          /\ todo' = todo \ chunk
          /\ batch' = b
    BY <1>3, Zenon DEF CreateBatch
  <2>2. pc = "submit" /\ pc' = "record" /\ UNCHANGED cache
    BY <1>3 DEF CreateBatch
  <2>3. b \in Batches
    BY <1>3, EarliestIsOne DEF CreateBatch, Uncreated
  <2> HIDE DEF b
  <2>4. asked'[batch'] = chunk
    BY <1>0, <2>1, <2>3 DEF TypeOK
  <2>5. \A k \in todo' : cache'[k] \notin Batches
    BY <2>1, <2>2 DEF ToBuyInv, Buying
  <2>6. todo' \cap asked'[batch'] = {}
    BY <2>1, <2>4
  <2> QED
    BY <2>2, <2>5, <2>6 DEF ToBuyInv
<1>4. CASE PollEnded
  <2>1. /\ pc = "poll" /\ pc' = "collect" /\ left' = asked[batch]
        /\ UNCHANGED <<cache, asked, todo, batch, caller>>
    BY <1>4 DEF PollEnded
  <2> QED
    BY <2>1 DEF ToBuyInv, Buying
<1>5. ASSUME NEW l \in Keys, CollectEntry(l) PROVE ToBuyInv'
  <2>1. /\ pc = "collect" /\ l \in left /\ left' = left \ {l}
        /\ UNCHANGED <<pc, asked, todo, batch, caller>>
    BY <1>5 DEF CollectEntry
  <2>2. \A k \in Keys : k # l => cache'[k] = cache[k]
    BY <1>0, <1>5 DEF CollectEntry, TypeOK
  <2>3. Buying => l \notin todo
    BY <2>1 DEF ToBuyInv
  <2>4. todo \subseteq Keys
    BY <1>0 DEF TypeOK
  <2> QED
    BY <2>1, <2>2, <2>3, <2>4 DEF ToBuyInv, Buying
<1>6. ASSUME NEW l \in Keys, LiveFill(l) PROVE ToBuyInv'
  <2>1. UNCHANGED <<pc, asked, todo, batch, caller, left>>
    BY <1>6 DEF LiveFill
  <2>2. \A k \in Keys : cache'[k] \in {cache[k], Live}
    BY <1>0, <1>6 DEF LiveFill, TypeOK
  <2>3. todo \subseteq Keys
    BY <1>0 DEF TypeOK
  <2> QED
    BY <1>0, <2>1, <2>2, <2>3 DEF ToBuyInv, Buying
<1>7. CASE RecordOpen \/ CollectDone \/ SubmitDone
  <2>1. UNCHANGED <<cache, asked, todo, batch, caller, left>>
    BY <1>7 DEF RecordOpen, CollectDone, SubmitDone
  <2>2. /\ pc' # "collect"
        /\ Buying' => Buying
        /\ pc' \in Holding => pc \in Holding
    BY <1>0, <1>7 DEF RecordOpen, CollectDone, SubmitDone, Buying, TypeOK
  <2> QED
    BY <2>1, <2>2 DEF ToBuyInv
<1>8. CASE ResumeNext
  BY <1>8 DEF ResumeNext, ToBuyInv, Buying
<1>9. CASE RetrieveFails
  BY <1>9 DEF RetrieveFails, Exit, ToBuyInv, Buying
<1>10. CASE RecordFails \/ WriteSidecar \/ Crash \/ CrashInLedgerWrite \/ CrashInSidecarWrite
  BY <1>10 DEF RecordFails, WriteSidecar, Crash, CrashInLedgerWrite, CrashInSidecarWrite,
               Exit, ToBuyInv, Buying
<1>11. CASE UNCHANGED vars \/ (\E b \in Batches : EndBatch(b))
  <2>1. UNCHANGED <<pc, cache, asked, todo, batch, caller, left>>
    BY <1>11 DEF EndBatch, vars
  <2> QED
    BY <2>1 DEF ToBuyInv, Buying
<1> QED
  BY <1>1, <1>2, <1>3, <1>4, <1>5, <1>6, <1>7, <1>8, <1>9, <1>10, <1>11 DEF Next, Advance

(* No response that a batch has brought into the cache is bought again.    *)
THEOREM NoCachedResponseIsRebought == Spec => NeverRebuysCached
<1>1. Init => ToBuyInv
  BY DEF Init, ToBuyInv, Buying, Holding
<1>2. TypeInv /\ ToBuyInv /\ [Next]_vars => ToBuyInv'
  BY ToBuyInvStep
<1>3. TypeInv /\ ToBuyInv /\ [Next]_vars
        => [\A b \in Uncreated : \A k \in asked'[b] : cache[k] \notin Batches]_vars
  <2> SUFFICES ASSUME TypeInv, ToBuyInv, [Next]_vars,
                      NEW b \in Uncreated, NEW k \in asked'[b]
               PROVE  cache[k] \notin Batches
    OBVIOUS
  <2>1. pc = "submit" /\ k \in todo
    BY OnlyCreateBuys
  <2> QED
    BY <2>1 DEF ToBuyInv, Buying
<1> QED
  BY <1>1, <1>2, <1>3, TypeCorrect, PTL DEF Spec, NeverRebuysCached

LEMMA OpenInvStep ==
    ASSUME TypeInv, OpenInv, [Next]_vars
    PROVE  OpenInv'
<1> USE DEF disk, vendor, plan, outcome, work, Holding
<1>0. TypeOK /\ BatchIsCreated
  BY DEF TypeInv
<1>1. ASSUME NEW keys \in JobSets, NEW flag \in BOOLEAN, Start(keys, flag)
      PROVE  OpenInv'
  <2>1. /\ resuming' = flag
        /\ toResume' = IF flag THEN OpenBatches ELSE {}
        /\ pc' = IF toResume' # {} THEN "resume" ELSE "submit"
        /\ UNCHANGED <<ledger, skipped>>
    BY <1>1 DEF Start
  <2>2. OpenBatches' = OpenBatches
    BY <2>1 DEF OpenBatches
  <2> QED
    BY <2>1, <2>2 DEF OpenInv
<1>2. ASSUME UNCHANGED ledger PROVE OpenBatches' = OpenBatches
  BY <1>2 DEF OpenBatches
<1>3. CASE ResumeNext
  <2>1. /\ pc = "resume" /\ pc' = "poll" /\ toResume' = toResume \ {batch'}
        /\ caller' = "resume" /\ UNCHANGED <<resuming, skipped, ledger>>
    BY <1>3 DEF ResumeNext
  <2> QED
    BY <1>2, <2>1 DEF OpenInv
<1>4. CASE ResumeDone
  <2>1. /\ pc = "resume" /\ pc' = "submit" /\ toResume = {}
        /\ UNCHANGED <<resuming, skipped, ledger>>
    BY <1>4 DEF ResumeDone
  <2> QED
    BY <1>2, <2>1 DEF OpenInv
<1>5. CASE CreateBatch
  <2>1. /\ pc = "submit" /\ pc' = "record" /\ caller' = "submit"
        /\ UNCHANGED <<resuming, skipped, ledger>>
    BY <1>5 DEF CreateBatch
  <2> QED
    BY <1>2, <2>1 DEF OpenInv
<1>6. CASE RecordOpen
  <2>1. /\ pc = "record" /\ pc' = "poll"
        /\ ledger' = [ledger EXCEPT ![batch] = "open"]
        /\ UNCHANGED <<resuming, skipped, toResume, batch, caller>>
    BY <1>6 DEF RecordOpen
  <2>2. OpenBatches' \subseteq OpenBatches \cup {batch}
    BY <1>0, <2>1 DEF OpenBatches, TypeOK
  <2> QED
    BY <2>1, <2>2 DEF OpenInv
<1>7. CASE PollEnded \/ (\E k \in Keys : CollectEntry(k)) \/ (\E b \in Batches : EndBatch(b))
  <2>1. /\ pc \in {"poll", "collect"} /\ pc' \in {"poll", "collect"}
        /\ UNCHANGED <<resuming, skipped, toResume, batch, caller, ledger>>
    BY <1>7 DEF PollEnded, CollectEntry, EndBatch
  <2> QED
    BY <1>2, <2>1 DEF OpenInv
<1>8. CASE CollectDone
  <2>1. /\ pc = "collect" /\ pc' = caller /\ batch \in Batches
        /\ ledger' = [ledger EXCEPT ![batch] = "collected"]
        /\ UNCHANGED <<resuming, skipped, toResume>>
    BY <1>0, <1>8 DEF CollectDone, BatchIsCreated
  <2>2. OpenBatches' = OpenBatches \ {batch}
    BY <1>0, <2>1 DEF OpenBatches, TypeOK
  <2>3. caller \in {"resume", "submit"}
    BY <1>0 DEF TypeOK
  <2> QED
    BY <2>1, <2>2, <2>3 DEF OpenInv
<1>9. CASE RetrieveFails /\ caller # "submit"
  <2>1. /\ pc \in {"poll", "collect"} /\ pc' = "resume" /\ skipped' = skipped \cup {batch}
        /\ caller = "resume" /\ UNCHANGED <<resuming, toResume, ledger>>
    BY <1>0, <1>9 DEF RetrieveFails, TypeOK
  <2> QED
    BY <1>2, <2>1 DEF OpenInv
<1>10. CASE \/ RecordFails \/ WriteSidecar \/ Crash \/ CrashInLedgerWrite
            \/ CrashInSidecarWrite \/ (RetrieveFails /\ caller = "submit")
  <2>1. resuming' = FALSE /\ pc' = "idle"
    BY <1>10 DEF RecordFails, WriteSidecar, Crash, CrashInLedgerWrite,
                 CrashInSidecarWrite, RetrieveFails, Exit
  <2> QED
    BY <2>1 DEF OpenInv
<1>11. CASE SubmitDone
  BY <1>11 DEF SubmitDone, OpenInv
<1>12. CASE UNCHANGED vars \/ (\E k \in Keys : LiveFill(k))
  <2>1. UNCHANGED <<pc, resuming, skipped, toResume, batch, caller, ledger>>
    BY <1>12 DEF LiveFill, vars
  <2> QED
    BY <1>2, <2>1 DEF OpenInv
<1> QED
  BY <1>1, <1>3, <1>4, <1>5, <1>6, <1>7, <1>8, <1>9, <1>10, <1>11, <1>12
     DEF Next, Advance

(* An invocation that resumes submits only once every batch still open is  *)
(* one it has reported as left open, so it buys no key of any other.       *)
THEOREM OpenBatchesAreNotRebought == Spec => ResubmitsOnlySkipped
<1>1. Init => OpenInv
  BY DEF Init, OpenInv, Holding
<1>2. TypeInv /\ OpenInv /\ [Next]_vars => OpenInv'
  BY OpenInvStep
<1>3. TypeInv /\ OpenInv /\ [Next]_vars
        => [\A b \in Uncreated, c \in OpenBatches \ skipped :
              resuming => asked'[b] \cap asked[c] = {}]_vars
  <2> SUFFICES ASSUME TypeInv, OpenInv, [Next]_vars, NEW b \in Uncreated,
                      NEW c \in OpenBatches \ skipped, resuming, NEW k \in asked'[b]
               PROVE  FALSE
    OBVIOUS
  <2>1. pc = "submit"
    BY OnlyCreateBuys
  <2> QED
    BY <2>1 DEF OpenInv
<1> QED
  BY <1>1, <1>2, <1>3, TypeCorrect, PTL DEF Spec, ResubmitsOnlySkipped

-------------------------------------------------------------------------------
(* The inductive invariant.                                                *)

\* Before the published directory is touched.
Preparing == {"clear", "render", "manifest", "swap"}

\* Between the two renamings.
Swapping == {"promote", "roll back"}

\* What n of the bundles leave of their outputs.
OutputsOf(list, n, e) == {<<list[i].run, e>> : i \in 1 .. n}

(* An invocation works on its own bundles.                                 *)
InvocationInv ==
    /\ step \in {"idle", "drop backup"} \cup Preparing \cup Swapping
    /\ edition \in Nat
    /\ step # "idle" => /\ bundles \in BundleLists
                      /\ edition \in Editions
                      /\ ending = "not yet"

(* The staging directory holds the outputs of the bundles rendered so far, *)
(* then the registry too, and at the swap a whole publication.             *)
StagingInv ==
    /\ step = "clear" => rendered = 0
    /\ step = "render" =>
         /\ rendered \in 0 .. Len(bundles)
         /\ \A i \in 1 .. rendered : bundles[i].sound
         /\ staging = [outputs  |-> OutputsOf(bundles, rendered, edition),
                       registry |-> <<>>, manifest |-> FALSE]
    /\ step \in {"manifest", "swap"} \cup Swapping => Publishable(bundles)
    /\ step = "manifest" =>
         staging = [outputs  |-> PublicationOf(bundles, edition).outputs,
                    registry |-> RowsOf(bundles), manifest |-> FALSE]
    /\ step \in {"swap"} \cup Swapping => staging = PublicationOf(bundles, edition)

(* Where the publication the invocation found is, and where the new one.   *)
PlaceInv ==
    /\ step \in Preparing => target = before
    /\ step \in Swapping => target = NoDirectory /\ backup = before /\ before # NoDirectory
    /\ step = "drop backup" =>
         target # NoDirectory /\ target = PublicationOf(bundles, edition)

PublishInv == InvocationInv /\ StagingInv /\ PlaceInv /\ OutcomeIsTrue

-------------------------------------------------------------------------------
(* Bundles and publications.                                               *)

LEMMA BoundsType == MaxBundles \in Nat /\ MaxEditions \in Nat
BY PublishAssumption

LEMMA ListType ==
    ASSUME NEW list \in BundleLists
    PROVE  /\ Len(list) \in Nat /\ Len(list) \in 1 .. MaxBundles /\ DOMAIN list = 1 .. Len(list)
           /\ \A i \in 1 .. Len(list) : list[i] \in Bundles
<1>1. PICK n \in 1 .. MaxBundles : list \in [1 .. n -> Bundles]
  BY DEF BundleLists
<1>2. n \in Nat /\ list \in Seq(Bundles)
  BY <1>1, BoundsType
<1>3. Len(list) = n /\ DOMAIN list = 1 .. n
  BY <1>1, <1>2
<1> QED
  BY <1>1, <1>3

(* A publication is a directory.                                           *)
LEMMA PublicationType ==
    ASSUME NEW list \in BundleLists, NEW e \in Editions
    PROVE  PublicationOf(list, e) \in Dirs /\ PublicationOf(list, e) # NoDirectory
<1> DEFINE n == Len(list)
<1>1. n \in 1 .. MaxBundles /\ DOMAIN list = 1 .. n /\ \A i \in 1 .. n : list[i].run \in Runs
  BY ListType DEF Bundles
<1> HIDE DEF n
<1>2. {<<list[i].run, e>> : i \in DOMAIN list} \in SUBSET (Runs \X Editions)
  BY <1>1
<1>3. RowsOf(list) \in Rows
  <2>1. RowsOf(list) \in [1 .. n -> Runs]
    BY <1>1 DEF RowsOf
  <2>2. n \in 0 .. MaxBundles
    BY <1>1, PublishAssumption
  <2> QED
    BY <2>1, <2>2 DEF Rows
<1>4. PublicationOf(list, e) \in Dirs
  BY <1>2, <1>3 DEF PublicationOf, Dirs
<1> QED
  BY <1>4, PublishAssumption

(* And whole, if its bundles are publishable.                              *)
LEMMA PublicationWhole ==
    ASSUME NEW list \in BundleLists, NEW e \in Editions, Publishable(list)
    PROVE  PublicationOf(list, e) \in Whole
BY DEF Whole

-------------------------------------------------------------------------------
(* The invariant.                                                          *)

(* An invocation that ends and leaves the published directory, or puts it  *)
(* back, or has published.                                                 *)
LEMMA Ending ==
    ASSUME PublishInv, step' = "idle", UNCHANGED <<edition, bundles, rendered, before>>,
           \/ ending' = "raised" /\ target' = before
           \/ ending' = "returned" /\ target' = PublicationOf(bundles, edition)
           \/ ending' = "crashed"
    PROVE  PublishInv'
<1>1. InvocationInv'
  BY DEF PublishInv, InvocationInv
<1>2. StagingInv' /\ PlaceInv'
  BY DEF StagingInv, PlaceInv, Preparing, Swapping
<1>3. OutcomeIsTrue'
  BY DEF OutcomeIsTrue
<1> QED
  BY <1>1, <1>2, <1>3 DEF PublishInv

LEMMA PublishInvStep ==
    ASSUME PublishInv, [PublishNext]_publishVars
    PROVE  PublishInv'
<1> USE DEF dirs, history, InvocationKept, Goto, End, Preparing, Swapping
<1>0. InvocationInv /\ StagingInv /\ PlaceInv /\ OutcomeIsTrue
  BY DEF PublishInv
<1>1. ASSUME NEW list \in BundleLists, Begin(list) PROVE PublishInv'
  <2>1. edition' \in Editions /\ edition' \in Nat
    <3>1. edition \in Nat /\ edition < MaxEditions /\ edition' = edition + 1
      BY <1>0, <1>1 DEF Begin, InvocationInv
    <3> QED
      BY <3>1, BoundsType DEF Editions
  <2>2. /\ step' = "clear" /\ bundles' = list /\ ending' = "not yet"
        /\ before' = target /\ target' = target
    BY <1>1 DEF Begin
  <2>3. rendered' = 0
    BY <1>1 DEF Begin
  <2>4. InvocationInv'
    BY <2>1, <2>2 DEF InvocationInv
  <2>5. StagingInv' /\ PlaceInv' /\ OutcomeIsTrue'
    BY <2>2, <2>3 DEF StagingInv, PlaceInv, OutcomeIsTrue
  <2> QED
    BY <2>4, <2>5 DEF PublishInv
<1>2. CASE ClearStaging
  <2>1. /\ step = "clear" /\ step' = "render" /\ staging' = Empty /\ rendered' = 0
        /\ UNCHANGED <<target, backup, edition, bundles, before, ending>>
    BY <1>0, <1>2 DEF ClearStaging, StagingInv
  <2>2. Len(bundles) \in Nat
    BY <1>0, <2>1, ListType DEF InvocationInv
  <2>3. OutputsOf(bundles, 0, edition) = {}
    BY DEF OutputsOf
  <2>4. staging' = [outputs  |-> OutputsOf(bundles', rendered', edition'),
                    registry |-> <<>>, manifest |-> FALSE]
    BY <2>1, <2>3 DEF Empty
  <2>5. rendered' \in 0 .. Len(bundles') /\ \A i \in 1 .. rendered' : bundles'[i].sound
    BY <2>1, <2>2
  <2>6. StagingInv'
    BY <2>1, <2>4, <2>5 DEF StagingInv
  <2> QED
    BY <1>0, <2>1, <2>6 DEF PublishInv, InvocationInv, PlaceInv, OutcomeIsTrue
<1>3. CASE Render
  <2> DEFINE n == rendered + 1
  <2>1. /\ step = "render" /\ rendered < Len(bundles) /\ bundles[n].sound
        /\ staging' = [staging EXCEPT !.outputs = @ \cup {<<bundles[n].run, edition>>}]
        /\ rendered' = n
        /\ UNCHANGED <<step, target, backup, edition, bundles, before, ending>>
    BY <1>3 DEF Render, NextBundle
  <2>2. rendered \in Nat /\ Len(bundles) \in Nat
    <3>1. Len(bundles) \in Nat
      BY <1>0, <2>1, ListType DEF InvocationInv
    <3>2. rendered \in 0 .. Len(bundles)
      BY <1>0, <2>1 DEF StagingInv
    <3> QED
      BY <3>1, <3>2
  <2>3. OutputsOf(bundles, n, edition) =
          OutputsOf(bundles, rendered, edition) \cup {<<bundles[n].run, edition>>}
    <3>1. 1 .. n = (1 .. rendered) \cup {n}
      BY <2>2
    <3> QED
      BY <3>1 DEF OutputsOf
  <2>4. staging' = [outputs  |-> OutputsOf(bundles', rendered', edition'),
                    registry |-> <<>>, manifest |-> FALSE]
    <3> DEFINE old == OutputsOf(bundles, rendered, edition)
               new == OutputsOf(bundles, n, edition)
    <3>1. staging = [outputs |-> old, registry |-> <<>>, manifest |-> FALSE]
      BY <1>0, <2>1 DEF StagingInv
    <3>2. new = old \cup {<<bundles[n].run, edition>>}
      BY <2>3
    <3> HIDE DEF old, new
    <3>3. staging' = [outputs |-> new, registry |-> <<>>, manifest |-> FALSE]
      BY <2>1, <3>1, <3>2
    <3> QED
      BY <2>1, <3>3 DEF new
  <2>5. rendered' \in 0 .. Len(bundles') /\ \A i \in 1 .. rendered' : bundles'[i].sound
    <3>1. \A i \in 1 .. n : i \in 1 .. rendered \/ i = n
      BY <2>2
    <3>2. \A i \in 1 .. rendered : bundles[i].sound
      BY <1>0, <2>1 DEF StagingInv
    <3> QED
      BY <2>1, <2>2, <3>1, <3>2
  <2>6. StagingInv'
    BY <2>1, <2>4, <2>5 DEF StagingInv
  <2> QED
    BY <1>0, <2>1, <2>6 DEF PublishInv, InvocationInv, PlaceInv, OutcomeIsTrue
<1>4. CASE WriteRegistry
  <2>1. /\ step = "render" /\ step' = "manifest" /\ rendered = Len(bundles)
        /\ ~DuplicateRun(bundles)
        /\ staging' = [staging EXCEPT !.registry = RowsOf(bundles)]
        /\ UNCHANGED <<target, backup, edition, bundles, rendered, before, ending>>
    BY <1>4 DEF WriteRegistry
  <2>2. DOMAIN bundles = 1 .. Len(bundles)
    BY <1>0, <2>1, ListType DEF InvocationInv
  <2>3. Publishable(bundles)
    BY <1>0, <2>1, <2>2 DEF StagingInv, Publishable, DuplicateRun
  <2>4. staging' = [outputs  |-> PublicationOf(bundles, edition).outputs,
                    registry |-> RowsOf(bundles), manifest |-> FALSE]
    <3> DEFINE all  == {<<bundles[i].run, edition>> : i \in DOMAIN bundles}
               rows == RowsOf(bundles)
    <3>1. staging = [outputs |-> all, registry |-> <<>>, manifest |-> FALSE]
      BY <1>0, <2>1, <2>2 DEF StagingInv, OutputsOf
    <3>2. PublicationOf(bundles, edition) =
            [outputs |-> all, registry |-> rows, manifest |-> TRUE]
      BY DEF PublicationOf
    <3>3. staging' = [staging EXCEPT !.registry = rows]
      BY <2>1
    <3> HIDE DEF all, rows
    <3>4. staging' = [outputs |-> all, registry |-> rows, manifest |-> FALSE]
      BY <3>1, <3>3
    <3>5. PublicationOf(bundles, edition).outputs = all
      BY <3>2
    <3> QED
      BY <3>4, <3>5 DEF rows
  <2>5. StagingInv'
    BY <2>1, <2>3, <2>4 DEF StagingInv
  <2> QED
    BY <1>0, <2>1, <2>5 DEF PublishInv, InvocationInv, PlaceInv, OutcomeIsTrue
<1>5. CASE WriteManifest
  <2>1. /\ step = "manifest" /\ step' = "swap"
        /\ staging' = [staging EXCEPT !.manifest = TRUE]
        /\ UNCHANGED <<target, backup, edition, bundles, rendered, before, ending>>
    BY <1>5 DEF WriteManifest
  <2>2. staging' = PublicationOf(bundles, edition)
    <3> DEFINE all  == {<<bundles[i].run, edition>> : i \in DOMAIN bundles}
               rows == RowsOf(bundles)
    <3>1. PublicationOf(bundles, edition) =
            [outputs |-> all, registry |-> rows, manifest |-> TRUE]
      BY DEF PublicationOf
    <3>2. staging = [outputs  |-> PublicationOf(bundles, edition).outputs,
                     registry |-> rows, manifest |-> FALSE]
      BY <1>0, <2>1 DEF StagingInv
    <3> HIDE DEF all, rows
    <3>3. staging = [outputs |-> all, registry |-> rows, manifest |-> FALSE]
      BY <3>1, <3>2
    <3>4. staging' = [outputs |-> all, registry |-> rows, manifest |-> TRUE]
      BY <2>1, <3>3
    <3> QED
      BY <3>1, <3>4
  <2>3. StagingInv'
    BY <1>0, <2>1, <2>2 DEF StagingInv
  <2> QED
    BY <1>0, <2>1, <2>3 DEF PublishInv, InvocationInv, PlaceInv, OutcomeIsTrue
<1>6. CASE ClearBackup \/ SetAside \/ PromoteRaises
  <2>1. /\ step \in {"swap", "promote"} /\ step' \in {"swap"} \cup Swapping
        /\ UNCHANGED <<staging, edition, bundles, rendered, before, ending>>
    BY <1>6 DEF ClearBackup, SetAside, PromoteRaises
  <2>2. InvocationInv' /\ StagingInv' /\ OutcomeIsTrue'
    BY <1>0, <2>1 DEF InvocationInv, StagingInv, OutcomeIsTrue
  <2>3. PlaceInv'
    BY <1>0, <1>6, <2>1 DEF ClearBackup, SetAside, PromoteRaises, PlaceInv
  <2> QED
    BY <2>2, <2>3 DEF PublishInv
<1>7. CASE Promote
  <2>1. /\ step = "promote" /\ step' = "drop backup" /\ target' = staging
        /\ UNCHANGED <<edition, bundles, rendered, before, ending>>
    BY <1>7 DEF Promote
  <2>2. target' = PublicationOf(bundles, edition) /\ target' # NoDirectory
    BY <1>0, <2>1, PublicationType DEF StagingInv, InvocationInv
  <2> QED
    BY <1>0, <2>1, <2>2 DEF PublishInv, InvocationInv, StagingInv, PlaceInv, OutcomeIsTrue
(* The steps that end an invocation.                                       *)
<1>8. CASE \/ ClearStagingRaises \/ RenderRaises \/ BuildRegistryRaises
           \/ ClearBackupRaises \/ RenameRaises
  <2>1. /\ step \in Preparing /\ step' = "idle" /\ ending' = "raised"
        /\ UNCHANGED <<target, edition, bundles, rendered, before>>
    BY <1>8 DEF ClearStagingRaises, RenderRaises, BuildRegistryRaises, ClearBackupRaises,
                RenameRaises
  <2>2. target' = before
    BY <1>0, <2>1 DEF PlaceInv
  <2> QED
    BY <2>1, <2>2, Ending
<1>9. CASE RollBack
  BY <1>0, <1>9, Ending DEF RollBack, PlaceInv
<1>10. CASE SwapInFirst
  BY <1>0, <1>10, Ending DEF SwapInFirst, StagingInv
<1>11. CASE DropBackup
  BY <1>0, <1>11, Ending DEF DropBackup, PlaceInv
<1>12. CASE Die \/ CrashInRemoval
  BY <1>12, Ending DEF Die, CrashInRemoval
<1>13. CASE UNCHANGED publishVars
  BY <1>0, <1>13 DEF publishVars, PublishInv, InvocationInv, StagingInv, PlaceInv, OutcomeIsTrue
<1> QED
  BY <1>1, <1>2, <1>3, <1>4, <1>5, <1>6, <1>7, <1>8, <1>9, <1>10, <1>11, <1>12, <1>13
     DEF PublishNext

LEMMA PublishInvariant == PublishSpec => []PublishInv
<1>1. PublishInit => PublishInv
  <2> SUFFICES ASSUME PublishInit PROVE PublishInv
    OBVIOUS
  <2>1. InvocationInv /\ OutcomeIsTrue
    BY DEF PublishInit, InvocationInv, OutcomeIsTrue
  <2>2. StagingInv /\ PlaceInv
    BY DEF PublishInit, StagingInv, PlaceInv, Preparing, Swapping
  <2> QED
    BY <2>1, <2>2 DEF PublishInv
<1>2. PublishInv /\ [PublishNext]_publishVars => PublishInv'
  BY PublishInvStep
<1> QED
  BY <1>1, <1>2, PTL DEF PublishSpec

(* An invocation that raises has left the published directory as it found  *)
(* it, and one that returns has published its own bundles.                 *)
THEOREM CallerIsToldTheTruth == PublishSpec => []OutcomeIsTrue
<1>1. PublishInv => OutcomeIsTrue
  BY DEF PublishInv
<1> QED
  BY <1>1, PublishInvariant, PTL

-------------------------------------------------------------------------------
(* The promise.                                                            *)

\* What a reader finds who falls back on the backup.
Published == IF target # NoDirectory THEN target ELSE backup

(* Only the two promotions change what is published, and to a whole        *)
(* publication.                                                            *)
LEMMA PromiseStep ==
    ASSUME PublishInv, [PublishNext]_publishVars
    PROVE  Published' \in Whole \/ UNCHANGED Published
<1> USE DEF dirs, history, InvocationKept, Goto, End, Preparing, Swapping
<1>0. InvocationInv /\ StagingInv /\ PlaceInv
  BY DEF PublishInv
<1>1. CASE SwapInFirst \/ Promote
  <2>1. step \in {"swap", "promote"} /\ target' = staging
    BY <1>1 DEF SwapInFirst, Promote
  <2>2. /\ bundles \in BundleLists /\ edition \in Editions /\ Publishable(bundles)
        /\ target' = PublicationOf(bundles, edition)
    BY <1>0, <2>1 DEF InvocationInv, StagingInv
  <2>3. target' \in Whole /\ target' # NoDirectory
    BY <2>2, PublicationType, PublicationWhole
  <2> QED
    BY <2>3 DEF Published
<1>2. CASE ClearBackup \/ ClearBackupRaises \/ DropBackup \/ CrashInRemoval
  <2>1. UNCHANGED target /\ (UNCHANGED backup \/ target # NoDirectory)
    BY <1>0, <1>2 DEF ClearBackup, ClearBackupRaises, DropBackup, CrashInRemoval, PlaceInv
  <2> QED
    BY <2>1 DEF Published
<1>3. CASE SetAside
  BY <1>3 DEF SetAside, Published
<1>4. CASE RollBack
  BY <1>0, <1>4 DEF RollBack, PlaceInv, Published
<1>5. CASE \/ ClearStaging \/ ClearStagingRaises \/ Render \/ RenderRaises
           \/ WriteRegistry \/ BuildRegistryRaises \/ WriteManifest \/ RenameRaises
           \/ PromoteRaises \/ Die \/ UNCHANGED publishVars
           \/ (\E list \in BundleLists : Begin(list))
  <2>1. UNCHANGED <<target, backup>>
    BY <1>5 DEF Begin, ClearStaging, ClearStagingRaises, Render, RenderRaises,
                WriteRegistry, BuildRegistryRaises, WriteManifest, RenameRaises,
                PromoteRaises, Die, publishVars
  <2> QED
    BY <2>1 DEF Published
<1> QED
  BY <1>1, <1>2, <1>3, <1>4, <1>5 DEF PublishNext

(* ReporterPublish implements AtomicPublication: from the first on there   *)
(* is always a publication, and it is replaced by a whole one in one step, *)
(* through every crash and error.                                          *)
THEOREM PublishIsAtomic == PublishSpec => PublicationIsAtomic
<1>1. PublishInit => Promise!Init
  BY DEF PublishInit, Promise!Init
<1>2. PublishInv /\ [PublishNext]_publishVars => [Promise!Next]_Published
  BY PromiseStep DEF Promise!Next, Promise!Publish, Published
<1> QED
  BY <1>1, <1>2, PublishInvariant, PTL DEF PublishSpec, PublicationIsAtomic, Promise!Spec, Published

===============================================================================
