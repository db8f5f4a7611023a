-------------------------- MODULE SyncStore_proofs --------------------------
(***************************************************************************)
(* Theorems about SyncStore and SyncLog, for every number of processes,    *)
(* clock, chain length, number of calls and set of tails.                  *)
(*                                                                         *)
(*   TypeInv    the types;                                                 *)
(*   OrderInv   what anything names was uploaded once;                     *)
(*   FreshInv   the tails still to be uploaded are nobody else's;          *)
(*   AckedInv   what a write returned is uploaded;                         *)
(*   BundleInv  the bundle only ever grows by a delta below known ones,    *)
(*              and what leads to the baseline stays below a sink that     *)
(*              does: loads start from these sinks and apply all of it,    *)
(*              whichever .client files they could read;                   *)
(*   SnapInv    so a load in progress, and the cache file, hold what their *)
(*              listing stood for;                                         *)
(*   QuietInv   and as long as OmniFocus compacts only between writes, no  *)
(*              delta is ever attached to what a compaction took away, so  *)
(*              that the store is a log.                                   *)
(***************************************************************************)
EXTENDS SyncLog, BundleGraph_proofs, TLAPS

(* The types of what a listing gives. *)

LEMMA FrontierType ==
    ASSUME NEW L \in Listings, NEW files \in SUBSET ClientFile
    PROVE  Frontier(L, files) \subseteq TailId
<1>1. Tails(L) \subseteq TailId /\ L.base.tail \in TailId
  BY DEF Tails, Listings, Baseline, Delta
<1>2. \A f \in files : Range(f.tails) \subseteq TailId
  BY DEF ClientFile, Range
<1> QED
  BY <1>1, <1>2, FrontierFrom

LEMMA ViewType ==
    ASSUME NEW L \in Listings, NEW files \in SUBSET ClientFile,
           NEW contents \in SUBSET TailId
    PROVE  View(L, files, contents) \subseteq TailId
BY DEF View, Selected, Above, Tails, Listings, Delta

LEMMA ListingType ==
    ASSUME TypeOK
    PROVE  Listing \in Listings
<1>1. \A f \in clientFiles : NameOf(f) \in ClientName
  BY DEF TypeOK, NameOf, ClientName, ClientFile
<1> QED
  BY <1>1 DEF TypeOK, Listing, Listings

-----------------------------------------------------------------------------
(* Type correctness. *)

Uploading == {"put_delta", "put_client", "finish"}

\* A process stands inside its plan while it uploads it, and before it otherwise.
PlanInRange ==
    \A p \in Proc :
        /\ Len(plan[p]) <= MaxChain
        /\ pc[p] \in Uploading => at[p] \in DOMAIN plan[p]
        /\ pc[p] \notin Uploading => at[p] = 1

TypeInv == TypeOK /\ PlanInRange

\* The values a call leaves behind.
LEMMA ReturnType ==
    ASSUME TypeInv, NEW p \in Proc, Return(p)
    PROVE  /\ pc' \in [Proc -> {"idle"} \cup LoadPCs \cup WritePCs]
           /\ seen' \in [Proc -> Listings]
           /\ left' \in [Proc -> SUBSET ClientName]
           /\ read' \in [Proc -> SUBSET ClientFile]
           /\ want' \in [Proc -> SUBSET Delta]
           /\ got' \in [Proc -> SUBSET TailId]
           /\ due' \in [Proc -> SUBSET TailId]
           /\ from' \in [Proc -> TailId]
           /\ plan' \in [Proc -> Seq(Delta)]
           /\ at' \in [Proc -> 1..MaxChain]
           /\ PlanInRange'
<1> USE ConstantsOK
<1>1. NoListing \in Listings
  BY DEF NoListing, Listings, Baseline
<1>2. pc' \in [Proc -> {"idle"} \cup LoadPCs \cup WritePCs] /\ seen' \in [Proc -> Listings]
  BY <1>1 DEF Return, TypeInv, TypeOK
<1>3. /\ left' \in [Proc -> SUBSET ClientName] /\ read' \in [Proc -> SUBSET ClientFile]
      /\ want' \in [Proc -> SUBSET Delta] /\ got' \in [Proc -> SUBSET TailId]
      /\ due' \in [Proc -> SUBSET TailId] /\ from' \in [Proc -> TailId]
  BY DEF Return, TypeInv, TypeOK
<1>4. plan' \in [Proc -> Seq(Delta)] /\ at' \in [Proc -> 1..MaxChain]
  BY DEF Return, TypeInv, TypeOK
<1>5. PlanInRange'
  BY DEF Return, TypeInv, TypeOK, PlanInRange, Uploading
<1> QED
  BY <1>2, <1>3, <1>4, <1>5

LEMMA TypeInit == Init => TypeInv
<1> USE ConstantsOK
<1> SUFFICES ASSUME Init PROVE TypeInv
  OBVIOUS
<1>1. NoListing \in Listings /\ NoListing.base \in Baseline
  BY DEF NoListing, Listings, Baseline
<1>2. clientFiles \subseteq ClientFile
  BY DEF Init, ClientFile
<1>3. TypeOK
  BY <1>1, <1>2 DEF Init, TypeOK
<1> QED
  BY <1>3 DEF Init, TypeInv, PlanInRange, Uploading

\* A listing, and the steps that read.
LEMMA TypeReading ==
    ASSUME TypeInv, NEW p \in Proc,
           LoadStep(p) \/ Write(p) \/ CheckBaseline(p) \/ FetchClient(p) \/ Fail(p)
    PROVE  TypeInv'
<1> USE ConstantsOK
<1>1. ASSUME NEW next \in {"check_cache", "load_clients", "write_baseline"}, List(p, next)
      PROVE  TypeInv'
  <2>1. Listing \in Listings /\ CurrentView \in SUBSET TailId
    BY ListingType, ViewType DEF TypeInv, TypeOK, CurrentView
  <2>2. Listing.clients \in SUBSET ClientName
    BY <2>1 DEF Listings
  <2>3. TypeOK'
    BY <1>1, <2>1, <2>2 DEF List, TypeInv, TypeOK, LoadPCs, WritePCs, server, ghosts, writing
  <2> QED
    BY <1>1, <2>3 DEF List, TypeInv, TypeOK, PlanInRange, Uploading, writing
<1>2. CASE Load(p) \/ ForcedLoad(p) \/ Write(p)
  BY <1>1, <1>2 DEF Load, ForcedLoad, Write
<1>3. CASE ReturnCached(p) \/ FailBaseline(p) \/ FailDelta(p) \/ Fail(p)
  BY <1>3, ReturnType
     DEF ReturnCached, FailBaseline, FailDelta, Fail, TypeInv, TypeOK, server, ghosts
<1>4. CASE MissCache(p)
  BY <1>4 DEF MissCache, TypeInv, TypeOK, PlanInRange, Uploading, LoadPCs,
              server, ghosts, reading, writing
<1>5. CASE FetchBaseline(p)
  <2>1. want' \in [Proc -> SUBSET Delta]
    BY <1>5 DEF FetchBaseline, TypeInv, TypeOK, Listings
  <2> QED
    BY <1>5, <2>1 DEF FetchBaseline, TypeInv, TypeOK, PlanInRange, Uploading, LoadPCs,
                      server, ghosts, writing
<1>6. CASE FetchDelta(p)
  BY <1>6 DEF FetchDelta, TypeInv, TypeOK, PlanInRange, Uploading, server, ghosts, writing
<1>7. CASE SaveModel(p)
  <2>1. View(seen[p], read[p], got[p]) \subseteq TailId
    BY ViewType DEF TypeInv, TypeOK
  <2>2. cache'.model \subseteq TailId
    BY <1>7, <2>1 DEF SaveModel
  <2> QED
    BY <1>7, <2>2, ReturnType DEF SaveModel, TypeInv, TypeOK, server, ghosts
<1>8. CASE CheckBaseline(p)
  <2>1. CASE seen[p].base = base
    BY <1>8, <2>1 DEF CheckBaseline, TypeInv, TypeOK, PlanInRange, Uploading, WritePCs,
                      server, ghosts, reading, writing
  <2>2. CASE seen[p].base # base
    BY <1>8, <2>2, ReturnType DEF CheckBaseline, TypeInv, TypeOK, server, ghosts
  <2> QED
    BY <2>1, <2>2
<1>9. CASE FetchClient(p)
  <2>1. left' \in [Proc -> SUBSET ClientName]
    <3>1. PICK n \in left[p] : left' = [left EXCEPT ![p] = @ \ {n}]
      BY <1>9 DEF FetchClient
    <3> QED
      BY <3>1 DEF TypeInv, TypeOK
  <2>2. read' \in [Proc -> SUBSET ClientFile]
    <3>1. \/ \E f \in clientFiles : read' = [read EXCEPT ![p] = @ \cup {f}]
          \/ read' = read
      BY <1>9 DEF FetchClient
    <3>2. clientFiles \subseteq ClientFile /\ read \in [Proc -> SUBSET ClientFile]
      BY DEF TypeInv, TypeOK
    <3> QED
      BY <3>1, <3>2
  <2> QED
    BY <1>9, <2>1, <2>2 DEF FetchClient, TypeInv, TypeOK, PlanInRange, Uploading,
                      server, ghosts, writing
<1> QED
  BY <1>2, <1>3, <1>4, <1>5, <1>6, <1>7, <1>8, <1>9 DEF LoadStep

\* The plan of a write, attached to tail t.
LEMMA ChainType ==
    ASSUME TypeInv, NEW t \in TailId, NEW n \in 1..MaxChain, NEW ids \in [1..n -> TailId]
    PROVE  /\ Chain(t, ids) \in Seq(Delta)
           /\ Len(Chain(t, ids)) = n
           /\ Range(ids) \subseteq TailId
<1> USE ConstantsOK
<1>1. Len(ids) = n
  OBVIOUS
<1>2. ASSUME NEW i \in 1..n
      PROVE  [ts |-> clock + (i - 1),
              parents |-> <<IF i = 1 THEN t ELSE ids[i - 1]>>,
              tail |-> ids[i]] \in Delta
  <2>1. clock + (i - 1) \in Nat
    BY DEF TypeInv, TypeOK
  <2>2. (IF i = 1 THEN t ELSE ids[i - 1]) \in TailId
    OBVIOUS
  <2> QED
    BY <2>1, <2>2 DEF Delta
<1>3. Chain(t, ids) \in [1..n -> Delta]
  BY <1>1, <1>2 DEF Chain
<1>4. Chain(t, ids) \in Seq(Delta) /\ Len(Chain(t, ids)) = n
  BY <1>3
<1>5. Range(ids) \subseteq TailId
  BY DEF Range
<1> QED
  BY <1>4, <1>5

LEMMA TypeWriting ==
    ASSUME TypeInv, NEW p \in Proc,
           PlanWrite(p) \/ PutDelta(p) \/ PutClient(p) \/ FinishDelta(p)
    PROVE  TypeInv'
<1> USE ConstantsOK
<1>1. CASE PlanWrite(p)
  <2>1. PICK t \in Frontier(seen[p], read[p]), ids \in FreshIds :
               /\ from' = [from EXCEPT ![p] = t]
               /\ plan' = [plan EXCEPT ![p] = Chain(t, ids)]
               /\ issued' = issued \cup Range(ids)
    BY <1>1 DEF PlanWrite
  <2>2. t \in TailId
    BY <2>1, FrontierType DEF TypeInv, TypeOK
  <2>3. PICK n \in 1..MaxChain : ids \in [1..n -> TailId]
    BY DEF FreshIds
  <2>4. Chain(t, ids) \in Seq(Delta) /\ Len(Chain(t, ids)) = n /\ Range(ids) \subseteq TailId
    BY <2>2, <2>3, ChainType
  <2>5. TypeOK'
    BY <1>1, <2>1, <2>2, <2>4
       DEF PlanWrite, TypeInv, TypeOK, WritePCs, server, reading
  <2>6. at[p] = 1 /\ 1 \in DOMAIN Chain(t, ids)
    BY <1>1, <2>4 DEF PlanWrite, TypeInv, PlanInRange, Uploading
  <2> QED
    BY <1>1, <2>1, <2>4, <2>5, <2>6
       DEF PlanWrite, TypeInv, TypeOK, PlanInRange, Uploading
<1>2. CASE PutDelta(p)
  <2>1. plan[p][at[p]] \in Delta
    BY <1>2 DEF PutDelta, TypeInv, TypeOK, PlanInRange, Uploading
  <2> QED
    BY <1>2, <2>1 DEF PutDelta, TypeInv, TypeOK, PlanInRange, Uploading, WritePCs,
                      ghosts, reading, writing
<1>3. CASE PutClient(p)
  <2>1. plan[p][at[p]] \in Delta
    BY <1>3 DEF PutClient, TypeInv, TypeOK, PlanInRange, Uploading
  <2>2. ClientDocument(p) \in ClientFile
    BY <2>1 DEF ClientDocument, ClientFile, Delta, TypeInv, TypeOK
  <2>3. clientFiles' \subseteq ClientFile
    BY <1>3, <2>2 DEF PutClient, Overwrite, TypeInv, TypeOK
  <2> QED
    BY <1>3, <2>3 DEF PutClient, TypeInv, TypeOK, PlanInRange, Uploading, WritePCs,
                      ghosts, reading, writing
<1>4. CASE FinishDelta(p) /\ ~ LastDelta(p)
  <2>1. /\ cache' = None
        /\ at' = [at EXCEPT ![p] = @ + 1]
        /\ pc' = [pc EXCEPT ![p] = "put_delta"]
        /\ UNCHANGED <<server, clock, issued, calls, pushes, acked,
                       seen, reading, due, from, plan>>
    BY <1>4 DEF FinishDelta
  <2>2. at[p] + 1 \in DOMAIN plan[p] /\ at[p] + 1 \in 1..MaxChain
    BY <1>4 DEF LastDelta, TypeInv, TypeOK, PlanInRange
  <2>3. TypeOK'
    BY <2>1, <2>2 DEF TypeInv, TypeOK, WritePCs, server, reading
  <2> QED
    BY <2>1, <2>2, <2>3 DEF TypeInv, TypeOK, PlanInRange, Uploading
<1>5. CASE FinishDelta(p) /\ LastDelta(p)
  <2>1. {d.tail : d \in Range(plan[p])} \subseteq TailId
    <3>1. plan[p] \in Seq(Delta)
      BY DEF TypeInv, TypeOK
    <3>2. Range(plan[p]) \subseteq Delta
      BY <3>1 DEF Range
    <3> QED
      BY <3>2 DEF Delta
  <2>2. /\ cache' = None
        /\ acked' = acked \cup {d.tail : d \in Range(plan[p])}
        /\ Return(p)
        /\ UNCHANGED <<server, clock, issued, calls, pushes>>
    BY <1>5 DEF FinishDelta
  <2> QED
    BY <2>1, <2>2, ReturnType DEF TypeInv, TypeOK, server
<1> QED
  BY <1>1, <1>2, <1>3, <1>4, <1>5

LEMMA TypeApp ==
    ASSUME TypeInv, AppStep \/ Tick
    PROVE  TypeInv'
<1> USE ConstantsOK
<1> DEFINE F == Frontier(Listing, clientFiles)
<1>1. F \subseteq TailId
  BY ListingType, FrontierType DEF TypeInv, TypeOK, F
<1> HIDE DEF F
<1>2. TailTuples(F) \subseteq Seq(TailId)
  <2>1. \A t \in F : <<t>> \in Seq(TailId)
    BY <1>1
  <2>2. ASSUME NEW s \in F \X F PROVE s \in Seq(TailId)
    <3>1. PICK t \in F, u \in F : s = <<t, u>>
      OBVIOUS
    <3>2. t \in TailId /\ u \in TailId
      BY <1>1
    <3>3. <<t, u>> \in Seq(TailId)
      BY <3>2
    <3> QED
      BY <3>1, <3>3
  <2> QED
    BY <2>1, <2>2 DEF TailTuples
<1>3. ASSUME NEW ts \in Seq(TailId)
      PROVE  Documents(App, ts) \subseteq ClientFile
  BY DEF Documents, ClientFile, TypeInv, TypeOK
<1>4. PlanInRange' /\ UNCHANGED local
  BY DEF AppStep, AppPush, AppAdvertise, AppCompact, AppSweep, Tick, TypeInv, PlanInRange,
         local, writing
<1>5. CASE AppPush
  <2>1. PICK ps \in TailTuples(F), t \in TailId :
               /\ deltas' = deltas \cup {[ts |-> clock, parents |-> ps, tail |-> t]}
               /\ issued' = issued \cup {t}
               /\ clientFiles' = Documents(App, <<t>>)
    BY <1>5 DEF AppPush, F
  <2>2. ps \in Seq(TailId) /\ <<t>> \in Seq(TailId) /\ clock \in Nat
    BY <1>2 DEF TypeInv, TypeOK
  <2>3. [ts |-> clock, parents |-> ps, tail |-> t] \in Delta
    BY <2>2 DEF Delta
  <2>4. deltas' \subseteq Delta /\ clientFiles' \subseteq ClientFile
    BY <1>3, <2>1, <2>2, <2>3 DEF TypeInv, TypeOK
  <2>5. pushes' = pushes + 1 /\ UNCHANGED <<base, folded, cache, clock, calls, acked>>
    BY <1>5 DEF AppPush
  <2>6. issued' \subseteq TailId
    BY <2>1 DEF TypeInv, TypeOK
  <2>7. TypeOK'
    BY <1>4, <2>4, <2>5, <2>6 DEF TypeInv, TypeOK, local, reading, writing
  <2> QED
    BY <1>4, <2>7 DEF TypeInv
<1>6. CASE AppAdvertise
  BY <1>2, <1>3, <1>4, <1>6
     DEF AppAdvertise, F, TypeInv, TypeOK, local, ghosts, reading, writing
<1>7. CASE AppCompact
  <2>1. PICK t \in Tails(Listing) :
               /\ base' = [snap |-> base.snap + 1, tail |-> t]
               /\ folded' = folded \cup Selected(Listing, {t})
    BY <1>7 DEF AppCompact
  <2>2. Tails(Listing) \subseteq TailId /\ Selected(Listing, {t}) \subseteq TailId
    BY DEF Tails, Selected, Above, Listing, TypeInv, TypeOK, Delta
  <2>3. base' \in Baseline
    BY <2>1, <2>2 DEF Baseline, TypeInv, TypeOK
  <2> QED
    BY <1>4, <1>7, <2>1, <2>2, <2>3
       DEF AppCompact, TypeInv, TypeOK, local, ghosts, reading, writing
<1>8. CASE AppSweep
  BY <1>4, <1>8 DEF AppSweep, TypeInv, TypeOK, local, ghosts, reading, writing
<1>9. CASE Tick
  BY <1>4, <1>9 DEF Tick, TypeInv, TypeOK, local, server, reading, writing
<1> QED
  BY <1>5, <1>6, <1>7, <1>8, <1>9 DEF AppStep

LEMMA TypeNext == TypeInv /\ [Next]_vars => TypeInv'
<1> SUFFICES ASSUME TypeInv, [Next]_vars PROVE TypeInv'
  OBVIOUS
<1>1. ASSUME NEW p \in Proc, LoadStep(p) \/ WriteStep(p) \/ FetchClient(p) \/ Fail(p)
      PROVE  TypeInv'
  BY <1>1, TypeReading, TypeWriting DEF WriteStep
<1>2. CASE AppStep \/ Tick
  BY <1>2, TypeApp
<1>3. CASE UNCHANGED vars
  BY <1>3 DEF vars, server, ghosts, local, reading, writing, TypeInv, TypeOK, PlanInRange
<1> QED
  BY <1>1, <1>2, <1>3 DEF Next

(* Every reachable state is well typed: every frontier that a load or a    *)
(* write works from is made of real tails, and no write plan is overrun.   *)
THEOREM TypeCorrect == Spec => []TypeOK
<1>1. TypeInv => TypeOK
  BY DEF TypeInv
<1> QED
  BY <1>1, TypeInit, TypeNext, PTL DEF Spec

-----------------------------------------------------------------------------
(* What reaches the server, and in which order, for any number of          *)
(* processes that list, plan, upload and crash at any time, and an app     *)
(* that compacts whenever it likes. OrderInv says that whatever a process  *)
(* works from was already uploaded, and that a plan is uploaded from its   *)
(* first delta on.                                                         *)

\* The tails that are or were in the bundle.
Known == Tails(Listing) \cup folded \cup {BaseTail}

\* The i-th delta of the plan of p is on the server.
Uploaded(p, i) ==
    \/ i < at[p]
    \/ i = at[p] /\ pc[p] \in {"put_client", "finish"}

PlanAttached(p) ==
    \A i \in DOMAIN plan[p] :
        Parents(plan[p][i]) = {IF i = 1 THEN from[p] ELSE plan[p][i - 1].tail}

AllKnown(files) == \A f \in files : Range(f.tails) \subseteq Known

ProcKnown(p) ==
    /\ Tails(seen[p]) \subseteq Known /\ seen[p].base.tail \in Known
    /\ AllKnown(read[p])
    /\ from[p] \in Known
    /\ PlanAttached(p)
    /\ \A i \in DOMAIN plan[p] : Uploaded(p, i) => plan[p][i].tail \in Known

OrderInv ==
    /\ base.tail \in Known
    /\ \A d \in deltas : Parents(d) \subseteq Known
    /\ AllKnown(clientFiles)
    /\ \A p \in Proc : ProcKnown(p)

-----------------------------------------------------------------------------
LEMMA KnownOf ==
    ASSUME NEW ds, NEW e
    PROVE  {d.tail : d \in ds \cup {e}} = {d.tail : d \in ds} \cup {e.tail}
OBVIOUS

LEMMA KnownExpanded ==
    /\ Known = {d.tail : d \in deltas} \cup folded \cup {BaseTail}
    /\ Known' = {d.tail : d \in deltas'} \cup folded' \cup {BaseTail}
BY DEF Known, Tails, Listing

\* What is known stays known.
LEMMA KnownGrows ==
    ASSUME Next
    PROVE  Known \subseteq Known'
<1>1. CASE UNCHANGED <<deltas, folded>>
  BY <1>1, KnownExpanded
<1>2. CASE UNCHANGED folded /\ \E e : deltas' = deltas \cup {e}
  BY <1>2, KnownExpanded
<1>3. CASE AppCompact
  BY <1>3, KnownExpanded DEF AppCompact
<1>4. CASE AppSweep
  BY <1>4, KnownExpanded DEF AppSweep
<1>5. ASSUME NEW p \in Proc, LoadStep(p) PROVE UNCHANGED <<deltas, folded>>
  BY <1>5 DEF LoadStep, Load, ForcedLoad, List, ReturnCached, MissCache, FetchBaseline,
              FailBaseline, FetchDelta, FailDelta, SaveModel, server
<1>6. ASSUME NEW p \in Proc, FetchClient(p) \/ Fail(p) PROVE UNCHANGED <<deltas, folded>>
  BY <1>6 DEF FetchClient, Fail, server
<1>7. ASSUME NEW p \in Proc, WriteStep(p)
      PROVE  UNCHANGED folded /\ (UNCHANGED deltas \/ \E e : deltas' = deltas \cup {e})
  BY <1>7 DEF WriteStep, Write, List, CheckBaseline, PlanWrite, PutDelta, PutClient,
              FinishDelta, server
<1>8. CASE AppPush \/ AppAdvertise \/ Tick
  <2>1. UNCHANGED folded /\ (UNCHANGED deltas \/ \E e : deltas' = deltas \cup {e})
    BY <1>8 DEF AppPush, AppAdvertise, Tick, server
  <2> QED
    BY <1>1, <1>2, <2>1
<1> QED
  BY <1>1, <1>2, <1>3, <1>4, <1>5, <1>6, <1>7, <1>8 DEF Next, AppStep

LEMMA AllKnownGrows ==
    ASSUME Known \subseteq Known', NEW files, AllKnown(files)
    PROVE  \A f \in files : Range(f.tails) \subseteq Known'
BY DEF AllKnown

\* A process that does not step.
LEMMA OthersKnown ==
    ASSUME Known \subseteq Known', NEW q \in Proc, ProcKnown(q),
           seen'[q] = seen[q], read'[q] = read[q], from'[q] = from[q],
           plan'[q] = plan[q], at'[q] = at[q], pc'[q] = pc[q]
    PROVE  ProcKnown(q)'
<1>1. Tails(seen[q])' = Tails(seen[q]) /\ seen'[q].base.tail \in Known'
  BY DEF ProcKnown, Tails
<1>2. AllKnown(read[q])'
  BY DEF ProcKnown, AllKnown
<1>3. PlanAttached(q)'
  BY DEF ProcKnown, PlanAttached
<1>4. \A i \in DOMAIN plan'[q] : Uploaded(q, i)' => plan'[q][i].tail \in Known'
  BY DEF ProcKnown, Uploaded
<1> QED
  BY <1>1, <1>2, <1>3, <1>4 DEF ProcKnown

\* A process whose call is over.
LEMMA ReturnKnown ==
    ASSUME TypeInv, NEW p \in Proc, Return(p)
    PROVE  ProcKnown(p)'
<1>1. seen'[p] = NoListing /\ read'[p] = {} /\ from'[p] = BaseTail /\ plan'[p] = <<>>
  BY DEF Return, TypeInv, TypeOK
<1>2. Tails(seen[p])' = {} /\ seen'[p].base.tail = BaseTail
  BY <1>1 DEF NoListing, Tails
<1>3. BaseTail \in Known'
  BY KnownExpanded
<1> QED
  BY <1>1, <1>2, <1>3 DEF ProcKnown, AllKnown, PlanAttached

LEMMA ReturnOthers ==
    ASSUME TypeInv, NEW p \in Proc, Return(p), NEW q \in Proc, q # p
    PROVE  /\ seen'[q] = seen[q] /\ read'[q] = read[q] /\ from'[q] = from[q]
           /\ plan'[q] = plan[q] /\ at'[q] = at[q] /\ pc'[q] = pc[q]
BY DEF Return, TypeInv, TypeOK

\* What is left when a call ends in a step that leaves the server alone, or
\* that only adds to it.
LEMMA ReturnOrder ==
    ASSUME TypeInv, OrderInv, Known \subseteq Known', NEW p \in Proc, Return(p)
    PROVE  \A q \in Proc : ProcKnown(q)'
<1> SUFFICES ASSUME NEW q \in Proc PROVE ProcKnown(q)'
  OBVIOUS
<1>1. CASE q = p
  BY <1>1, ReturnKnown
<1>2. CASE q # p
  <2>1. ProcKnown(q)
    BY DEF OrderInv
  <2> QED
    BY <1>2, <2>1, ReturnOthers, OthersKnown
<1> QED
  BY <1>1, <1>2

\* The server as a step leaves it alone.
LEMMA SameServer ==
    ASSUME OrderInv, Known \subseteq Known', UNCHANGED server
    PROVE  /\ base'.tail \in Known'
           /\ \A d \in deltas' : Parents(d) \subseteq Known'
           /\ AllKnown(clientFiles)'
BY DEF OrderInv, AllKnown, server

LEMMA OrderInit == Init => OrderInv
<1> SUFFICES ASSUME Init PROVE OrderInv
  OBVIOUS
<1>1. Known = {BaseTail}
  BY KnownExpanded DEF Init
<1>2. base.tail \in Known /\ deltas = {}
  BY <1>1 DEF Init, NoListing
<1>3. AllKnown(clientFiles)
  BY <1>1 DEF Init, AllKnown, Range
<1>4. ASSUME NEW p \in Proc PROVE ProcKnown(p)
  <2>1. Tails(seen[p]) = {} /\ seen[p].base.tail = BaseTail
    BY DEF Init, NoListing, Tails
  <2> QED
    BY <1>1, <2>1 DEF Init, ProcKnown, AllKnown, PlanAttached
<1> QED
  BY <1>2, <1>3, <1>4 DEF OrderInv

-----------------------------------------------------------------------------
\* The app attaches its deltas to known tails.
LEMMA FrontierKnown ==
    ASSUME OrderInv
    PROVE  /\ Frontier(Listing, clientFiles) \subseteq Known
           /\ \A ts \in TailTuples(Frontier(Listing, clientFiles)) : Range(ts) \subseteq Known
<1> DEFINE F == Frontier(Listing, clientFiles)
<1>1. F \subseteq Known
  <2>1. Tails(Listing) \subseteq Known /\ Listing.base.tail \in Known
    BY DEF Known, OrderInv, Listing
  <2> QED
    BY <2>1, FrontierFrom DEF OrderInv, AllKnown
<1>2. ASSUME NEW ts \in TailTuples(F) PROVE Range(ts) \subseteq F
  <2>1. CASE \E t \in F : ts = <<t>>
    BY <2>1 DEF Range
  <2>2. CASE \E t \in F, u \in F : ts = <<t, u>>
    BY <2>2 DEF Range
  <2> QED
    BY <2>1, <2>2 DEF TailTuples
<1> QED
  BY <1>1, <1>2

\* The delta that is uploaded next is attached to known tails.
LEMMA PutDeltaBelow ==
    ASSUME TypeInv, NEW p \in Proc, ProcKnown(p), PutDelta(p)
    PROVE  Parents(plan[p][at[p]]) \subseteq Known
<1>1. at[p] \in DOMAIN plan[p] /\ at[p] \in Nat /\ plan[p] \in Seq(Delta)
  BY ConstantsOK DEF PutDelta, TypeInv, TypeOK, PlanInRange, Uploading
<1>2. CASE at[p] = 1
  BY <1>1, <1>2 DEF ProcKnown, PlanAttached
<1>3. CASE at[p] # 1
  <2>1. DOMAIN plan[p] = 1..Len(plan[p]) /\ Len(plan[p]) \in Nat
    BY <1>1
  <2>2. at[p] - 1 \in DOMAIN plan[p] /\ at[p] - 1 < at[p]
    BY <1>1, <1>3, <2>1
  <2>3. Uploaded(p, at[p] - 1)
    BY <2>2 DEF Uploaded
  <2> QED
    BY <1>1, <1>3, <2>2, <2>3 DEF ProcKnown, PlanAttached
<1> QED
  BY <1>2, <1>3

LEMMA OrderReading ==
    ASSUME TypeInv, OrderInv, Known \subseteq Known', NEW p \in Proc,
           LoadStep(p) \/ Write(p) \/ CheckBaseline(p) \/ FetchClient(p) \/ Fail(p)
    PROVE  OrderInv'
<1>1. UNCHANGED server
  BY DEF LoadStep, Load, ForcedLoad, List, ReturnCached, MissCache, FetchBaseline,
         FailBaseline, FetchDelta, FailDelta, SaveModel, Write, CheckBaseline,
         FetchClient, Fail
<1>2. SUFFICES ASSUME NEW q \in Proc PROVE ProcKnown(q)'
  BY <1>1, SameServer DEF OrderInv
<1>3. ProcKnown(q)
  BY DEF OrderInv
<1>4. CASE Return(p)
  BY <1>4, ReturnOrder
<1>5. ASSUME NEW next \in {"check_cache", "load_clients", "write_baseline"}, List(p, next)
      PROVE  ProcKnown(q)'
  <2>1. /\ pc' = [pc EXCEPT ![p] = next] /\ seen' = [seen EXCEPT ![p] = Listing]
        /\ UNCHANGED <<read, from, plan, at>>
    BY <1>5 DEF List, writing
  <2>2. CASE q # p
    BY <1>3, <2>1, <2>2, OthersKnown DEF TypeInv, TypeOK
  <2>3. CASE q = p
    <3>1. seen'[q] = Listing /\ pc'[q] = next
      BY <2>1, <2>3 DEF TypeInv, TypeOK
    <3>2. Tails(seen[q])' = Tails(Listing) /\ seen'[q].base.tail = base.tail
      BY <3>1 DEF Tails, Listing
    <3>3. Tails(Listing) \subseteq Known' /\ base.tail \in Known'
      BY DEF Known, OrderInv
    <3>4. pc'[q] \notin {"put_client", "finish"}
      BY <3>1
    <3>5. PlanAttached(q)' /\ AllKnown(read[q])' /\ from'[q] \in Known'
      BY <1>3, <2>1 DEF ProcKnown, PlanAttached, AllKnown
    <3>6. \A i \in DOMAIN plan'[q] : Uploaded(q, i)' => plan'[q][i].tail \in Known'
      BY <1>3, <2>1, <3>4 DEF ProcKnown, Uploaded
    <3> QED
      BY <3>2, <3>3, <3>5, <3>6 DEF ProcKnown
  <2> QED
    BY <2>2, <2>3
<1>6. CASE Load(p) \/ ForcedLoad(p) \/ Write(p)
  BY <1>5, <1>6 DEF Load, ForcedLoad, Write
<1>7. ASSUME NEW next \in {"load_clients", "load_deltas", "write_clients"},
             pc' = [pc EXCEPT ![p] = next],
             UNCHANGED <<seen, read, writing>>
      PROVE  ProcKnown(q)'
  <2>1. Uploaded(q, 1)' => Uploaded(q, 1)
    BY <1>7 DEF Uploaded, TypeInv, TypeOK, writing
  <2>2. \A i : Uploaded(q, i)' => Uploaded(q, i)
    BY <1>7 DEF Uploaded, TypeInv, TypeOK, writing
  <2>3. Tails(seen[q])' = Tails(seen[q]) /\ UNCHANGED <<seen, read, from, plan>>
    BY <1>7 DEF Tails, writing
  <2>4. PlanAttached(q)' /\ AllKnown(read[q])' /\ from'[q] \in Known'
    BY <1>3, <2>3 DEF ProcKnown, PlanAttached, AllKnown
  <2> QED
    BY <1>3, <2>2, <2>3, <2>4 DEF ProcKnown
<1>8. CASE MissCache(p)
  BY <1>7, <1>8 DEF MissCache, reading
<1>9. CASE FetchBaseline(p)
  BY <1>7, <1>9 DEF FetchBaseline
<1>10. CASE CheckBaseline(p) /\ ~ Return(p)
  BY <1>7, <1>10 DEF CheckBaseline, reading
<1>11. CASE FetchDelta(p)
  BY <1>3, <1>11, OthersKnown DEF FetchDelta, writing
<1>12. CASE FetchClient(p)
  <2>1. UNCHANGED <<pc, seen, from, plan, at>>
    BY <1>12 DEF FetchClient, writing
  <2>2. \/ \E f \in clientFiles : read' = [read EXCEPT ![p] = @ \cup {f}]
        \/ read' = read
    BY <1>12 DEF FetchClient
  <2>3. \A f \in read'[q] : f \in read[q] \/ f \in clientFiles
    BY <2>2 DEF TypeInv, TypeOK
  <2>4. AllKnown(read[q])'
    BY <1>3, <2>3 DEF AllKnown, ProcKnown, OrderInv
  <2>5. Tails(seen[q])' = Tails(seen[q])
    BY <2>1 DEF Tails
  <2>6. PlanAttached(q)' /\ (\A i : Uploaded(q, i)' <=> Uploaded(q, i))
    BY <1>3, <2>1 DEF ProcKnown, PlanAttached, Uploaded
  <2> QED
    BY <1>3, <2>1, <2>4, <2>5, <2>6 DEF ProcKnown
<1> QED
  BY <1>4, <1>6, <1>8, <1>9, <1>10, <1>11, <1>12
     DEF LoadStep, ReturnCached, FailBaseline, FailDelta, SaveModel, Fail

LEMMA OrderWriting ==
    ASSUME TypeInv, OrderInv, Known \subseteq Known', NEW p \in Proc,
           PlanWrite(p) \/ PutDelta(p) \/ PutClient(p) \/ FinishDelta(p)
    PROVE  OrderInv'
<1> USE ConstantsOK
<1>1. ProcKnown(p)
  BY DEF OrderInv
<1>2. ASSUME \A q \in Proc \ {p} :
                /\ seen'[q] = seen[q] /\ read'[q] = read[q] /\ from'[q] = from[q]
                /\ plan'[q] = plan[q] /\ at'[q] = at[q] /\ pc'[q] = pc[q],
             ProcKnown(p)'
      PROVE  \A q \in Proc : ProcKnown(q)'
  <2> SUFFICES ASSUME NEW q \in Proc, q # p PROVE ProcKnown(q)'
    BY <1>2
  <2>1. ProcKnown(q)
    BY DEF OrderInv
  <2> QED
    BY <1>2, <2>1, OthersKnown
<1>3. CASE PlanWrite(p)
  <2>1. UNCHANGED server
    BY <1>3 DEF PlanWrite
  <2>2. PICK t \in Frontier(seen[p], read[p]), ids \in FreshIds :
               /\ from' = [from EXCEPT ![p] = t]
               /\ plan' = [plan EXCEPT ![p] = Chain(t, ids)]
    BY <1>3 DEF PlanWrite
  <2>3. UNCHANGED <<seen, read, at>> /\ pc' = [pc EXCEPT ![p] = "put_delta"]
    BY <1>3 DEF PlanWrite, reading
  <2>4. t \in Known
    BY <1>1, FrontierFrom DEF ProcKnown, AllKnown
  <2>5. at[p] = 1
    BY <1>3 DEF PlanWrite, TypeInv, PlanInRange, Uploading
  <2>6. from'[p] = t /\ plan'[p] = Chain(t, ids) /\ pc'[p] = "put_delta" /\ at'[p] = 1
    BY <2>2, <2>3, <2>5 DEF TypeInv, TypeOK
  <2>7. PlanAttached(p)'
    <3>1. \A i \in DOMAIN Chain(t, ids) :
             Parents(Chain(t, ids)[i]) = {IF i = 1 THEN t ELSE ids[i - 1]}
      BY DEF Chain, Parents, Range
    <3>2. \A i \in DOMAIN Chain(t, ids) :
             i # 1 => i - 1 \in DOMAIN Chain(t, ids) /\ Chain(t, ids)[i - 1].tail = ids[i - 1]
      <4>1. PICK n \in 1..MaxChain : ids \in [1..n -> TailId]
        BY DEF FreshIds
      <4>2. Len(ids) = n
        BY <4>1
      <4> QED
        BY <4>2 DEF Chain
    <3> QED
      BY <2>6, <3>1, <3>2 DEF PlanAttached
  <2>8. \A i \in DOMAIN plan'[p] : ~ Uploaded(p, i)'
    <3>1. PICK n \in 1..MaxChain : ids \in [1..n -> TailId]
      BY DEF FreshIds
    <3>2. DOMAIN plan'[p] = 1..n
      BY <2>6, <3>1 DEF Chain
    <3> QED
      BY <2>6, <3>2 DEF Uploaded
  <2>9. ProcKnown(p)'
    <3>1. Tails(seen[p])' = Tails(seen[p]) /\ AllKnown(read[p])'
      BY <1>1, <2>3 DEF Tails, ProcKnown, AllKnown
    <3> QED
      BY <1>1, <2>3, <2>4, <2>6, <2>7, <2>8, <3>1 DEF ProcKnown
  <2>10. \A q \in Proc : ProcKnown(q)'
    BY <1>2, <2>2, <2>3, <2>9 DEF TypeInv, TypeOK
  <2> QED
    BY <2>1, <2>10, SameServer DEF OrderInv
<1>4. CASE PutDelta(p)
  <2> DEFINE e == plan[p][at[p]]
  <2>1. /\ deltas' = deltas \cup {e}
        /\ pc' = [pc EXCEPT ![p] = IF RefreshClientAfter(p) THEN "put_client" ELSE "finish"]
        /\ UNCHANGED <<base, clientFiles, seen, read, from, plan, at>>
    BY <1>4 DEF PutDelta, reading, writing
  <2>3. Parents(e) \subseteq Known
    BY <1>1, <1>4, PutDeltaBelow
  <2>4. e.tail \in Known'
    BY <2>1, KnownExpanded
  <2>5. /\ base'.tail \in Known'
        /\ \A d \in deltas' : Parents(d) \subseteq Known'
        /\ AllKnown(clientFiles)'
    BY <2>1, <2>3 DEF OrderInv, AllKnown
  <2>6. ProcKnown(p)'
    <3>1. Tails(seen[p])' = Tails(seen[p]) /\ AllKnown(read[p])' /\ PlanAttached(p)'
      BY <1>1, <2>1 DEF Tails, ProcKnown, AllKnown, PlanAttached
    <3>2. \A i \in DOMAIN plan[p] : Uploaded(p, i)' => Uploaded(p, i) \/ i = at[p]
      BY <2>1 DEF Uploaded
    <3>3. \A i \in DOMAIN plan'[p] : Uploaded(p, i)' => plan'[p][i].tail \in Known'
      BY <1>1, <2>1, <2>4, <3>2 DEF ProcKnown
    <3>4. from'[p] \in Known' /\ seen'[p].base.tail \in Known' /\ Tails(seen[p]) \subseteq Known'
      BY <1>1, <2>1 DEF ProcKnown
    <3> QED
      BY <3>1, <3>3, <3>4 DEF ProcKnown
  <2>7. \A q \in Proc : ProcKnown(q)'
    BY <1>2, <2>1, <2>6 DEF TypeInv, TypeOK
  <2> QED
    BY <2>5, <2>7 DEF OrderInv
<1>5. CASE PutClient(p)
  <2>1. /\ clientFiles' = Overwrite(clientFiles, ClientDocument(p))
        /\ pc[p] = "put_client" /\ pc' = [pc EXCEPT ![p] = "finish"]
        /\ UNCHANGED <<base, deltas, seen, read, from, plan, at>>
    BY <1>5 DEF PutClient, reading, writing
  <2>2. Range(ClientDocument(p).tails) \subseteq Known
    BY <1>1 DEF ClientDocument, Range, ProcKnown
  <2>3. AllKnown(clientFiles)'
    BY <2>1, <2>2 DEF AllKnown, OrderInv, Overwrite
  <2>4. \A i : Uploaded(p, i)' <=> Uploaded(p, i)
    BY <2>1 DEF Uploaded, TypeInv, TypeOK
  <2>5. Tails(seen[p])' = Tails(seen[p]) /\ AllKnown(read[p])' /\ PlanAttached(p)'
    BY <1>1, <2>1 DEF Tails, ProcKnown, AllKnown, PlanAttached
  <2>6. ProcKnown(p)'
    BY <1>1, <2>1, <2>4, <2>5 DEF ProcKnown
  <2>7. \A q \in Proc : ProcKnown(q)'
    BY <1>2, <2>1, <2>6 DEF TypeInv, TypeOK
  <2> QED
    BY <2>1, <2>3, <2>7 DEF OrderInv
<1>6. CASE FinishDelta(p) /\ Return(p)
  BY <1>6, ReturnOrder, SameServer DEF FinishDelta, OrderInv
<1>7. CASE FinishDelta(p) /\ ~ Return(p)
  <2>1. /\ pc[p] = "finish" /\ pc' = [pc EXCEPT ![p] = "put_delta"]
        /\ at' = [at EXCEPT ![p] = @ + 1]
        /\ UNCHANGED <<server, seen, read, from, plan>>
    BY <1>7 DEF FinishDelta, reading
  <2>2. at'[p] = at[p] + 1 /\ at[p] \in Nat /\ pc'[p] = "put_delta"
    BY <2>1 DEF TypeInv, TypeOK
  <2>3. \A i \in DOMAIN plan[p] : Uploaded(p, i)' => Uploaded(p, i)
    <3>1. DOMAIN plan[p] \subseteq Nat
      BY DEF TypeInv, TypeOK
    <3> QED
      BY <2>1, <2>2, <3>1 DEF Uploaded
  <2>4. Tails(seen[p])' = Tails(seen[p]) /\ AllKnown(read[p])' /\ PlanAttached(p)'
    BY <1>1, <2>1 DEF Tails, ProcKnown, AllKnown, PlanAttached
  <2>5. ProcKnown(p)'
    BY <1>1, <2>1, <2>3, <2>4 DEF ProcKnown
  <2>6. \A q \in Proc : ProcKnown(q)'
    BY <1>2, <2>1, <2>5 DEF TypeInv, TypeOK
  <2> QED
    BY <2>1, <2>6, SameServer DEF OrderInv
<1> QED
  BY <1>3, <1>4, <1>5, <1>6, <1>7

LEMMA OrderApp ==
    ASSUME TypeInv, OrderInv, Known \subseteq Known', AppStep \/ Tick
    PROVE  OrderInv'
<1>1. UNCHANGED local
  BY DEF AppStep, AppPush, AppAdvertise, AppCompact, AppSweep, Tick
<1>2. \A q \in Proc : ProcKnown(q)'
  BY <1>1, OthersKnown DEF OrderInv, local, reading, writing
<1>4. \A ts \in TailTuples(Frontier(Listing, clientFiles)) : Range(ts) \subseteq Known
  BY FrontierKnown
<1>5. ASSUME NEW ts, Range(ts) \subseteq Known', clientFiles' = Documents(App, ts)
      PROVE  AllKnown(clientFiles)'
  BY <1>5 DEF AllKnown, Documents, OrderInv
<1>6. CASE AppPush
  <2>1. PICK ps \in TailTuples(Frontier(Listing, clientFiles)), t \in TailId \ issued :
               /\ deltas' = deltas \cup {[ts |-> clock, parents |-> ps, tail |-> t]}
               /\ clientFiles' = Documents(App, <<t>>)
    BY <1>6 DEF AppPush
  <2>2. t \in Known' /\ Range(<<t>>) = {t}
    <3>1. [ts |-> clock, parents |-> ps, tail |-> t] \in deltas'
      BY <2>1
    <3>2. [ts |-> clock, parents |-> ps, tail |-> t].tail = t
      OBVIOUS
    <3>3. t \in {d.tail : d \in deltas'}
      BY <3>1, <3>2
    <3> QED
      BY <3>3, KnownExpanded DEF Range
  <2>3. \A d \in deltas' : Parents(d) \subseteq Known'
    BY <1>4, <2>1 DEF OrderInv, Parents
  <2>4. UNCHANGED base
    BY <1>6 DEF AppPush
  <2> QED
    BY <1>2, <1>5, <2>1, <2>2, <2>3, <2>4 DEF OrderInv
<1>7. CASE AppAdvertise
  <2>1. UNCHANGED <<base, deltas>> /\ AllKnown(clientFiles)'
    BY <1>4, <1>5, <1>7 DEF AppAdvertise
  <2> QED
    BY <1>2, <2>1 DEF OrderInv
<1>8. CASE AppCompact
  <2>1. base'.tail \in Tails(Listing) /\ UNCHANGED <<deltas, clientFiles>>
    BY <1>8 DEF AppCompact
  <2>2. base'.tail \in Known' /\ AllKnown(clientFiles)'
    BY <2>1 DEF Known, OrderInv, AllKnown
  <2> QED
    BY <1>2, <2>1, <2>2 DEF OrderInv
<1>9. CASE AppSweep
  <2>1. deltas' \subseteq deltas /\ UNCHANGED <<base, clientFiles>>
    BY <1>9 DEF AppSweep
  <2>2. AllKnown(clientFiles)'
    BY <2>1 DEF OrderInv, AllKnown
  <2> QED
    BY <1>2, <2>1, <2>2 DEF OrderInv
<1>10. CASE Tick
  <2>1. UNCHANGED server
    BY <1>10 DEF Tick
  <2> QED
    BY <1>2, <2>1, SameServer DEF OrderInv
<1> QED
  BY <1>6, <1>7, <1>8, <1>9, <1>10 DEF AppStep

LEMMA OrderNext == TypeInv /\ OrderInv /\ [Next]_vars => OrderInv'
<1> SUFFICES ASSUME TypeInv, OrderInv, [Next]_vars PROVE OrderInv'
  OBVIOUS
<1>1. CASE Next
  <2>1. Known \subseteq Known'
    BY <1>1, KnownGrows
  <2>2. ASSUME NEW p \in Proc, LoadStep(p) \/ WriteStep(p) \/ FetchClient(p) \/ Fail(p)
        PROVE  OrderInv'
    BY <2>1, <2>2, OrderReading, OrderWriting DEF WriteStep
  <2> QED
    BY <1>1, <2>1, <2>2, OrderApp DEF Next
<1>2. CASE UNCHANGED vars
  <2>1. UNCHANGED server /\ UNCHANGED <<pc, seen, read, from, plan, at>>
    BY <1>2 DEF vars, local, reading, writing
  <2>2. Known' = Known
    BY <2>1, KnownExpanded DEF server
  <2>3. \A q \in Proc : ProcKnown(q)'
    BY <2>1, <2>2, OthersKnown DEF OrderInv
  <2> QED
    BY <2>1, <2>2, <2>3, SameServer DEF OrderInv
<1> QED
  BY <1>1, <1>2

(* The order of uploads, strengthened to be inductive: whatever a process  *)
(* or a file names has been uploaded, or comes later in a plan of its own. *)
THEOREM OrderCorrect == Spec => []OrderInv
BY TypeInit, TypeNext, OrderInit, OrderNext, PTL DEF Spec

(* Whatever fails or crashes and whenever OmniFocus compacts the bundle,   *)
(* no delta is ever on the server before what it is attached to.           *)
THEOREM ParentsAreFirst == Spec => []ParentsFirst
<1>1. OrderInv => ParentsFirst
  BY DEF OrderInv, ParentsFirst, Known
<1> QED
  BY <1>1, OrderCorrect, PTL

(* No .client file ever announces a tail that was not uploaded.            *)
THEOREM AdvertsAreUploaded == Spec => []AdvertisedUploaded
<1>1. OrderInv => AdvertisedUploaded
  BY DEF OrderInv, AllKnown, AdvertisedUploaded, Known
<1> QED
  BY <1>1, OrderCorrect, PTL

-----------------------------------------------------------------------------
(* Pending tails are fresh. *)

\* The deltas that p has still to upload.
Pending(p) == {i \in DOMAIN plan[p] : ~ Uploaded(p, i)}

FreshInv ==
    /\ Known \subseteq issued
    /\ \A p \in Proc : \A i \in Pending(p) : plan[p][i].tail \in issued \ Known
    /\ \A p, q \in Proc : \A i \in Pending(p), j \in Pending(q) :
          plan[p][i].tail = plan[q][j].tail => p = q /\ i = j

\* A step that starts no plan and makes the tails X known, none of them pending.
LEMMA FreshKept ==
    ASSUME FreshInv, NEW X, Known' \subseteq Known \cup X, X \subseteq issued',
           issued \subseteq issued',
           \A q \in Proc :
              \/ plan'[q] = <<>>
              \/ /\ plan'[q] = plan[q]
                 /\ \A i \in DOMAIN plan[q] : Uploaded(q, i) => Uploaded(q, i)'
                 /\ \A i \in Pending(q)' : plan[q][i].tail \notin X
    PROVE  FreshInv'
<1>1. \A q \in Proc : \A i \in Pending(q)' :
         i \in Pending(q) /\ plan'[q] = plan[q] /\ plan[q][i].tail \notin X
  BY DEF Pending
<1>2. Known' \subseteq issued'
  BY DEF FreshInv
<1>3. \A q \in Proc : \A i \in Pending(q)' : plan'[q][i].tail \in issued' \ Known'
  BY <1>1 DEF FreshInv
<1>4. \A q, r \in Proc : \A i \in Pending(q)', j \in Pending(r)' :
         plan'[q][i].tail = plan'[r][j].tail => q = r /\ i = j
  BY <1>1 DEF FreshInv
<1> QED
  BY <1>2, <1>3, <1>4 DEF FreshInv

LEMMA FreshInit == Init => FreshInv
<1> SUFFICES ASSUME Init PROVE FreshInv
  OBVIOUS
<1>1. Known \subseteq issued
  BY KnownExpanded DEF Init
<1>2. \A p \in Proc : Pending(p) = {}
  BY DEF Init, Pending
<1> QED
  BY <1>1, <1>2 DEF FreshInv

\* No step of a plan is undone, and what a call leaves is an empty plan.
LEMMA PlansKept ==
    ASSUME TypeInv, NEW p \in Proc,
           LoadStep(p) \/ Write(p) \/ CheckBaseline(p) \/ FetchClient(p) \/ Fail(p)
               \/ PutClient(p) \/ FinishDelta(p)
    PROVE  \A q \in Proc :
              \/ plan'[q] = <<>>
              \/ plan'[q] = plan[q] /\ \A i \in DOMAIN plan[q] : Uploaded(q, i) => Uploaded(q, i)'
<1> SUFFICES ASSUME NEW q \in Proc, plan'[q] # <<>>
             PROVE  plan'[q] = plan[q] /\ \A i \in DOMAIN plan[q] : Uploaded(q, i) => Uploaded(q, i)'
  OBVIOUS
<1>1. CASE Return(p)
  BY <1>1 DEF Return, TypeInv, TypeOK, Uploaded
<1>2. ASSUME UNCHANGED writing, NEW next, pc' = [pc EXCEPT ![p] = next] \/ pc' = pc,
             pc[p] \in {"put_client", "finish"} =>
                pc'[p] \in {"put_client", "finish"}
      PROVE  plan'[q] = plan[q] /\ \A i \in DOMAIN plan[q] : Uploaded(q, i) => Uploaded(q, i)'
  BY <1>2 DEF Uploaded, writing, TypeInv, TypeOK
<1>3. CASE Load(p) \/ ForcedLoad(p) \/ Write(p)
  BY <1>2, <1>3 DEF Load, ForcedLoad, Write, List
<1>4. CASE MissCache(p) \/ FetchBaseline(p) \/ FetchDelta(p) \/ FetchClient(p)
  BY <1>2, <1>4 DEF MissCache, FetchBaseline, FetchDelta, FetchClient
<1>5. CASE CheckBaseline(p) /\ ~ Return(p)
  BY <1>2, <1>5 DEF CheckBaseline
<1>6. CASE PutClient(p)
  <2>1. pc[p] = "put_client" /\ pc' = [pc EXCEPT ![p] = "finish"] /\ UNCHANGED writing
    BY <1>6 DEF PutClient
  <2>2. pc'[p] = "finish"
    BY <2>1 DEF TypeInv, TypeOK
  <2> QED
    BY <1>2, <2>1, <2>2
<1>7. CASE FinishDelta(p) /\ ~ Return(p)
  <2>1. /\ at' = [at EXCEPT ![p] = @ + 1] /\ pc' = [pc EXCEPT ![p] = "put_delta"]
        /\ plan' = plan
    BY <1>7 DEF FinishDelta
  <2>2. at[p] \in Nat /\ at'[p] = at[p] + 1
    BY <2>1 DEF TypeInv, TypeOK
  <2>3. \A i \in DOMAIN plan[p] : i \in Nat
    BY DEF TypeInv, TypeOK
  <2>4. CASE q = p
    BY <2>1, <2>2, <2>3, <2>4 DEF Uploaded
  <2>5. CASE q # p
    BY <2>1, <2>5 DEF Uploaded, TypeInv, TypeOK
  <2> QED
    BY <2>4, <2>5
<1> QED
  BY <1>1, <1>3, <1>4, <1>5, <1>6, <1>7
     DEF LoadStep, ReturnCached, FailBaseline, FailDelta, SaveModel, Fail

\* The delta that PutDelta uploads was pending.
LEMMA PutDeltaEffect ==
    ASSUME TypeInv, NEW p \in Proc, PutDelta(p)
    PROVE  /\ at[p] \in Pending(p)
           /\ deltas' = deltas \cup {plan[p][at[p]]}
           /\ Known' = Known \cup {plan[p][at[p]].tail}
           /\ UNCHANGED <<base, folded, issued, acked, plan, at>>
           /\ \A q \in Proc : \A i \in DOMAIN plan[q] : Uploaded(q, i) => Uploaded(q, i)'
           /\ Uploaded(p, at[p])'
<1>1. /\ deltas' = deltas \cup {plan[p][at[p]]}
      /\ UNCHANGED <<base, folded, issued, acked, plan, at>>
      /\ pc[p] = "put_delta"
      /\ pc' = [pc EXCEPT ![p] = IF RefreshClientAfter(p) THEN "put_client" ELSE "finish"]
  BY DEF PutDelta, ghosts, writing
<1>2. at[p] \in Pending(p)
  BY <1>1 DEF Pending, Uploaded, TypeInv, TypeOK, PlanInRange, Uploading
<1>3. pc'[p] \in {"put_client", "finish"} /\ \A q \in Proc \ {p} : pc'[q] = pc[q]
  BY <1>1 DEF TypeInv, TypeOK
<1>4. Uploaded(p, at[p])'
  BY <1>1, <1>3 DEF Uploaded
<1>5. \A q \in Proc : \A i \in DOMAIN plan[q] : Uploaded(q, i) => Uploaded(q, i)'
  BY <1>1, <1>3 DEF Uploaded
<1>6. Known' = Known \cup {plan[p][at[p]].tail}
  <2>1. {d.tail : d \in deltas'} = {d.tail : d \in deltas} \cup {plan[p][at[p]].tail}
    BY <1>1, KnownOf
  <2> QED
    BY <1>1, <2>1, KnownExpanded
<1> QED
  BY <1>1, <1>2, <1>4, <1>5, <1>6

\* The plan of PlanWrite is made of new tails.
LEMMA PlanWriteEffect ==
    ASSUME TypeInv, NEW p \in Proc, PlanWrite(p)
    PROVE  \E n \in 1..MaxChain : \E ids \in [1..n -> TailId \ issued] :
              /\ DOMAIN plan'[p] = 1..n
              /\ \A i \in 1..n : plan'[p][i].tail = ids[i]
              /\ \A i, j \in 1..n : ids[i] = ids[j] => i = j
              /\ issued' = issued \cup {ids[i] : i \in 1..n}
              /\ \A q \in Proc \ {p} : plan'[q] = plan[q] /\ pc'[q] = pc[q]
              /\ UNCHANGED <<base, folded, deltas, acked, at>>
<1>1. PICK t \in Frontier(seen[p], read[p]), ids \in FreshIds :
              /\ plan' = [plan EXCEPT ![p] = Chain(t, ids)]
              /\ issued' = issued \cup Range(ids)
  BY DEF PlanWrite
<1>2. PICK n \in 1..MaxChain :
              /\ ids \in [1..n -> TailId \ issued]
              /\ \A i, j \in 1..n : ids[i] = ids[j] => i = j
  BY DEF FreshIds
<1>3. Range(ids) = {ids[i] : i \in 1..n}
  BY <1>2 DEF Range
<1>4. plan'[p] = Chain(t, ids) /\ \A q \in Proc \ {p} : plan'[q] = plan[q]
  BY <1>1 DEF TypeInv, TypeOK
<1>5. Len(ids) = n
  BY <1>2, ConstantsOK
<1>6. DOMAIN plan'[p] = 1..n /\ \A i \in 1..n : plan'[p][i].tail = ids[i]
  BY <1>4, <1>5 DEF Chain
<1>7. UNCHANGED <<base, folded, deltas, acked, at>> /\ \A q \in Proc \ {p} : pc'[q] = pc[q]
  BY DEF PlanWrite, server, TypeInv, TypeOK
<1> QED
  BY <1>1, <1>2, <1>3, <1>4, <1>6, <1>7

LEMMA FreshNext == TypeInv /\ FreshInv /\ [Next]_vars => FreshInv'
<1> SUFFICES ASSUME TypeInv, FreshInv, [Next]_vars PROVE FreshInv'
  OBVIOUS
<1>1. ASSUME Known' \subseteq Known, issued \subseteq issued',
             \A q \in Proc :
                \/ plan'[q] = <<>>
                \/ plan'[q] = plan[q] /\ \A i \in DOMAIN plan[q] : Uploaded(q, i) => Uploaded(q, i)'
      PROVE  FreshInv'
  BY <1>1, FreshKept
<1>2. ASSUME NEW p \in Proc,
             LoadStep(p) \/ Write(p) \/ CheckBaseline(p) \/ FetchClient(p) \/ Fail(p)
                 \/ PutClient(p) \/ FinishDelta(p)
      PROVE  FreshInv'
  <2>1. UNCHANGED <<deltas, folded, issued>>
    BY <1>2 DEF LoadStep, Load, ForcedLoad, List, ReturnCached, MissCache, FetchBaseline,
                FailBaseline, FetchDelta, FailDelta, SaveModel, Write, CheckBaseline,
                FetchClient, Fail, PutClient, FinishDelta, server, ghosts
  <2> QED
    BY <1>1, <1>2, <2>1, PlansKept, KnownExpanded
<1>3. ASSUME NEW p \in Proc, PlanWrite(p) PROVE FreshInv'
  <2> DEFINE Effect(n, ids) ==
              /\ DOMAIN plan'[p] = 1..n
              /\ \A i \in 1..n : plan'[p][i].tail = ids[i]
              /\ \A i, j \in 1..n : ids[i] = ids[j] => i = j
              /\ issued' = issued \cup {ids[i] : i \in 1..n}
              /\ \A q \in Proc \ {p} : plan'[q] = plan[q] /\ pc'[q] = pc[q]
              /\ UNCHANGED <<base, folded, deltas, acked, at>>
  <2>0. PICK n \in 1..MaxChain : \E ids \in [1..n -> TailId \ issued] : Effect(n, ids)
    BY <1>3, PlanWriteEffect
  <2>1. PICK ids \in [1..n -> TailId \ issued] : Effect(n, ids)
    BY <2>0
  <2>2. Known' = Known
    BY <2>1, KnownExpanded
  <2>3. \A q \in Proc \ {p} : Pending(q)' = Pending(q) /\ plan'[q] = plan[q]
    BY <2>1 DEF Pending, Uploaded
  <2>4. \A i \in Pending(p)' : i \in 1..n /\ plan'[p][i].tail = ids[i]
    BY <2>1 DEF Pending
  <2>5. \A q \in Proc \ {p} : \A i \in Pending(q)' : plan'[q][i].tail \in issued \ Known
    BY <2>3 DEF FreshInv
  <2>6. \A i \in Pending(p)' : plan'[p][i].tail \in issued' \ issued
    BY <2>1, <2>4
  <2>7. Known' \subseteq issued'
    BY <2>1, <2>2 DEF FreshInv
  <2>8. \A q \in Proc : \A i \in Pending(q)' : plan'[q][i].tail \in issued' \ Known'
    BY <2>1, <2>2, <2>5, <2>6 DEF FreshInv
  <2>9. ASSUME NEW q \in Proc, NEW r \in Proc, NEW i \in Pending(q)', NEW j \in Pending(r)',
               plan'[q][i].tail = plan'[r][j].tail
        PROVE  q = r /\ i = j
    <3>1. CASE q = p /\ r = p
      BY <2>1, <2>4, <2>9, <3>1
    <3>2. CASE q # p /\ r # p
      BY <2>3, <2>9, <3>2 DEF FreshInv
    <3>3. CASE (q = p) # (r = p)
      BY <2>5, <2>6, <2>9, <3>3
    <3> QED
      BY <3>1, <3>2, <3>3
  <2> QED
    BY <2>7, <2>8, <2>9 DEF FreshInv
<1>4. ASSUME NEW p \in Proc, PutDelta(p) PROVE FreshInv'
  <2> DEFINE e == plan[p][at[p]]
  <2>1. /\ at[p] \in Pending(p) /\ Uploaded(p, at[p])'
        /\ Known' = Known \cup {e.tail}
        /\ UNCHANGED <<issued, plan, at>>
        /\ \A q \in Proc : \A i \in DOMAIN plan[q] : Uploaded(q, i) => Uploaded(q, i)'
    BY <1>4, PutDeltaEffect
  <2>2. {e.tail} \subseteq issued' /\ issued \subseteq issued'
    BY <2>1 DEF FreshInv
  <2>3. ASSUME NEW q \in Proc, NEW i \in Pending(q)' PROVE plan[q][i].tail # e.tail
    <3>1. i \in Pending(q)
      BY <2>1 DEF Pending
    <3>2. ~ (q = p /\ i = at[p])
      BY <2>1 DEF Pending
    <3> QED
      BY <2>1, <3>1, <3>2 DEF FreshInv
  <2>4. \A q \in Proc :
           /\ plan'[q] = plan[q]
           /\ \A i \in DOMAIN plan[q] : Uploaded(q, i) => Uploaded(q, i)'
           /\ \A i \in Pending(q)' : plan[q][i].tail \notin {e.tail}
    BY <2>1, <2>3
  <2> HIDE DEF e
  <2> QED
    BY <2>1, <2>2, <2>4, FreshKept
<1>5. CASE AppPush
  <2>1. PICK ps \in TailTuples(Frontier(Listing, clientFiles)), t \in TailId \ issued :
               /\ deltas' = deltas \cup {[ts |-> clock, parents |-> ps, tail |-> t]}
               /\ issued' = issued \cup {t}
    BY <1>5 DEF AppPush
  <2>2. UNCHANGED <<folded, pc, plan, at>>
    BY <1>5 DEF AppPush, local, writing
  <2>3. Known' = Known \cup {t}
    <3>1. {d.tail : d \in deltas'} = {d.tail : d \in deltas} \cup {t}
      BY <2>1, KnownOf
    <3> QED
      BY <2>2, <3>1, KnownExpanded
  <2>4. \A q \in Proc : /\ \A i \in DOMAIN plan[q] : Uploaded(q, i) => Uploaded(q, i)'
                        /\ Pending(q)' = Pending(q)
    BY <2>2 DEF Uploaded, Pending
  <2>5. \A q \in Proc : \A i \in Pending(q)' : plan[q][i].tail \notin {t}
    BY <2>4 DEF FreshInv
  <2> QED
    BY <2>1, <2>2, <2>3, <2>4, <2>5, FreshKept
<1>6. CASE AppAdvertise \/ AppCompact \/ AppSweep \/ Tick
  <2>1. UNCHANGED <<issued, pc, plan, at>>
    BY <1>6 DEF AppAdvertise, AppCompact, AppSweep, Tick, ghosts, local, writing
  <2>2. Known' \subseteq Known
    <3>1. CASE AppAdvertise \/ Tick
      BY <3>1, KnownExpanded DEF AppAdvertise, Tick, server
    <3>2. CASE AppCompact
      <4>1. PICK t : folded' = folded \cup Selected(Listing, {t})
        BY <3>2 DEF AppCompact
      <4>2. Selected(Listing, {t}) \subseteq Known
        BY DEF Selected, Above, Known
      <4>3. UNCHANGED deltas
        BY <3>2 DEF AppCompact
      <4> QED
        BY <4>1, <4>2, <4>3, KnownExpanded
    <3>3. CASE AppSweep
      BY <3>3, KnownExpanded DEF AppSweep
    <3> QED
      BY <1>6, <3>1, <3>2, <3>3
  <2>3. \A q \in Proc : \A i \in DOMAIN plan[q] : Uploaded(q, i) => Uploaded(q, i)'
    BY <2>1 DEF Uploaded
  <2> QED
    BY <1>1, <2>1, <2>2, <2>3
<1>7. CASE UNCHANGED vars
  <2>1. UNCHANGED <<issued, pc, plan, at>> /\ UNCHANGED <<deltas, folded>>
    BY <1>7 DEF vars, server, ghosts, local, writing
  <2>2. \A q \in Proc : \A i \in DOMAIN plan[q] : Uploaded(q, i) => Uploaded(q, i)'
    BY <2>1 DEF Uploaded
  <2> QED
    BY <1>1, <2>1, <2>2, KnownExpanded
<1> QED
  BY <1>2, <1>3, <1>4, <1>5, <1>6, <1>7 DEF Next, AppStep, WriteStep

-----------------------------------------------------------------------------
(* What was acknowledged is uploaded. *)

AckedInv ==
    /\ acked \subseteq Known
    /\ BaseTail \in issued /\ BaseTail \notin acked
    /\ \A p \in Proc : \A i \in DOMAIN plan[p] : plan[p][i].tail # BaseTail

LEMMA AckedInit == Init => AckedInv
BY KnownExpanded DEF Init, AckedInv

LEMMA AckedNext == TypeInv /\ OrderInv /\ AckedInv /\ [Next]_vars => AckedInv'
<1> SUFFICES ASSUME TypeInv, OrderInv, AckedInv, [Next]_vars PROVE AckedInv'
  OBVIOUS
<1>1. Known \subseteq Known'
  <2>1. CASE UNCHANGED vars
    BY <2>1, KnownExpanded DEF vars, server
  <2> QED
    BY <2>1, KnownGrows
<1>2. ASSUME UNCHANGED acked, issued \subseteq issued',
             \A q \in Proc : plan'[q] = plan[q] \/ plan'[q] = <<>>
      PROVE  AckedInv'
  BY <1>1, <1>2 DEF AckedInv
<1>3. ASSUME NEW p \in Proc,
             LoadStep(p) \/ Write(p) \/ CheckBaseline(p) \/ FetchClient(p) \/ Fail(p)
                 \/ PutClient(p)
      PROVE  AckedInv'
  <2>1. UNCHANGED <<acked, issued>>
    BY <1>3 DEF LoadStep, Load, ForcedLoad, List, ReturnCached, MissCache, FetchBaseline,
                FailBaseline, FetchDelta, FailDelta, SaveModel, Write, CheckBaseline,
                FetchClient, Fail, PutClient, ghosts
  <2> QED
    BY <1>2, <1>3, <2>1, PlansKept
<1>4. ASSUME NEW p \in Proc, PlanWrite(p) PROVE AckedInv'
  <2> DEFINE Effect(n, ids) ==
              /\ DOMAIN plan'[p] = 1..n
              /\ \A i \in 1..n : plan'[p][i].tail = ids[i]
              /\ \A i, j \in 1..n : ids[i] = ids[j] => i = j
              /\ issued' = issued \cup {ids[i] : i \in 1..n}
              /\ \A q \in Proc \ {p} : plan'[q] = plan[q] /\ pc'[q] = pc[q]
              /\ UNCHANGED <<base, folded, deltas, acked, at>>
  <2>1. PICK n \in 1..MaxChain : \E ids \in [1..n -> TailId \ issued] : Effect(n, ids)
    BY <1>4, PlanWriteEffect
  <2>2. PICK ids \in [1..n -> TailId \ issued] : Effect(n, ids)
    BY <2>1
  <2>3. \A i \in DOMAIN plan'[p] : plan'[p][i].tail \notin issued
    BY <2>2
  <2> QED
    BY <1>1, <2>2, <2>3 DEF AckedInv
<1>5. ASSUME NEW p \in Proc, PutDelta(p) PROVE AckedInv'
  BY <1>2, <1>5, PutDeltaEffect
<1>6. ASSUME NEW p \in Proc, FinishDelta(p) PROVE AckedInv'
  <2>1. \A q \in Proc : plan'[q] = plan[q] \/ plan'[q] = <<>>
    BY <1>6, PlansKept
  <2>2. CASE UNCHANGED acked
    BY <1>2, <1>6, <2>1, <2>2 DEF FinishDelta
  <2>3. CASE acked' # acked
    <3>a. /\ pc[p] = "finish" /\ LastDelta(p) /\ UNCHANGED issued
          /\ acked' = acked \cup {d.tail : d \in Range(plan[p])}
      BY <1>6, <2>3 DEF FinishDelta
    <3>b. at[p] \in 1..Len(plan[p])
      BY <3>a DEF TypeInv, TypeOK, PlanInRange, Uploading
    <3>1. /\ pc[p] = "finish" /\ at[p] = Len(plan[p]) /\ UNCHANGED issued
          /\ acked' = acked \cup {d.tail : d \in Range(plan[p])}
      BY <3>a, <3>b DEF LastDelta
    <3>2. plan[p] \in Seq(Delta) /\ DOMAIN plan[p] = 1..Len(plan[p]) /\ Len(plan[p]) \in Nat
      BY DEF TypeInv, TypeOK
    <3>3. \A i \in DOMAIN plan[p] : Uploaded(p, i)
      BY <3>1, <3>2 DEF Uploaded
    <3>4. \A i \in DOMAIN plan[p] : plan[p][i].tail \in Known \ {BaseTail}
      BY <3>3 DEF OrderInv, ProcKnown, AckedInv
    <3>5. \A d \in Range(plan[p]) : d.tail \in Known \ {BaseTail}
      BY <3>4 DEF Range
    <3> QED
      BY <1>1, <2>1, <3>1, <3>5 DEF AckedInv
  <2> QED
    BY <2>2, <2>3
<1>7. CASE AppStep \/ Tick
  <2>1. UNCHANGED <<acked, plan>> /\ issued \subseteq issued'
    BY <1>7 DEF AppStep, AppPush, AppAdvertise, AppCompact, AppSweep, Tick, ghosts, local,
                writing
  <2> QED
    BY <1>2, <2>1
<1>8. CASE UNCHANGED vars
  BY <1>2, <1>8 DEF vars, ghosts, local, writing
<1> QED
  BY <1>3, <1>4, <1>5, <1>6, <1>7, <1>8 DEF Next, WriteStep

-----------------------------------------------------------------------------
(* Every bundle is topped, whatever the app folds and whenever: BundleInv  *)
(* says how, and that no delta folded into the baseline is read again.     *)

BundleInv ==
    /\ base.tail \in folded \cup {BaseTail}
    /\ BaseTail \notin folded
    /\ \A d \in deltas : Parents(d) # {} /\ d.tail # BaseTail
    /\ Unique(Listing)
    /\ Topped(Listing)
    /\ folded \cap Walkable(Listing) \subseteq {base.tail}

\* The tails from which the baseline is reached.
Live == Walkable(Listing)

\* Nothing that matters goes away: what leads to the baseline, which is the
\* same, and the deltas that are not part of it.
BundleKept ==
    /\ Live \subseteq Live'
    /\ base'.tail = base.tail
    /\ \A d \in deltas : d.tail \notin folded => d \in deltas' /\ d.tail \notin folded'

LEMMA BundleInit == Init => BundleInv
<1> SUFFICES ASSUME Init PROVE BundleInv
  OBVIOUS
<1>1. Listing.deltas = {} /\ Listing.base.tail = BaseTail /\ folded = {} /\ deltas = {}
  BY DEF Init, Listing, NoListing
<1>2. Walkable(Listing) \subseteq {Listing.base.tail}
  BY <1>1, WalkableIsPart DEF Tails
<1> QED
  BY <1>1, <1>2 DEF BundleInv, Topped, Unique, Listing

\* A delta that reaches the server is new there.
LEMMA BundleGrows ==
    ASSUME TypeInv, OrderInv, BundleInv, UNCHANGED <<base, folded>>,
           NEW e, deltas' = deltas \cup {e}, Parents(e) \subseteq Known, Parents(e) # {},
           e.tail \notin Known,
           Walkable(Listing) \ {base.tail} # {} =>
              \/ Parents(e) \subseteq Walkable(Listing)
              \/ Parents(e) \cap Walkable(Listing) = {}
    PROVE  BundleInv' /\ BundleKept
<1> DEFINE L == Listing
           M == Listing'
<1>1. M.base = L.base /\ M.deltas = L.deltas \cup {e} /\ L.base = base /\ L.deltas = deltas
  BY DEF Listing
<1>2. e.tail \notin Tails(L) \cup {L.base.tail} \cup Parents(e) \cup folded \cup {BaseTail}
  BY <1>1 DEF Known, OrderInv
<1>3. \A d \in L.deltas : e.tail \notin Parents(d)
  BY <1>1 DEF OrderInv
<1>4. Parents(e) \cap (Walkable(L) \ {L.base.tail}) # {} => Parents(e) \subseteq Walkable(L)
  BY <1>1
<1>5. /\ Topped(M)
      /\ Walkable(L) \subseteq Walkable(M)
      /\ Walkable(M) \subseteq Walkable(L) \cup {e.tail}
  <2>1. Topped(L)
    BY DEF BundleInv
  <2> HIDE DEF L, M
  <2> QED
    BY <1>1, <1>2, <1>3, <1>4, <2>1, ToppedGrows
<1>6. Unique(M)
  <2>1. Unique(L) /\ \A d \in L.deltas : d.tail # e.tail
    BY <1>2 DEF BundleInv, Tails
  <2> QED
    BY <1>1, <2>1 DEF Unique
<1>7. folded \cap Walkable(M) \subseteq {base.tail}
  BY <1>2, <1>5 DEF BundleInv
<1>8. \A d \in deltas' : Parents(d) # {} /\ d.tail # BaseTail
  BY <1>2 DEF BundleInv
<1>9. BundleKept
  BY <1>5 DEF BundleKept, Live
<1> QED
  BY <1>5, <1>6, <1>7, <1>8, <1>9 DEF BundleInv

LEMMA BundlePushed ==
    ASSUME TypeInv, OrderInv, FreshInv, BundleInv, AppPush
    PROVE  BundleInv' /\ BundleKept
<1> DEFINE F == Frontier(Listing, clientFiles)
<1>1. PICK ps \in TailTuples(F), t \in TailId \ issued :
             deltas' = deltas \cup {[ts |-> clock, parents |-> ps, tail |-> t]}
  BY DEF AppPush
<1>2. t \notin Known
  BY <1>1 DEF FreshInv
<1>3. Range(ps) \subseteq Known
  BY FrontierKnown
<1>4. Range(ps) \subseteq F /\ Range(ps) # {}
  <2>1. CASE \E u \in F : ps = <<u>>
    BY <2>1 DEF Range
  <2>2. CASE \E u \in F, v \in F : ps = <<u, v>>
    BY <2>2 DEF Range
  <2> QED
    BY <2>1, <2>2 DEF TailTuples
<1>5. Walkable(Listing) \ {base.tail} # {} => Range(ps) \subseteq Walkable(Listing)
  <2>1. Listing.base = base /\ base.tail # NoTail
    BY ConstantsOK DEF Listing, TypeInv, TypeOK, Baseline
  <2>2. Walkable(Listing) \ {base.tail} # {} => F \subseteq Walkable(Listing)
    BY <2>1, FrontierWalks
  <2> QED
    BY <1>4, <2>2
<1> DEFINE e == [ts |-> clock, parents |-> ps, tail |-> t]
<1>6. deltas' = deltas \cup {e} /\ e.tail = t /\ Parents(e) = Range(ps)
  BY <1>1 DEF Parents
<1>7. UNCHANGED <<base, folded>>
  BY DEF AppPush
<1> HIDE DEF e, F
<1> QED
  BY <1>2, <1>3, <1>4, <1>5, <1>6, <1>7, BundleGrows

LEMMA BundlePut ==
    ASSUME TypeInv, OrderInv, FreshInv, BundleInv, NEW p \in Proc, PutDelta(p)
    PROVE  BundleInv' /\ BundleKept
<1> DEFINE e == plan[p][at[p]]
<1>1. at[p] \in Pending(p) /\ deltas' = deltas \cup {e} /\ UNCHANGED <<base, folded>>
  BY PutDeltaEffect
<1>2. e.tail \notin Known
  BY <1>1 DEF FreshInv
<1>3. Parents(e) \subseteq Known
  BY PutDeltaBelow DEF OrderInv
<1>4. \E x : Parents(e) = {x}
  <2>1. at[p] \in DOMAIN plan[p] /\ ProcKnown(p)
    BY <1>1 DEF Pending, OrderInv
  <2>2. Parents(e) = {IF at[p] = 1 THEN from[p] ELSE plan[p][at[p] - 1].tail}
    BY <2>1 DEF ProcKnown, PlanAttached
  <2> QED
    BY <2>2
<1> HIDE DEF e
<1>5. \/ Parents(e) \subseteq Walkable(Listing)
      \/ Parents(e) \cap Walkable(Listing) = {}
  BY <1>4
<1> QED
  BY <1>1, <1>2, <1>3, <1>4, <1>5, BundleGrows

LEMMA BundleSwept ==
    ASSUME TypeInv, BundleInv, AppSweep
    PROVE  BundleInv' /\ BundleKept
<1>1. PICK d \in deltas : d.tail \in folded /\ deltas' = deltas \ {d}
  BY DEF AppSweep
<1>2. UNCHANGED <<base, folded>>
  BY DEF AppSweep
<1> DEFINE L == Listing
           M == Listing'
<1>3. L.base = base /\ L.deltas = deltas /\ M.base = base /\ M.deltas = L.deltas \ {d}
  BY <1>1, <1>2 DEF Listing
<1>4. d.tail \in Walkable(L) => d.tail = L.base.tail
  BY <1>1, <1>3 DEF BundleInv
<1>5. Topped(L) /\ Unique(L)
  BY DEF BundleInv
<1>6. Topped(M) /\ Walkable(M) = Walkable(L)
  <2>1. M.base.tail = L.base.tail /\ d \in L.deltas
    BY <1>1, <1>3
  <2> HIDE DEF L, M
  <2> QED
    BY ONLY <1>3, <1>4, <1>5, <2>1, ToppedSwept
<1>7. Unique(M)
  BY <1>3, <1>5 DEF Unique
<1>8. BundleKept
  BY <1>1, <1>2, <1>6 DEF BundleKept, Live
<1> QED
  BY <1>1, <1>2, <1>3, <1>6, <1>7, <1>8 DEF BundleInv

LEMMA BundleCompacted ==
    ASSUME TypeInv, BundleInv, AppCompact
    PROVE  /\ BundleInv'
           /\ base.tail \notin Tails(Listing)
           /\ \E t \in Tails(Listing) \cap Live :
                 /\ SeenByAll(t)
                 /\ t \in Live'
                 /\ folded' = folded \cup Selected(Listing, {t})
                 /\ Live \ Selected(Listing, {t}) \subseteq Live' \cup {base.tail}
<1> DEFINE L == Listing
           M == Listing'
<1>1. Tails(L) \cap folded = {} /\ UNCHANGED deltas
  BY DEF AppCompact
<1>2. PICK t \in Tails(L) \cap Walkable(L) :
        /\ SeenByAll(t)
        /\ \A d \in {e \in deltas : e.tail \notin Selected(L, {t})} :
              Parents(d) \subseteq
                 {t} \cup {e.tail : e \in {f \in deltas : f.tail \notin Selected(L, {t})}}
        /\ base' = [snap |-> base.snap + 1, tail |-> t]
        /\ folded' = folded \cup Selected(L, {t})
  BY DEF AppCompact
<1> DEFINE gone == Selected(L, {t})
<1>3. L.base = base /\ L.deltas = deltas /\ M.base.tail = t /\ M.deltas = L.deltas
  BY <1>1, <1>2 DEF Listing
<1>4. L.base.tail \notin Tails(L)
  <2>1. BaseTail \notin Tails(L)
    BY <1>3 DEF BundleInv, Tails
  <2> QED
    BY <1>1, <1>3, <2>1 DEF BundleInv
<1>5. \A d \in L.deltas : d.tail \notin gone => Parents(d) \subseteq {t} \cup (Tails(L) \ gone)
  <2>1. {e.tail : e \in {f \in deltas : f.tail \notin gone}} \subseteq Tails(L) \ gone
    BY <1>3 DEF Tails
  <2> QED
    BY <1>2, <1>3, <2>1
<1>6. Topped(L) /\ Unique(L) /\ \A d \in L.deltas : Parents(d) # {}
  BY <1>3 DEF BundleInv
<1>7. /\ Topped(M)
      /\ Walkable(M) \cap gone \subseteq {t}
      /\ Walkable(L) \ ({L.base.tail} \cup gone) \subseteq Walkable(M)
  <2> HIDE DEF L, M
  <2> QED
    BY ONLY <1>3, <1>4, <1>5, <1>6, t \in Tails(L) \cap Walkable(L), ToppedCompacted
<1>8. t \in gone /\ BaseTail \notin folded'
  <2>1. gone \subseteq Tails(L)
    BY AboveClosed DEF Selected
  <2>2. ClosedUp(L, {t}, {L.base.tail}, gone)
    BY AboveClosed DEF Selected
  <2>3. BaseTail \notin Tails(L) /\ BaseTail \notin folded
    BY <1>3 DEF BundleInv, Tails
  <2> QED
    BY <1>2, <1>4, <2>1, <2>2, <2>3 DEF ClosedUp
<1>9. folded' \cap Walkable(M) \subseteq {t}
  <2>1. Walkable(M) \subseteq Tails(L) \cup {t}
    BY <1>3, WalkableIsPart DEF Tails
  <2> QED
    BY <1>1, <1>2, <1>7, <2>1
<1>10. Unique(M)
  BY <1>3, <1>6 DEF Unique
<1>11. base'.tail = t
  BY <1>2
<1>12. BundleInv'
  BY <1>1, <1>2, <1>7, <1>8, <1>9, <1>10, <1>11 DEF BundleInv
<1>13. t \in Walkable(M)
  BY <1>3, WalkableIsPart
<1> QED
  BY <1>2, <1>3, <1>4, <1>7, <1>12, <1>13 DEF Live

LEMMA BundleNext ==
    TypeInv /\ OrderInv /\ FreshInv /\ BundleInv /\ [Next]_vars
        => BundleInv' /\ (AppCompact \/ BundleKept)
<1> SUFFICES ASSUME TypeInv, OrderInv, FreshInv, BundleInv, [Next]_vars
             PROVE  BundleInv' /\ (AppCompact \/ BundleKept)
  OBVIOUS
<1>1. ASSUME UNCHANGED <<base, folded, deltas>> PROVE BundleInv' /\ BundleKept
  <2>1. Listing'.base = Listing.base /\ Listing'.deltas = Listing.deltas
    BY <1>1 DEF Listing
  <2>2. Topped(Listing') /\ Walkable(Listing') = Walkable(Listing)
    BY <2>1, ToppedSame DEF BundleInv
  <2>3. Unique(Listing')
    BY <2>1 DEF BundleInv, Unique
  <2> QED
    BY <1>1, <2>2, <2>3 DEF BundleInv, BundleKept, Live
<1>2. ASSUME NEW p \in Proc, LoadStep(p) \/ FetchClient(p) \/ Fail(p)
      PROVE  BundleInv' /\ BundleKept
  BY <1>1, <1>2 DEF LoadStep, Load, ForcedLoad, List, ReturnCached, MissCache, FetchBaseline,
                    FailBaseline, FetchDelta, FailDelta, SaveModel, FetchClient, Fail, server
<1>3. ASSUME NEW p \in Proc, WriteStep(p), ~ PutDelta(p)
      PROVE  BundleInv' /\ BundleKept
  BY <1>1, <1>3 DEF WriteStep, Write, List, CheckBaseline, PlanWrite, PutClient, FinishDelta,
                    server
<1>4. CASE AppAdvertise \/ Tick \/ UNCHANGED vars
  BY <1>1, <1>4 DEF AppAdvertise, Tick, vars, server
<1> QED
  BY <1>2, <1>3, <1>4, BundlePut, BundlePushed, BundleSwept, BundleCompacted
     DEF Next, AppStep

-----------------------------------------------------------------------------
(* Torn reads and stale caches. Each baseline has one content for good, so *)
(* there is a table of contents[snap], and every load in progress and the  *)
(* cache file hold what it says, plus the deltas of their own listing.     *)

ModelOf(contents, L) == contents[L.base.snap] \cup Selected(L, ReachableTails(L))

ReadsFrom(contents, p) ==
    /\ seen[p].base.snap <= base.snap
    /\ pc[p] \in LoadPCs => Topped(seen[p]) /\ due[p] = ModelOf(contents, seen[p])
    /\ pc[p] = "load_deltas" => got[p] = contents[seen[p].base.snap]

CachedFrom(contents) ==
    cache # None =>
       \E L \in Listings : /\ L.base.snap <= base.snap
                           /\ cache.names = Fingerprint(L)
                           /\ cache.model = ModelOf(contents, L)

SnapFrom(contents) ==
    /\ contents[base.snap] = folded
    /\ \A p \in Proc : ReadsFrom(contents, p)
    /\ CachedFrom(contents)

SnapInv == \E contents \in [Nat -> SUBSET TailId] : SnapFrom(contents)

\* What a load of the bundle as it stands would build.
LEMMA CurrentModel ==
    ASSUME TypeInv, BundleInv, NEW contents, contents[base.snap] = folded
    PROVE  CurrentView = ModelOf(contents, Listing)
<1>1. Listing.base = base /\ base.tail # NoTail
  BY ConstantsOK DEF Listing, TypeInv, TypeOK, Baseline
<1>2. CurrentView = folded \cup Selected(Listing, ReachableTails(Listing))
  BY <1>1, ToppedSelects DEF BundleInv, CurrentView, View
<1> QED
  BY <1>1, <1>2 DEF ModelOf

\* Two listings of the same names are the same.
LEMMA SameNames ==
    ASSUME NEW L \in Listings, NEW M \in Listings, Fingerprint(L) = Fingerprint(M)
    PROVE  L = M
<1>1. L.base = M.base /\ L.deltas = M.deltas /\ L.clients = M.clients
  BY DEF Fingerprint
<1> QED
  BY <1>1 DEF Listings

LEMMA SnapInit == Init => SnapInv
<1> SUFFICES ASSUME Init PROVE SnapInv
  OBVIOUS
<1> DEFINE C == [n \in Nat |-> {}]
<1>1. base.snap = 0 /\ folded = {} /\ cache = None
  BY DEF Init, NoListing
<1>2. \A p \in Proc : seen[p].base.snap = 0 /\ pc[p] = "idle"
  BY DEF Init, NoListing
<1>3. C[base.snap] = folded /\ C \in [Nat -> SUBSET TailId]
  BY <1>1
<1> HIDE DEF C
<1>4. \A p \in Proc : ReadsFrom(C, p)
  BY <1>1, <1>2 DEF ReadsFrom, LoadPCs
<1> QED
  BY <1>1, <1>3, <1>4 DEF SnapInv, SnapFrom, CachedFrom

\* A step that moves one process, over the same baseline.
LEMMA SnapStep ==
    ASSUME NEW C \in [Nat -> SUBSET TailId], SnapFrom(C), UNCHANGED <<base, folded>>,
           NEW p \in Proc, ReadsFrom(C, p)', CachedFrom(C)',
           \A q \in Proc \ {p} : /\ pc'[q] = pc[q] /\ seen'[q] = seen[q]
                                 /\ due'[q] = due[q] /\ got'[q] = got[q]
    PROVE  SnapInv'
<1>1. \A q \in Proc \ {p} : ReadsFrom(C, q)'
  BY DEF SnapFrom, ReadsFrom
<1>2. SnapFrom(C)'
  BY <1>1 DEF SnapFrom
<1> QED
  BY <1>2 DEF SnapInv

\* A call that is over leaves the cache file, or none, or what its load built.
LEMMA SnapReturn ==
    ASSUME TypeInv, NEW C \in [Nat -> SUBSET TailId], SnapFrom(C),
           UNCHANGED <<base, folded>>, NEW p \in Proc, Return(p), CachedFrom(C)'
    PROVE  SnapInv'
<1>1. pc'[p] = "idle" /\ seen'[p] = NoListing
  BY DEF Return, TypeInv, TypeOK
<1>2. base.snap \in Nat
  BY DEF TypeInv, TypeOK, Baseline
<1>3. ReadsFrom(C, p)'
  BY <1>1, <1>2 DEF ReadsFrom, NoListing, LoadPCs
<1>4. \A q \in Proc \ {p} : /\ pc'[q] = pc[q] /\ seen'[q] = seen[q]
                            /\ due'[q] = due[q] /\ got'[q] = got[q]
  BY DEF Return, TypeInv, TypeOK
<1> QED
  BY <1>3, <1>4, SnapStep

LEMMA SameCache ==
    ASSUME NEW C, SnapFrom(C), UNCHANGED <<base, cache>> \/ cache' = None
    PROVE  CachedFrom(C)'
BY DEF SnapFrom, CachedFrom

\* What SaveModel saves is what the listing of its call stood for.
LEMMA SavedModel ==
    ASSUME TypeInv, NEW C, SnapFrom(C), NEW p \in Proc, SaveModel(p)
    PROVE  /\ cache'.names = Fingerprint(seen[p])
           /\ cache'.model = ModelOf(C, seen[p])
           /\ cache'.model = due[p]
           /\ CachedFrom(C)'
<1>1. pc[p] = "load_deltas" /\ ReadsFrom(C, p) /\ UNCHANGED base
  BY DEF SaveModel, SnapFrom, server
<1>2. Topped(seen[p]) /\ due[p] = ModelOf(C, seen[p]) /\ got[p] = C[seen[p].base.snap]
  BY <1>1 DEF ReadsFrom, LoadPCs
<1>3. seen[p] \in Listings /\ seen[p].base.tail # NoTail
  BY ConstantsOK DEF TypeInv, TypeOK, Listings, Baseline
<1>4. View(seen[p], read[p], got[p]) = got[p] \cup Selected(seen[p], ReachableTails(seen[p]))
  BY <1>2, <1>3, ToppedSelects DEF View
<1>5. /\ cache'.names = Fingerprint(seen[p])
      /\ cache'.model = View(seen[p], read[p], got[p])
  BY DEF SaveModel
<1>6. cache'.model = ModelOf(C, seen[p])
  BY <1>2, <1>4, <1>5 DEF ModelOf
<1>7. CachedFrom(C)'
  BY <1>1, <1>3, <1>5, <1>6 DEF CachedFrom, ReadsFrom
<1> QED
  BY <1>2, <1>5, <1>6, <1>7

LEMMA SnapLoading ==
    ASSUME TypeInv, BundleInv, NEW C \in [Nat -> SUBSET TailId], SnapFrom(C),
           NEW p \in Proc,
           LoadStep(p) \/ Write(p) \/ CheckBaseline(p) \/ FetchClient(p) \/ Fail(p)
    PROVE  SnapInv'
<1>1. UNCHANGED <<base, folded>>
  BY DEF LoadStep, Load, ForcedLoad, List, ReturnCached, MissCache, FetchBaseline,
         FailBaseline, FetchDelta, FailDelta, SaveModel, Write, CheckBaseline,
         FetchClient, Fail, server
<1>2. ReadsFrom(C, p)
  BY DEF SnapFrom
<1>3. CASE Return(p) /\ UNCHANGED cache
  BY <1>1, <1>3, SnapReturn, SameCache
<1>4. CASE SaveModel(p)
  <2>1. Return(p)
    BY <1>4 DEF SaveModel
  <2> QED
    BY <1>1, <1>4, <2>1, SnapReturn, SavedModel
<1>5. ASSUME NEW next \in {"check_cache", "load_clients", "write_baseline"}, List(p, next)
      PROVE  SnapInv'
  <2>1. /\ pc' = [pc EXCEPT ![p] = next] /\ seen' = [seen EXCEPT ![p] = Listing]
        /\ due' = [due EXCEPT ![p] = CurrentView] /\ UNCHANGED <<cache, got>>
    BY <1>5 DEF List
  <2>2. pc'[p] = next /\ seen'[p] = Listing /\ due'[p] = CurrentView
    BY <2>1 DEF TypeInv, TypeOK
  <2>3. CurrentView = ModelOf(C, Listing)
    BY CurrentModel DEF SnapFrom
  <2>4. Listing.base.snap <= base.snap
    BY DEF Listing, TypeInv, TypeOK, Baseline
  <2>5. ReadsFrom(C, p)'
    BY <1>1, <2>2, <2>3, <2>4 DEF ReadsFrom, BundleInv
  <2>6. \A q \in Proc \ {p} : /\ pc'[q] = pc[q] /\ seen'[q] = seen[q]
                              /\ due'[q] = due[q] /\ got'[q] = got[q]
    BY <2>1 DEF TypeInv, TypeOK
  <2> QED
    BY <1>1, <2>1, <2>5, <2>6, SnapStep, SameCache
<1>6. CASE Load(p) \/ ForcedLoad(p) \/ Write(p)
  BY <1>5, <1>6 DEF Load, ForcedLoad, Write
<1>7. ASSUME UNCHANGED <<cache, seen, due>>,
             \A q \in Proc \ {p} : pc'[q] = pc[q] /\ got'[q] = got[q],
             pc'[p] \in LoadPCs => pc[p] \in LoadPCs,
             pc'[p] = "load_deltas" => got'[p] = C[seen[p].base.snap]
      PROVE  SnapInv'
  <2>1. ReadsFrom(C, p)'
    BY <1>1, <1>2, <1>7 DEF ReadsFrom
  <2> QED
    BY <1>1, <1>7, <2>1, SnapStep, SameCache
<1>8. CASE MissCache(p)
  BY <1>7, <1>8 DEF MissCache, TypeInv, TypeOK, LoadPCs, reading
<1>9. CASE FetchBaseline(p)
  <2>1. /\ pc[p] = "load_clients" /\ seen[p].base = base
        /\ got' = [got EXCEPT ![p] = folded] /\ pc' = [pc EXCEPT ![p] = "load_deltas"]
        /\ UNCHANGED <<cache, seen, due>>
    BY <1>9 DEF FetchBaseline
  <2>2. got'[p] = C[seen[p].base.snap]
    BY <2>1 DEF SnapFrom, TypeInv, TypeOK
  <2>3. pc[p] \in LoadPCs
    BY <2>1 DEF LoadPCs
  <2>4. \A q \in Proc \ {p} : pc'[q] = pc[q] /\ got'[q] = got[q]
    BY <2>1 DEF TypeInv, TypeOK
  <2> QED
    BY <1>7, <2>1, <2>2, <2>3, <2>4
<1>10. CASE FetchDelta(p) \/ FetchClient(p)
  <2>1. UNCHANGED <<cache, pc, seen, due, got>>
    BY <1>10 DEF FetchDelta, FetchClient
  <2> QED
    BY <1>2, <1>7, <2>1 DEF ReadsFrom
<1>11. CASE CheckBaseline(p) /\ ~ Return(p)
  <2>1. pc' = [pc EXCEPT ![p] = "write_clients"] /\ UNCHANGED <<cache, seen, due, got>>
    BY <1>11 DEF CheckBaseline, reading
  <2>2. pc'[p] = "write_clients" /\ \A q \in Proc \ {p} : pc'[q] = pc[q]
    BY <2>1 DEF TypeInv, TypeOK
  <2> QED
    BY <1>7, <2>1, <2>2 DEF LoadPCs
<1> QED
  BY <1>3, <1>4, <1>6, <1>8, <1>9, <1>10, <1>11
     DEF LoadStep, ReturnCached, FailBaseline, FailDelta, Fail, CheckBaseline

LEMMA SnapWriting ==
    ASSUME TypeInv, NEW C \in [Nat -> SUBSET TailId], SnapFrom(C), NEW p \in Proc,
           PlanWrite(p) \/ PutDelta(p) \/ PutClient(p) \/ FinishDelta(p)
    PROVE  SnapInv'
<1>1. UNCHANGED <<base, folded>> /\ (UNCHANGED cache \/ cache' = None)
  BY DEF PlanWrite, PutDelta, PutClient, FinishDelta, server
<1>2. CachedFrom(C)'
  BY <1>1, SameCache
<1>3. CASE Return(p)
  BY <1>1, <1>2, <1>3, SnapReturn
<1>4. CASE ~ Return(p)
  <2>1. UNCHANGED <<seen, due, got>>
    BY <1>4 DEF PlanWrite, PutDelta, PutClient, FinishDelta, reading
  <2>2. \E next \in {"put_delta", "put_client", "finish"} : pc' = [pc EXCEPT ![p] = next]
    BY <1>4 DEF PlanWrite, PutDelta, PutClient, FinishDelta
  <2>3. pc'[p] \notin LoadPCs /\ \A q \in Proc \ {p} : pc'[q] = pc[q]
    BY <2>2 DEF TypeInv, TypeOK, LoadPCs
  <2>4. ReadsFrom(C, p)'
    BY <1>1, <2>1, <2>3 DEF SnapFrom, ReadsFrom, LoadPCs
  <2> QED
    BY <1>1, <1>2, <2>1, <2>3, <2>4, SnapStep
<1> QED
  BY <1>3, <1>4

\* A new baseline is a new entry of the table.
LEMMA SnapCompacted ==
    ASSUME TypeInv, NEW C \in [Nat -> SUBSET TailId], SnapFrom(C), AppCompact, TypeInv'
    PROVE  SnapInv'
<1>1. base.snap \in Nat /\ base'.snap = base.snap + 1 /\ folded' \in SUBSET TailId
  <2>1. base'.snap = base.snap + 1
    BY DEF AppCompact
  <2>2. base.snap \in Nat /\ folded' \in SUBSET TailId
    BY DEF TypeInv, TypeOK, Baseline
  <2> QED
    BY <2>1, <2>2
<1>2. PICK D \in [Nat -> SUBSET TailId] : D = [C EXCEPT ![base.snap + 1] = folded']
  BY <1>1
<1>3. D[base'.snap] = folded' /\ \A n \in Nat : n <= base.snap => D[n] = C[n]
  BY <1>1, <1>2
<1>4. ASSUME NEW L \in Listings, L.base.snap <= base.snap
      PROVE  ModelOf(D, L) = ModelOf(C, L) /\ D[L.base.snap] = C[L.base.snap]
  <2>1. L.base.snap \in Nat
    BY DEF Listings, Baseline
  <2> QED
    BY <1>3, <1>4, <2>1 DEF ModelOf
<1>5. UNCHANGED <<cache, pc, seen, due, got>>
  BY DEF AppCompact, local, reading
<1>6. ASSUME NEW p \in Proc PROVE ReadsFrom(D, p)'
  <2>1. seen[p] \in Listings /\ ReadsFrom(C, p)
    BY DEF TypeInv, TypeOK, SnapFrom
  <2>2. seen[p].base.snap <= base.snap
    BY <2>1 DEF ReadsFrom
  <2>3. ModelOf(D, seen[p]) = ModelOf(C, seen[p]) /\ D[seen[p].base.snap] = C[seen[p].base.snap]
    BY <1>4, <2>1, <2>2
  <2>4. seen[p].base.snap <= base'.snap
    <3>1. seen[p].base.snap \in Nat
      BY <2>1 DEF Listings, Baseline
    <3> QED
      BY <1>1, <2>2, <3>1
  <2> QED
    BY <1>5, <2>1, <2>3, <2>4 DEF ReadsFrom
<1>7. CachedFrom(D)'
  <2> SUFFICES ASSUME cache # None
               PROVE  \E L \in Listings : /\ L.base.snap <= base'.snap
                                          /\ cache.names = Fingerprint(L)
                                          /\ cache.model = ModelOf(D, L)
    BY <1>5 DEF CachedFrom
  <2>1. PICK L \in Listings : /\ L.base.snap <= base.snap
                              /\ cache.names = Fingerprint(L)
                              /\ cache.model = ModelOf(C, L)
    BY DEF SnapFrom, CachedFrom
  <2>2. L.base.snap \in Nat
    BY DEF Listings, Baseline
  <2>3. L.base.snap <= base'.snap
    BY <1>1, <2>1, <2>2
  <2> QED
    BY <1>4, <2>1, <2>3
<1>8. SnapFrom(D)'
  BY <1>3, <1>6, <1>7 DEF SnapFrom
<1> QED
  BY <1>8 DEF SnapInv

LEMMA SnapNext ==
    TypeInv /\ BundleInv /\ SnapInv /\ [Next]_vars /\ TypeInv' => SnapInv'
<1> SUFFICES ASSUME TypeInv, BundleInv, SnapInv, [Next]_vars, TypeInv' PROVE SnapInv'
  OBVIOUS
<1>1. PICK C \in [Nat -> SUBSET TailId] : SnapFrom(C)
  BY DEF SnapInv
<1>2. ASSUME NEW p \in Proc, LoadStep(p) \/ WriteStep(p) \/ FetchClient(p) \/ Fail(p)
      PROVE  SnapInv'
  BY <1>1, <1>2, SnapLoading, SnapWriting DEF WriteStep
<1>3. CASE AppCompact
  BY <1>1, <1>3, SnapCompacted
<1>4. ASSUME UNCHANGED <<base, folded, cache, pc, seen, due, got>> PROVE SnapInv'
  <2>1. SnapFrom(C)'
    BY <1>1, <1>4 DEF SnapFrom, ReadsFrom, CachedFrom
  <2> QED
    BY <2>1 DEF SnapInv
<1>5. CASE AppPush \/ AppAdvertise \/ AppSweep \/ Tick \/ UNCHANGED vars
  BY <1>4, <1>5 DEF AppPush, AppAdvertise, AppSweep, Tick, vars, server, local, reading
<1> QED
  BY <1>2, <1>3, <1>5 DEF Next, AppStep

(* The invariant behind the next two theorems. It asks nothing of          *)
(* Compaction: OmniFocus may fold the bundle under a load's feet.          *)
THEOREM ReadsAreSound ==
    Spec => [](TypeInv /\ OrderInv /\ FreshInv /\ BundleInv /\ SnapInv)
<1>1. Init => TypeInv /\ OrderInv /\ FreshInv /\ BundleInv /\ SnapInv
  BY TypeInit, OrderInit, FreshInit, BundleInit, SnapInit
<1>2. TypeInv /\ OrderInv /\ FreshInv /\ BundleInv /\ SnapInv /\ [Next]_vars
        => (TypeInv /\ OrderInv /\ FreshInv /\ BundleInv /\ SnapInv)'
  BY TypeNext, OrderNext, FreshNext, BundleNext, SnapNext
<1> QED
  BY <1>1, <1>2, PTL DEF Spec

(* A cache file that the next load would accept holds the model that this  *)
(* load would build, whoever wrote, swept or compacted the bundle since.   *)
THEOREM CacheIsFaithful == Spec => []CacheFaithful
<1>1. TypeInv /\ BundleInv /\ SnapInv => CacheFaithful
  <2> SUFFICES ASSUME TypeInv, BundleInv, SnapInv, cache # None,
                      cache.names = Fingerprint(Listing)
               PROVE  cache.model = CurrentView
    BY DEF CacheFaithful
  <2>1. PICK C \in [Nat -> SUBSET TailId] : SnapFrom(C)
    BY DEF SnapInv
  <2>2. PICK L \in Listings : /\ cache.names = Fingerprint(L)
                              /\ cache.model = ModelOf(C, L)
    BY <2>1 DEF SnapFrom, CachedFrom
  <2>3. L = Listing
    BY <2>2, ListingType, SameNames DEF TypeInv
  <2> QED
    BY <2>1, <2>2, <2>3, CurrentModel DEF SnapFrom
<1> QED
  BY <1>1, ReadsAreSound, PTL

(* Every load returns the model the bundle had when the call listed it,    *)
(* however many steps of others came between its requests and whichever    *)
(* .client files it could not read.                                        *)
THEOREM LoadsAreSnapshots == Spec => LoadIsSnapshot
<1>1. ASSUME TypeInv, SnapInv, NEW p \in Proc
      PROVE  /\ ReturnCached(p) => cache.model = due[p]
             /\ SaveModel(p) => cache'.model = due[p]
  <2>1. PICK C \in [Nat -> SUBSET TailId] : SnapFrom(C)
    BY <1>1 DEF SnapInv
  <2>2. ASSUME ReturnCached(p) PROVE cache.model = due[p]
    <3>1. cache # None /\ cache.names = Fingerprint(seen[p]) /\ pc[p] \in LoadPCs
      BY <2>2 DEF ReturnCached, CacheHit, LoadPCs
    <3>2. PICK L \in Listings : /\ cache.names = Fingerprint(L)
                                /\ cache.model = ModelOf(C, L)
      BY <2>1, <3>1 DEF SnapFrom, CachedFrom
    <3>3. seen[p] \in Listings
      BY <1>1 DEF TypeInv, TypeOK
    <3>4. L = seen[p]
      BY <3>1, <3>2, <3>3, SameNames
    <3> QED
      BY <2>1, <3>1, <3>2, <3>4 DEF SnapFrom, ReadsFrom
  <2> QED
    BY <1>1, <2>1, <2>2, SavedModel
<1>2. TypeInv /\ SnapInv =>
        \A p \in Proc : /\ ReturnCached(p) => cache.model = due[p]
                        /\ SaveModel(p) => cache'.model = due[p]
  BY <1>1
<1>3. TypeInv /\ SnapInv /\ [Next]_vars =>
        [\A p \in Proc : /\ ReturnCached(p) => cache.model = due[p]
                         /\ SaveModel(p) => cache'.model = due[p]]_vars
  BY <1>2
<1> QED
  BY <1>3, ReadsAreSound, PTL DEF Spec, LoadIsSnapshot

-----------------------------------------------------------------------------
(* Lost writes. As long as OmniFocus compacts only between writes, what a  *)
(* write is attached to still leads to the baseline when it is uploaded.   *)

\* A delta that is not part of the baseline leads to it.
UnfoldedLive == \A d \in deltas : d.tail \in folded \cup Live

\* Something was attached to what f advertises and is not in the baseline yet.
Followed(f) == \E d \in deltas : d.tail \notin folded /\ Range(f.tails) \cap Parents(d) # {}

DocsLive ==
    /\ \A f, g \in clientFiles : f.id = App /\ g.id = App => f = g
    /\ \A f \in Newest(clientFiles) :
          Range(f.tails) \subseteq Live /\ (f.id = Me => Followed(f))
    /\ (\E f \in clientFiles : f.id = Me) => \E f \in Newest(clientFiles) : f.id = Me

\* What a write works from.
WriterLive(p) ==
    /\ pc[p] = "idle" => read[p] = {}
    /\ pc[p] \in WritePCs =>
          /\ seen[p].base.tail = base.tail
          /\ Walkable(seen[p]) \subseteq Live
          /\ seen[p].deltas = {} =>
                /\ \A n \in left[p] : n.id = App
                /\ \A f \in read[p] : Range(f.tails) \subseteq Live
    /\ pc[p] \in Uploading => from[p] \in Live
    /\ \A i \in DOMAIN plan[p] :
          Uploaded(p, i) => plan[p][i] \in deltas /\ plan[p][i].tail \notin folded

QuietInv == UnfoldedLive /\ DocsLive /\ \A p \in Proc : WriterLive(p)

LEMMA QuietInit == Init => QuietInv
<1> SUFFICES ASSUME Init PROVE QuietInv
  OBVIOUS
<1>1. deltas = {} /\ base.tail = BaseTail
  BY DEF Init, NoListing
<1>2. BaseTail \in Live
  BY <1>1, WalkableIsPart DEF Live, Listing
<1>3. \A f \in clientFiles : f.id # Me /\ Range(f.tails) \subseteq Live
  BY <1>2, ConstantsOK DEF Init, Range
<1>4. DocsLive
  BY <1>3 DEF DocsLive, Newest, Init
<1>5. \A p \in Proc : WriterLive(p)
  BY DEF Init, WriterLive, WritePCs, Uploading
<1> QED
  BY <1>1, <1>4, <1>5 DEF QuietInv, UnfoldedLive

LEMMA BundleFrontierLive ==
    ASSUME TypeInv, DocsLive
    PROVE  Frontier(Listing, clientFiles) \subseteq Live
<1>1. Listing.base.tail # NoTail
  BY ConstantsOK DEF Listing, TypeInv, TypeOK, Baseline
<1>2. Walkable(Listing) \subseteq Live
  BY DEF Live
<1> QED
  BY <1>1, <1>2, FrontierLive DEF DocsLive

\* A process that does not step.
Stays(q) ==
    /\ pc'[q] = pc[q] /\ seen'[q] = seen[q] /\ left'[q] = left[q] /\ read'[q] = read[q]
    /\ from'[q] = from[q] /\ plan'[q] = plan[q] /\ at'[q] = at[q]

LEMMA OthersStay ==
    ASSUME TypeInv, NEW p \in Proc,
           LoadStep(p) \/ WriteStep(p) \/ FetchClient(p) \/ Fail(p),
           NEW q \in Proc, q # p
    PROVE  Stays(q)
<1>1. CASE Return(p)
  BY <1>1 DEF Return, Stays, TypeInv, TypeOK
<1>2. CASE Load(p) \/ ForcedLoad(p) \/ Write(p)
  BY <1>2 DEF Load, ForcedLoad, Write, List, Stays, writing, TypeInv, TypeOK
<1>3. CASE MissCache(p) \/ FetchBaseline(p) \/ FetchDelta(p)
  BY <1>3 DEF MissCache, FetchBaseline, FetchDelta, Stays, reading, writing, TypeInv, TypeOK
<1>4. CASE FetchClient(p)
  BY <1>4 DEF FetchClient, Stays, writing, TypeInv, TypeOK
<1>5. CASE CheckBaseline(p) /\ ~ Return(p)
  BY <1>5 DEF CheckBaseline, Stays, reading, writing, TypeInv, TypeOK
<1>6. CASE PlanWrite(p)
  BY <1>6 DEF PlanWrite, Stays, reading, TypeInv, TypeOK
<1>7. CASE PutDelta(p) \/ PutClient(p)
  BY <1>7 DEF PutDelta, PutClient, Stays, reading, writing, TypeInv, TypeOK
<1>8. CASE FinishDelta(p) /\ ~ Return(p)
  BY <1>8 DEF FinishDelta, Stays, reading, TypeInv, TypeOK
<1> QED
  BY <1>1, <1>2, <1>3, <1>4, <1>5, <1>6, <1>7, <1>8
     DEF LoadStep, WriteStep, ReturnCached, FailBaseline, FailDelta, SaveModel, Fail

LEMMA StaysQuiet ==
    ASSUME BundleKept, NEW q \in Proc, WriterLive(q), Stays(q)
    PROVE  WriterLive(q)'
<1>1. \A i : Uploaded(q, i)' <=> Uploaded(q, i)
  BY DEF Uploaded, Stays
<1>2. Walkable(seen[q])' = Walkable(seen[q])
  BY DEF Walkable, Tails, Grounded, Stays
<1> QED
  BY <1>1, <1>2 DEF WriterLive, BundleKept, Stays

\* A process that writes nothing.
LEMMA ReaderQuiet ==
    ASSUME TypeInv', NEW p \in Proc, pc'[p] \notin WritePCs, pc'[p] = "idle" => read'[p] = {}
    PROVE  WriterLive(p)'
<1>1. pc'[p] \notin Uploading
  BY DEF WritePCs, Uploading
<1>2. at'[p] = 1 /\ plan'[p] \in Seq(Delta)
  BY <1>1 DEF TypeInv, TypeOK, PlanInRange
<1>3. \A i \in DOMAIN plan'[p] : ~ Uploaded(p, i)'
  <2>1. \A i \in DOMAIN plan'[p] : i \in Nat /\ ~ (i < 1)
    BY <1>2
  <2> QED
    BY <1>1, <1>2, <2>1 DEF Uploaded, Uploading
<1> QED
  BY <1>1, <1>3 DEF WriterLive

\* A process whose call is over.
LEMMA ReturnQuiet ==
    ASSUME TypeInv, NEW p \in Proc, Return(p)
    PROVE  WriterLive(p)'
<1>1. pc'[p] = "idle" /\ read'[p] = {} /\ plan'[p] = <<>>
  BY DEF Return, TypeInv, TypeOK
<1> QED
  BY <1>1 DEF WriterLive, WritePCs, Uploading

\* The documents, when none of them changes.
LEMMA SameDocs ==
    ASSUME BundleKept, DocsLive, UNCHANGED clientFiles
    PROVE  DocsLive'
<1>1. \A f : Followed(f) => Followed(f)'
  BY DEF Followed, BundleKept
<1>2. Newest(clientFiles)' = Newest(clientFiles)
  BY DEF Newest
<1> QED
  BY <1>1, <1>2 DEF DocsLive, BundleKept

\* Of App's one document, and of the documents of Me, the newest stay that are newest.
LEMMA NewestOf ==
    ASSUME NEW files \in SUBSET ClientFile, NEW f \in ClientFile,
           NEW g \in Newest(Overwrite(files, f)), g # f
    PROVE  g \in Newest(files)
<1>1. g \in files /\ NameOf(g) # NameOf(f)
  BY DEF Newest, Overwrite
<1>2. ASSUME NEW h \in files, h.id = g.id PROVE ~ ClientBefore(g, h)
  <2>1. CASE NameOf(h) # NameOf(f)
    BY <1>2, <2>1 DEF Newest, Overwrite
  <2>2. CASE NameOf(h) = NameOf(f)
    <3>1. h.ts = f.ts /\ h.id = f.id
      BY <2>2 DEF NameOf
    <3>2. ~ ClientBefore(g, f)
      BY <1>2, <3>1 DEF Newest, Overwrite
    <3> QED
      BY <3>1, <3>2 DEF ClientBefore
  <2> QED
    BY <2>1, <2>2
<1> QED
  BY <1>1, <1>2 DEF Newest

\* Writing a document leaves its client a newest one.
LEMMA NewestStays ==
    ASSUME NEW files \in SUBSET ClientFile, NEW f \in ClientFile,
           (\E g \in files : g.id = f.id) => \E g \in Newest(files) : g.id = f.id
    PROVE  \E g \in Newest(Overwrite(files, f)) : g.id = f.id
<1>0. \A g \in files \cup {f} : g.ts \in Nat /\ g.id \in {Me, App}
  BY DEF ClientFile
<1>a. \A x \in Nat : ~ (x < x)
  OBVIOUS
<1>b. Me \in Nat /\ App \in Nat
  BY ConstantsOK
<1>1. CASE \A h \in files : h.id = f.id => h.ts <= f.ts
  <2>1. \A h \in Overwrite(files, f) : h.id = f.id => ~ ClientBefore(f, h)
    BY <1>0, <1>a, <1>b, <1>1 DEF Overwrite, ClientBefore
  <2> QED
    BY <2>1 DEF Newest, Overwrite
<1>2. CASE \E h \in files : h.id = f.id /\ ~ (h.ts <= f.ts)
  <2>1. PICK h \in files : h.id = f.id /\ ~ (h.ts <= f.ts)
    BY <1>2
  <2>2. PICK g \in Newest(files) : g.id = f.id
    BY <2>1
  <2>3. ~ ClientBefore(g, h) /\ g \in files
    BY <2>1, <2>2 DEF Newest
  <2>4. f.ts < g.ts
    BY <1>0, <2>1, <2>3 DEF ClientBefore
  <2>5. g \in Overwrite(files, f)
    BY <1>0, <2>3, <2>4 DEF Overwrite, NameOf
  <2>6. \A h2 \in files : h2.id = g.id => ~ ClientBefore(g, h2)
    BY <2>2 DEF Newest
  <2>7. ~ ClientBefore(g, f)
    BY <1>0, <1>a, <1>b, <2>2, <2>3, <2>4 DEF ClientBefore
  <2>8. \A h2 \in Overwrite(files, f) : h2.id = g.id => ~ ClientBefore(g, h2)
    BY <2>6, <2>7 DEF Overwrite
  <2> QED
    BY <2>2, <2>5, <2>8 DEF Newest
<1> QED
  BY <1>1, <1>2

\* A write leaves a document about the tail that it was attached to.
LEMMA PutClientDocs ==
    ASSUME TypeInv, OrderInv, QuietInv, NEW p \in Proc, PutClient(p), BundleKept
    PROVE  DocsLive'
<1> DEFINE f == ClientDocument(p)
<1>1. /\ pc[p] = "put_client" /\ clientFiles' = Overwrite(clientFiles, f)
      /\ UNCHANGED <<base, folded, deltas>>
  BY DEF PutClient
<1>2. at[p] \in DOMAIN plan[p] /\ plan[p] \in Seq(Delta)
  BY <1>1 DEF TypeInv, TypeOK, PlanInRange, Uploading
<1>3. f \in ClientFile /\ f.id = Me /\ Range(f.tails) = {from[p]}
  <2>1. plan[p][at[p]] \in Delta
    BY <1>2
  <2>2. f \in ClientFile
    BY <2>1, ConstantsOK DEF ClientDocument, ClientFile, Delta, TypeInv, TypeOK
  <2> QED
    BY <2>2 DEF ClientDocument, Range
<1>4. clientFiles \in SUBSET ClientFile
  BY DEF TypeInv, TypeOK
<1>5. from[p] \in Live
  BY <1>1 DEF QuietInv, WriterLive, Uploading
<1>6. Followed(f)
  <2>1. 1 \in DOMAIN plan[p] /\ Uploaded(p, 1)
    <3>1. at[p] \in Nat /\ at[p] >= 1 /\ at[p] <= Len(plan[p]) /\ Len(plan[p]) \in Nat
      BY <1>2
    <3> QED
      BY <1>1, <1>2, <3>1 DEF Uploaded
  <2>2. plan[p][1] \in deltas /\ plan[p][1].tail \notin folded
    BY <2>1 DEF QuietInv, WriterLive
  <2>3. Parents(plan[p][1]) = {from[p]}
    BY <2>1 DEF OrderInv, ProcKnown, PlanAttached
  <2> QED
    BY <1>3, <2>2, <2>3 DEF Followed
<1> HIDE DEF f
<1>7. \A g : Followed(g) => Followed(g)'
  BY DEF Followed, BundleKept
<1>8. \A g \in Newest(clientFiles') : g = f \/ g \in Newest(clientFiles)
  BY <1>1, <1>3, <1>4, NewestOf
<1>9. \A g \in Newest(clientFiles') :
         Range(g.tails) \subseteq Live' /\ (g.id = Me => Followed(g)')
  BY <1>3, <1>5, <1>6, <1>7, <1>8 DEF QuietInv, DocsLive, BundleKept
<1>10. \E g \in Newest(clientFiles') : g.id = Me
  BY <1>1, <1>3, <1>4, NewestStays DEF QuietInv, DocsLive
<1>11. \A g, h \in clientFiles' : g.id = App /\ h.id = App => g = h
  BY <1>1, <1>3, ConstantsOK DEF Overwrite, QuietInv, DocsLive
<1> QED
  BY <1>9, <1>10, <1>11 DEF DocsLive

\* The app keeps one document, about the frontier or what it adds to it.
LEMMA AppDocs ==
    ASSUME TypeInv, DocsLive, BundleKept, NEW ts, Range(ts) \subseteq Live',
           clientFiles' = Documents(App, ts)
    PROVE  DocsLive'
<1> DEFINE f == [ts |-> clock, id |-> App, tails |-> ts]
<1>1. clientFiles' = {g \in clientFiles : g.id # App} \cup {f}
  BY DEF Documents
<1>2. f.id = App /\ f.tails = ts
  OBVIOUS
<1> HIDE DEF f
<1>3. \A g : Followed(g) => Followed(g)'
  BY DEF Followed, BundleKept
<1>4. \A g \in Newest(clientFiles') : g.id # App => g \in Newest(clientFiles)
  BY <1>1, <1>2 DEF Newest
<1>5. \A g \in clientFiles' : g.id = App => g = f
  BY <1>1
<1>6. \A g \in Newest(clientFiles) : g.id = Me => g \in Newest(clientFiles')
  BY <1>1, <1>2, ConstantsOK DEF Newest
<1>7. \A g \in Newest(clientFiles') :
         Range(g.tails) \subseteq Live' /\ (g.id = Me => Followed(g)')
  <2>1. Newest(clientFiles') \subseteq clientFiles'
    BY DEF Newest
  <2> QED
    BY <1>2, <1>3, <1>4, <1>5, <2>1, ConstantsOK DEF DocsLive, BundleKept
<1>8. (\E g \in clientFiles' : g.id = Me) => \E g \in Newest(clientFiles') : g.id = Me
  BY <1>1, <1>2, <1>6, ConstantsOK DEF DocsLive
<1> QED
  BY <1>5, <1>7, <1>8 DEF DocsLive

\* The steps of a load.
LEMMA LoadQuiet ==
    ASSUME TypeInv, TypeInv', QuietInv, NEW p \in Proc, LoadStep(p) \/ Fail(p)
    PROVE  WriterLive(p)'
<1>1. CASE Return(p)
  BY <1>1, ReturnQuiet
<1>2. CASE Load(p) \/ ForcedLoad(p)
  <2>1. pc'[p] \in {"check_cache", "load_clients"}
    BY <1>2 DEF Load, ForcedLoad, List, TypeInv, TypeOK
  <2> QED
    BY <2>1, ReaderQuiet DEF WritePCs
<1>3. CASE MissCache(p) \/ FetchBaseline(p) \/ FetchDelta(p)
  <2>1. pc'[p] \in {"load_clients", "load_deltas"}
    BY <1>3 DEF MissCache, FetchBaseline, FetchDelta, TypeInv, TypeOK
  <2> QED
    BY <2>1, ReaderQuiet DEF WritePCs
<1> QED
  BY <1>1, <1>2, <1>3
     DEF LoadStep, ReturnCached, FailBaseline, FailDelta, SaveModel, Fail

\* A document that the app has, or had, when a write fetches it.
LEMMA FetchQuiet ==
    ASSUME TypeInv, TypeInv', QuietInv, BundleKept, NEW p \in Proc, FetchClient(p)
    PROVE  WriterLive(p)'
<1>1. UNCHANGED <<pc, seen, plan, at, from, base>> /\ pc[p] \in {"load_clients", "write_clients"}
  BY DEF FetchClient, server, writing
<1>2. PICK n \in left[p] :
             /\ left' = [left EXCEPT ![p] = @ \ {n}]
             /\ \/ \E f \in clientFiles : NameOf(f) = n /\ read' = [read EXCEPT ![p] = @ \cup {f}]
                \/ UNCHANGED read
  BY DEF FetchClient
<1>3. left'[p] = left[p] \ {n}
  BY <1>2 DEF TypeInv, TypeOK
<1>4. CASE pc[p] = "load_clients"
  BY <1>1, <1>4, ReaderQuiet DEF WritePCs
<1>5. CASE pc[p] = "write_clients"
  <2>1. ASSUME seen[p].deltas = {}, NEW f \in read'[p]
        PROVE  Range(f.tails) \subseteq Live
    <3>1. f \in read[p] \/ (f \in clientFiles /\ NameOf(f) = n)
      BY <1>2, <2>1 DEF TypeInv, TypeOK
    <3>2. CASE f \in read[p]
      BY <1>5, <2>1, <3>2 DEF QuietInv, WriterLive, WritePCs
    <3>3. CASE f \in clientFiles /\ NameOf(f) = n
      <4>1. f.id = App
        BY <1>5, <2>1, <3>3 DEF QuietInv, WriterLive, WritePCs, NameOf
      <4>2. \A g \in clientFiles : g.id = App => g = f
        BY <3>3, <4>1 DEF QuietInv, DocsLive
      <4>3. f.ts \in Nat /\ App \in Nat
        BY <3>3, ConstantsOK DEF TypeInv, TypeOK, ClientFile
      <4>4. ~ ClientBefore(f, f)
        BY <4>1, <4>3 DEF ClientBefore
      <4>5. f \in Newest(clientFiles)
        BY <3>3, <4>1, <4>2, <4>4 DEF Newest
      <4> QED
        BY <4>5 DEF QuietInv, DocsLive
    <3> QED
      BY <3>1, <3>2, <3>3
  <2>2. Walkable(seen[p])' = Walkable(seen[p])
    BY <1>1
  <2>3. pc'[p] \in WritePCs /\ pc'[p] \notin Uploading /\ pc'[p] # "idle"
    BY <1>1, <1>5 DEF WritePCs, Uploading
  <2>4. at'[p] = 1 /\ \A i \in DOMAIN plan'[p] : ~ Uploaded(p, i)'
    <3>1. at'[p] = 1 /\ plan'[p] \in Seq(Delta)
      BY <2>3 DEF TypeInv, TypeOK, PlanInRange
    <3>2. \A i \in DOMAIN plan'[p] : i \in Nat /\ ~ (i < 1)
      BY <3>1
    <3> QED
      BY <2>3, <3>1, <3>2 DEF Uploaded, Uploading
  <2>5. WriterLive(p) /\ pc[p] \in WritePCs
    BY <1>5 DEF QuietInv, WritePCs
  <2> QED
    BY <1>1, <1>3, <2>1, <2>2, <2>3, <2>4, <2>5 DEF WriterLive, BundleKept
<1> QED
  BY <1>1, <1>4, <1>5

\* A call to write lists a bundle whose documents are about its baseline
\* when nothing is attached to it yet.
LEMMA ListQuiet ==
    ASSUME TypeInv, TypeInv', QuietInv, BundleKept, NEW p \in Proc,
           Write(p) \/ (CheckBaseline(p) /\ ~ Return(p))
    PROVE  WriterLive(p)'
<1>1. pc'[p] \in WritePCs \ Uploading /\ pc'[p] # "idle"
  BY DEF Write, List, CheckBaseline, TypeInv, TypeOK, WritePCs, Uploading
<1>2. \A i \in DOMAIN plan'[p] : ~ Uploaded(p, i)'
  <2>1. at'[p] = 1 /\ plan'[p] \in Seq(Delta)
    BY <1>1 DEF TypeInv, TypeOK, PlanInRange
  <2>2. \A i \in DOMAIN plan'[p] : i \in Nat /\ ~ (i < 1)
    BY <2>1
  <2> QED
    BY <1>1, <2>1, <2>2 DEF Uploaded, Uploading
<1>3. CASE Write(p)
  <2>1. /\ seen'[p] = Listing /\ left'[p] = {NameOf(f) : f \in clientFiles} /\ read' = read
        /\ pc[p] = "idle" /\ UNCHANGED base
    BY <1>3 DEF Write, List, Listing, TypeInv, TypeOK, server
  <2>2. read'[p] = {}
    BY <2>1 DEF QuietInv, WriterLive
  <2>3. seen'[p].base.tail = base'.tail /\ seen'[p].deltas = deltas
    BY <2>1 DEF Listing
  <2>4. Walkable(seen[p])' \subseteq Live'
    <3>1. Walkable(seen[p])' = Live
      BY <2>1 DEF Live
    <3> QED
      BY <3>1 DEF BundleKept
  <2>5. ASSUME deltas = {}, NEW n \in left'[p] PROVE n.id = App
    <3>1. \A f \in Newest(clientFiles) : f.id # Me
      BY <2>5 DEF QuietInv, DocsLive, Followed
    <3>2. \A f \in clientFiles : f.id # Me
      BY <3>1 DEF QuietInv, DocsLive
    <3>3. \A f \in clientFiles : f.id \in {Me, App}
      BY DEF TypeInv, TypeOK, ClientFile
    <3> QED
      BY <2>1, <2>5, <3>2, <3>3 DEF NameOf
  <2> QED
    BY <1>1, <1>2, <2>2, <2>3, <2>4, <2>5 DEF WriterLive
<1>4. CASE CheckBaseline(p) /\ ~ Return(p)
  <2>1. pc[p] \in WritePCs /\ UNCHANGED <<seen, left, read, base>>
    BY <1>4 DEF CheckBaseline, reading, server, WritePCs
  <2>2. Walkable(seen[p])' = Walkable(seen[p])
    BY <2>1
  <2> QED
    BY <1>1, <1>2, <2>1, <2>2 DEF QuietInv, WriterLive, BundleKept
<1> QED
  BY <1>3, <1>4

\* The accepted tail.
LEMMA PlanQuiet ==
    ASSUME TypeInv, TypeInv', QuietInv, BundleKept, NEW p \in Proc, PlanWrite(p)
    PROVE  WriterLive(p)'
<1>1. pc[p] = "write_clients" /\ pc'[p] = "put_delta"
  BY DEF PlanWrite, TypeInv, TypeOK
<1>2. UNCHANGED <<seen, left, read, base, at>>
  BY DEF PlanWrite, reading, server
<1>3. PICK t \in Frontier(seen[p], read[p]) : from' = [from EXCEPT ![p] = t]
  BY DEF PlanWrite
<1>4. Frontier(seen[p], read[p]) \subseteq Live
  <2>1. seen[p].base.tail # NoTail
    BY ConstantsOK DEF TypeInv, TypeOK, Listings, Baseline
  <2>2. WriterLive(p) /\ pc[p] \in WritePCs
    BY <1>1 DEF QuietInv, WritePCs
  <2>3. Walkable(seen[p]) \subseteq Live
    BY <2>2 DEF WriterLive
  <2>4. seen[p].deltas = {} => \A f \in Newest(read[p]) : Range(f.tails) \subseteq Live
    BY <2>2 DEF WriterLive, Newest
  <2> QED
    BY <2>1, <2>3, <2>4, FrontierLive
<1>5. from'[p] \in Live'
  BY <1>3, <1>4 DEF BundleKept, TypeInv, TypeOK
<1>6. \A i \in DOMAIN plan'[p] : ~ Uploaded(p, i)'
  <2>1. at'[p] = 1 /\ plan'[p] \in Seq(Delta)
    BY <1>1, <1>2 DEF TypeInv, TypeOK, PlanInRange, Uploading
  <2>2. \A i \in DOMAIN plan'[p] : i \in Nat /\ ~ (i < 1)
    BY <2>1
  <2> QED
    BY <1>1, <2>1, <2>2 DEF Uploaded
<1>7. Walkable(seen[p])' = Walkable(seen[p])
  BY <1>2
<1>8. WriterLive(p) /\ pc[p] \in WritePCs /\ pc'[p] # "idle"
  BY <1>1 DEF QuietInv, WritePCs
<1> QED
  BY <1>2, <1>5, <1>6, <1>7, <1>8 DEF WriterLive, BundleKept

\* The steps that upload.
LEMMA UploadQuiet ==
    ASSUME TypeInv, FreshInv, QuietInv, BundleKept, NEW p \in Proc,
           PutDelta(p) \/ PutClient(p) \/ FinishDelta(p)
    PROVE  WriterLive(p)'
<1>1. CASE Return(p)
  BY <1>1, ReturnQuiet
<1>2. ASSUME ~ Return(p) PROVE WriterLive(p)'
  <2>1. /\ pc[p] \in Uploading /\ pc'[p] \in Uploading
        /\ UNCHANGED <<seen, left, read, base, folded, from, plan>>
    BY <1>2 DEF PutDelta, PutClient, FinishDelta, TypeInv, TypeOK, Uploading, reading, writing,
                server
  <2>2. Walkable(seen[p])' = Walkable(seen[p])
    BY <2>1
  <2>3. \A i \in DOMAIN plan[p] : Uploaded(p, i)' =>
           Uploaded(p, i) \/ (PutDelta(p) /\ i = at[p])
    <3>1. \A i \in DOMAIN plan[p] : i \in Nat
      BY DEF TypeInv, TypeOK
    <3>2. at[p] \in Nat
      BY ConstantsOK DEF TypeInv, TypeOK
    <3>3. CASE PutDelta(p) \/ PutClient(p)
      <4>1. at' = at /\ pc[p] \in {"put_delta", "put_client"}
        BY <3>3 DEF PutDelta, PutClient, writing
      <4>2. PutClient(p) => pc[p] = "put_client"
        BY DEF PutClient
      <4> QED
        BY <3>3, <4>1, <4>2 DEF Uploaded
    <3>4. CASE FinishDelta(p)
      <4>1. /\ pc[p] = "finish" /\ at' = [at EXCEPT ![p] = @ + 1]
            /\ pc' = [pc EXCEPT ![p] = "put_delta"]
        BY <1>2, <3>4 DEF FinishDelta
      <4>2. at'[p] = at[p] + 1 /\ pc'[p] = "put_delta"
        BY <4>1 DEF TypeInv, TypeOK
      <4>3. \A i \in DOMAIN plan[p] : i < at[p] + 1 => i < at[p] \/ i = at[p]
        BY <3>1, <3>2
      <4> QED
        BY <4>1, <4>2, <4>3 DEF Uploaded
    <3> QED
      BY <3>3, <3>4
  <2>4. ASSUME PutDelta(p)
        PROVE  plan[p][at[p]] \in deltas' /\ plan[p][at[p]].tail \notin folded
    <3>1. at[p] \in Pending(p) /\ deltas' = deltas \cup {plan[p][at[p]]}
      BY <2>4, PutDeltaEffect
    <3> QED
      BY <3>1 DEF FreshInv, Known
  <2>5. \A i \in DOMAIN plan[p] :
           Uploaded(p, i)' => plan[p][i] \in deltas' /\ plan[p][i].tail \notin folded'
    BY <2>1, <2>3, <2>4 DEF QuietInv, WriterLive, BundleKept
  <2>6. pc[p] \in WritePCs /\ pc'[p] # "idle"
    BY <2>1 DEF WritePCs, Uploading
  <2> QED
    BY <2>1, <2>2, <2>5, <2>6 DEF QuietInv, WriterLive, BundleKept
<1> QED
  BY <1>1, <1>2

\* What is uploaded leads to the baseline if what it is attached to does.
LEMMA UnfoldedGrows ==
    ASSUME UnfoldedLive, BundleKept, NEW e, deltas' = deltas \cup {e}, UNCHANGED folded,
           Parents(e) \subseteq Live
    PROVE  UnfoldedLive' /\ e.tail \in Live'
<1>1. e.tail \in Live'
  <2>1. e \in Listing'.deltas
    BY DEF Listing
  <2>2. Parents(e) \subseteq Walkable(Listing')
    BY DEF BundleKept, Live
  <2> QED
    BY <2>1, <2>2, WalkableFrom DEF Live
<1> QED
  BY <1>1 DEF UnfoldedLive, BundleKept

LEMMA PutDeltaLive ==
    ASSUME TypeInv, OrderInv, QuietInv, BundleKept, NEW p \in Proc, PutDelta(p)
    PROVE  UnfoldedLive'
<1> DEFINE e == plan[p][at[p]]
<1>1. at[p] \in Pending(p) /\ deltas' = deltas \cup {e} /\ UNCHANGED folded
  BY PutDeltaEffect
<1>2. at[p] \in DOMAIN plan[p] /\ ProcKnown(p) /\ WriterLive(p) /\ pc[p] \in Uploading
  BY <1>1 DEF Pending, OrderInv, QuietInv, PutDelta, Uploading
<1>3. Parents(e) = {IF at[p] = 1 THEN from[p] ELSE plan[p][at[p] - 1].tail}
  BY <1>2 DEF ProcKnown, PlanAttached
<1>4. CASE at[p] = 1
  <2>1. Parents(e) \subseteq Live
    BY <1>2, <1>3, <1>4 DEF WriterLive
  <2> HIDE DEF e
  <2> QED
    BY <1>1, <2>1, UnfoldedGrows DEF QuietInv
<1>5. CASE at[p] # 1
  <2>1. plan[p] \in Seq(Delta) /\ DOMAIN plan[p] = 1..Len(plan[p]) /\ Len(plan[p]) \in Nat
    BY DEF TypeInv, TypeOK
  <2>2. at[p] - 1 \in DOMAIN plan[p] /\ at[p] - 1 < at[p]
    BY <1>2, <1>5, <2>1
  <2>3. plan[p][at[p] - 1] \in deltas /\ plan[p][at[p] - 1].tail \notin folded
    BY <1>2, <2>2 DEF WriterLive, Uploaded
  <2>4. Parents(e) \subseteq Live
    BY <1>3, <1>5, <2>3 DEF QuietInv, UnfoldedLive
  <2> HIDE DEF e
  <2> QED
    BY <1>1, <2>4, UnfoldedGrows DEF QuietInv
<1> QED
  BY <1>4, <1>5

\* The app attaches its deltas to the frontier.
LEMMA PushQuiet ==
    ASSUME TypeInv, QuietInv, BundleKept, AppPush
    PROVE  UnfoldedLive' /\ DocsLive'
<1> DEFINE F == Frontier(Listing, clientFiles)
<1>1. PICK ps \in TailTuples(F), t \in TailId \ issued :
             /\ deltas' = deltas \cup {[ts |-> clock, parents |-> ps, tail |-> t]}
             /\ clientFiles' = Documents(App, <<t>>)
  BY DEF AppPush
<1>2. F \subseteq Live
  BY BundleFrontierLive DEF QuietInv
<1>3. Range(ps) \subseteq F
  <2>1. CASE \E u \in F : ps = <<u>>
    BY <2>1 DEF Range
  <2>2. CASE \E u \in F, v \in F : ps = <<u, v>>
    BY <2>2 DEF Range
  <2> QED
    BY <2>1, <2>2 DEF TailTuples
<1> DEFINE e == [ts |-> clock, parents |-> ps, tail |-> t]
<1>4. deltas' = deltas \cup {e} /\ e.tail = t /\ Parents(e) = Range(ps) /\ UNCHANGED folded
  BY <1>1 DEF Parents, AppPush
<1> HIDE DEF e
<1>5. UnfoldedLive' /\ t \in Live'
  BY <1>2, <1>3, <1>4, UnfoldedGrows DEF QuietInv
<1>6. Range(<<t>>) \subseteq Live'
  BY <1>5 DEF Range
<1> QED
  BY <1>1, <1>5, <1>6, AppDocs DEF QuietInv

LEMMA AdvertiseQuiet ==
    ASSUME TypeInv, QuietInv, BundleKept, AppAdvertise
    PROVE  DocsLive'
<1>1. PICK ts : /\ Range(ts) = Frontier(Listing, clientFiles)
                /\ clientFiles' = Documents(App, ts)
  BY DEF AppAdvertise
<1>2. Range(ts) \subseteq Live'
  BY <1>1, BundleFrontierLive DEF QuietInv, BundleKept
<1> QED
  BY <1>1, <1>2, AppDocs DEF QuietInv

-----------------------------------------------------------------------------
(* A compaction between writes: what the documents advertise is at its new *)
(* baseline or below it, and so is what was attached to it.                *)

LEMMA CompactQuiet ==
    ASSUME TypeInv, TypeInv', BundleInv, QuietInv, AppCompact,
           \A p \in Proc : pc[p] \notin WritePCs
    PROVE  QuietInv'
<1> DEFINE L == Listing
           b == base.tail
<1>1. UNCHANGED <<deltas, clientFiles, pc, read>>
  BY DEF AppCompact, local, reading
<1>2. PICK t \in Tails(L) \cap Live :
                 /\ SeenByAll(t)
                 /\ t \in Live'
                 /\ folded' = folded \cup Selected(L, {t})
                 /\ Live \ Selected(L, {t}) \subseteq Live' \cup {b}
  BY BundleCompacted
<1>3. b \notin Tails(L) /\ Unique(L) /\ L.base.tail = b /\ L.deltas = deltas
  BY BundleCompacted DEF BundleInv, Listing
<1>4. UnfoldedLive'
  <2>1. \A d \in deltas : d.tail # b
    BY <1>3 DEF Tails
  <2> QED
    BY <1>1, <1>2, <2>1 DEF QuietInv, UnfoldedLive
<1>5. \A p \in Proc : WriterLive(p)'
  <2>1. \A p \in Proc : pc'[p] \notin WritePCs /\ (pc'[p] = "idle" => read'[p] = {})
    BY <1>1 DEF QuietInv, WriterLive
  <2> QED
    BY <2>1, ReaderQuiet
<1>6. ASSUME NEW f \in Newest(clientFiles), NEW u \in Range(f.tails)
      PROVE  t \in Above(L, {u}, {b}) /\ u \in Live'
  <2>1. u = t \/ DependsOn(L, u, t)
    BY <1>2, <1>6 DEF SeenByAll
  <2>2. t \in Above(L, {u}, {b})
    BY <1>2, <1>3, <2>1, SeenAbove
  <2>3. u \in Tails(L) \ {b}
    BY <2>2, BelowListed
  <2>4. u # t => u \notin Selected(L, {t})
    BY <1>2, <1>3, <2>2, DescendantStays DEF Live
  <2>5. u \in Live
    BY <1>6 DEF QuietInv, DocsLive
  <2> QED
    BY <1>2, <2>2, <2>3, <2>4, <2>5
<1>7. ASSUME NEW f \in Newest(clientFiles), Followed(f) PROVE Followed(f)'
  <2>1. PICK d \in deltas : d.tail \notin folded /\ Range(f.tails) \cap Parents(d) # {}
    BY <1>7 DEF Followed
  <2>2. PICK u \in Range(f.tails) : u \in Parents(d)
    BY <2>1
  <2>3. t \in Above(L, {u}, {b})
    BY <1>6
  <2>4. d.tail \notin Selected(L, {t})
    BY <1>2, <1>3, <2>2, <2>3, FollowerStays DEF Live
  <2> QED
    BY <1>1, <1>2, <2>1, <2>4 DEF Followed
<1>8. Newest(clientFiles') = Newest(clientFiles)
  BY <1>1
<1>9. DocsLive'
  BY <1>1, <1>6, <1>7, <1>8 DEF QuietInv, DocsLive
<1> QED
  BY <1>4, <1>5, <1>9 DEF QuietInv

LEMMA QuietNext ==
    ASSUME Compaction # "anytime", TypeInv, OrderInv, FreshInv, BundleInv, QuietInv, [Next]_vars
    PROVE  QuietInv'
<1>1. TypeInv'
  BY TypeNext
<1>2. CASE AppCompact
  <2>1. \A p \in Proc : pc[p] \notin WritePCs
    BY <1>2 DEF AppCompact
  <2> QED
    BY <1>1, <1>2, <2>1, CompactQuiet
<1>3. ASSUME ~ AppCompact PROVE QuietInv'
  <2>1. BundleKept
    BY <1>3, BundleNext
  <2>2. ASSUME deltas' \subseteq deltas, UNCHANGED folded PROVE UnfoldedLive'
    BY <2>1, <2>2 DEF QuietInv, UnfoldedLive, BundleKept
  <2>3. ASSUME NEW p \in Proc, LoadStep(p) \/ WriteStep(p) \/ FetchClient(p) \/ Fail(p)
        PROVE  QuietInv'
    <3>1. \A q \in Proc \ {p} : WriterLive(q)'
      BY <2>1, <2>3, OthersStay, StaysQuiet DEF QuietInv
    <3>2. CASE LoadStep(p) \/ FetchClient(p) \/ Fail(p)
      <4>1. UNCHANGED <<deltas, folded, clientFiles>>
        BY <3>2 DEF LoadStep, Load, ForcedLoad, List, ReturnCached, MissCache, FetchBaseline,
                    FailBaseline, FetchDelta, FailDelta, SaveModel, FetchClient, Fail, server
      <4>2. WriterLive(p)'
        BY <1>1, <2>1, <3>2, LoadQuiet, FetchQuiet
      <4> QED
        BY <2>1, <2>2, <3>1, <4>1, <4>2, SameDocs DEF QuietInv
    <3>3. CASE Write(p) \/ CheckBaseline(p) \/ PlanWrite(p)
      <4>1. UNCHANGED <<deltas, folded, clientFiles>>
        BY <3>3 DEF Write, List, CheckBaseline, PlanWrite, server
      <4>2. WriterLive(p)'
        BY <1>1, <2>1, <3>3, ListQuiet, ReturnQuiet, PlanQuiet
      <4> QED
        BY <2>1, <2>2, <3>1, <4>1, <4>2, SameDocs DEF QuietInv
    <3>4. CASE PutDelta(p)
      <4>1. UNCHANGED clientFiles
        BY <3>4 DEF PutDelta
      <4> QED
        BY <2>1, <3>1, <3>4, <4>1, UploadQuiet, PutDeltaLive, SameDocs DEF QuietInv
    <3>5. CASE PutClient(p)
      <4>1. UNCHANGED <<deltas, folded>>
        BY <3>5 DEF PutClient
      <4> QED
        BY <2>1, <2>2, <3>1, <3>5, <4>1, UploadQuiet, PutClientDocs DEF QuietInv
    <3>6. CASE FinishDelta(p)
      <4>1. UNCHANGED <<deltas, folded, clientFiles>>
        BY <3>6 DEF FinishDelta, server
      <4> QED
        BY <2>1, <2>2, <3>1, <3>6, <4>1, UploadQuiet, SameDocs DEF QuietInv
    <3> QED
      BY <2>3, <3>2, <3>3, <3>4, <3>5, <3>6 DEF WriteStep
  <2>4. ASSUME UNCHANGED local PROVE \A p \in Proc : WriterLive(p)'
    <3>1. \A p \in Proc : Stays(p)
      BY <2>4 DEF local, reading, writing, Stays
    <3> QED
      BY <2>1, <3>1, StaysQuiet DEF QuietInv
  <2>5. CASE AppPush
    <3>1. UNCHANGED local
      BY <2>5 DEF AppPush
    <3> QED
      BY <2>1, <2>4, <2>5, <3>1, PushQuiet DEF QuietInv
  <2>6. CASE AppAdvertise
    <3>1. UNCHANGED <<deltas, folded, local>>
      BY <2>6 DEF AppAdvertise
    <3> QED
      BY <2>1, <2>2, <2>4, <2>6, <3>1, AdvertiseQuiet DEF QuietInv
  <2>7. CASE AppSweep \/ Tick \/ UNCHANGED vars
    <3>1. deltas' \subseteq deltas /\ UNCHANGED folded /\ UNCHANGED clientFiles /\ UNCHANGED local
      BY <2>7 DEF AppSweep, Tick, vars, server
    <3> QED
      BY <2>1, <2>2, <2>4, <3>1, SameDocs DEF QuietInv
  <2> QED
    BY <1>3, <2>3, <2>5, <2>6, <2>7 DEF Next, AppStep
<1> QED
  BY <1>2, <1>3

(* The invariant behind the next three theorems. Where OmniFocus compacts  *)
(* while a write is under way it does not hold, and neither do they.       *)
THEOREM QuietStore ==
    ASSUME Compaction # "anytime"
    PROVE  Spec => [](TypeInv /\ OrderInv /\ FreshInv /\ AckedInv /\ BundleInv /\ QuietInv)
<1>1. Init => TypeInv /\ OrderInv /\ FreshInv /\ AckedInv /\ BundleInv /\ QuietInv
  BY TypeInit, OrderInit, FreshInit, AckedInit, BundleInit, QuietInit
<1>2. TypeInv /\ OrderInv /\ FreshInv /\ AckedInv /\ BundleInv /\ QuietInv /\ [Next]_vars
        => (TypeInv /\ OrderInv /\ FreshInv /\ AckedInv /\ BundleInv /\ QuietInv)'
  BY TypeNext, OrderNext, FreshNext, AckedNext, BundleNext, QuietNext
<1> QED
  BY <1>1, <1>2, PTL DEF Spec

\* All that was ever uploaded is in the model.
LEMMA AllInView ==
    ASSUME TypeInv, BundleInv, QuietInv
    PROVE  CurrentView = Known \ {BaseTail} /\ base.tail \in folded \cup {BaseTail}
<1>1. Listing.base = base /\ Listing.deltas = deltas /\ base.tail # NoTail
  BY ConstantsOK DEF Listing, TypeInv, TypeOK, Baseline
<1>2. CurrentView = folded \cup Selected(Listing, ReachableTails(Listing))
  BY <1>1, ToppedSelects DEF CurrentView, View, BundleInv
<1>3. Live \ {base.tail} \subseteq Selected(Listing, ReachableTails(Listing))
  BY <1>1 DEF BundleInv, Topped, Live
<1>4. Tails(Listing) \subseteq folded \cup Live
  BY <1>1 DEF QuietInv, UnfoldedLive, Tails
<1>5. BaseTail \notin Tails(Listing)
  BY <1>1 DEF BundleInv, Tails
<1>6. Selected(Listing, ReachableTails(Listing)) \subseteq Tails(Listing)
  BY AboveClosed DEF Selected
<1> QED
  BY <1>2, <1>3, <1>4, <1>5, <1>6 DEF BundleInv, Known

(* Every delta that reached the bundle counts: forks, half-uploaded plans  *)
(* and compactions between writes lose none.                               *)
THEOREM NothingLost ==
    ASSUME Compaction # "anytime"
    PROVE  Spec => []EveryUploadApplied
<1>1. TypeInv /\ BundleInv /\ QuietInv => EveryUploadApplied
  <2> SUFFICES ASSUME TypeInv, BundleInv, QuietInv PROVE EveryUploadApplied
    OBVIOUS
  <2>1. BaseTail \notin Tails(Listing)
    BY DEF BundleInv, Tails, Listing
  <2> QED
    BY <2>1, AllInView DEF EveryUploadApplied, Known
<1> QED
  BY <1>1, QuietStore, PTL

(* Once a write has returned to its caller, its transactions stay in the   *)
(* model of the bundle, whatever other writers and the app do.             *)
THEOREM AckedNeverLost ==
    ASSUME Compaction # "anytime"
    PROVE  Spec => []AckedVisible
<1>1. TypeInv /\ AckedInv /\ BundleInv /\ QuietInv => AckedVisible
  BY AllInView DEF AckedInv, AckedVisible
<1> QED
  BY <1>1, QuietStore, PTL

(* The bundle can always be read: what its frontier stands on is there,    *)
(* parent by parent down to the baseline, and in no cycle.                 *)
THEOREM NeverStuck ==
    ASSUME Compaction # "anytime"
    PROVE  Spec => []AlwaysResolvable
<1>1. TypeInv /\ BundleInv /\ QuietInv => AlwaysResolvable
  <2> SUFFICES ASSUME TypeInv, BundleInv, QuietInv PROVE AlwaysResolvable
    OBVIOUS
  <2> DEFINE L == Listing
             F == Frontier(L, clientFiles)
             b == L.base.tail
  <2>1. F \subseteq Walkable(L)
    BY BundleFrontierLive DEF QuietInv, Live
  <2>2. Walkable(L) \subseteq Tails(L) \cup {b}
    BY WalkableIsPart
  <2>3. Unique(L)
    BY DEF BundleInv
  <2>4. Selected(L, F) \subseteq Walkable(L) \ {b}
    BY <2>1, <2>3, WalkableAbove
  <2>5. ASSUME NEW d \in L.deltas, d.tail \in Selected(L, F)
        PROVE  Parents(d) \subseteq Tails(L) \cup {b} /\ d.tail \notin Above(L, Parents(d), {b})
    BY <2>2, <2>3, <2>4, <2>5, WalkableParents, WalkableIsAcyclic
  <2> QED
    BY <2>1, <2>2, <2>5 DEF AlwaysResolvable, Resolvable
<1> QED
  BY <1>1, QuietStore, PTL

-----------------------------------------------------------------------------
(* The store implements TxLog: the model of the bundle is the set of the   *)
(* tails it ever had, to which a PUT adds one and nothing else does        *)
(* anything.                                                               *)

LEMMA LogInitView == LogInit => log = CurrentView
BY DEF LogInit

\* The history variable follows the model of the bundle.
LEMMA LogNextView == log = CurrentView /\ [LogNext]_logVars => (log = CurrentView)'
<1> SUFFICES ASSUME log = CurrentView, [LogNext]_logVars PROVE log' = CurrentView'
  OBVIOUS
<1>1. CASE UNCHANGED <<server, log>>
  BY <1>1 DEF CurrentView, Listing, server
<1>2. CASE log' = View(Listing', clientFiles', folded')
  BY <1>2 DEF CurrentView
<1>3. CASE UNCHANGED logVars
  BY <1>1, <1>3 DEF logVars, vars
<1> QED
  BY <1>1, <1>2, <1>3 DEF LogNext, Listing

\* What the steps below may use of the state.
StoreInv == TypeInv /\ OrderInv /\ FreshInv /\ AckedInv /\ BundleInv /\ QuietInv
LogIs == log = CurrentView /\ log = Known \ {BaseTail}

-----------------------------------------------------------------------------
(* The step of the log that a step of the store is. *)

\* A step that uploads nothing leaves the log alone.
LEMMA SameLog ==
    ASSUME LogIs, LogIs', UNCHANGED <<deltas, folded>>
    PROVE  log' = log
BY KnownExpanded DEF LogIs

LEMMA ReplyStep ==
    ASSUME LogIs, LogIs', UNCHANGED <<deltas, folded>>, NEW p \in Proc, Return(p),
           NEW T \in SUBSET log, acked' = acked \cup T
    PROVE  Log!Reply(p)
<1>1. log' = log
  BY SameLog
<1>2. due' = [due EXCEPT ![p] = {}]
  BY DEF Return
<1> QED
  BY <1>1, <1>2 DEF Log!Reply

LEMMA CommitStep ==
    ASSUME LogIs, LogIs', NEW e, deltas' = deltas \cup {e}, e.tail \in TailId,
           e.tail \notin Known, UNCHANGED <<folded, acked, due>>
    PROVE  Log!Commit
<1>1. {d.tail : d \in deltas'} = {d.tail : d \in deltas} \cup {e.tail}
  BY KnownOf
<1>2. Known' = Known \cup {e.tail} /\ BaseTail \in Known
  BY <1>1, KnownExpanded
<1>3. log' = log \cup {e.tail} /\ e.tail \in TailId \ log
  BY <1>2 DEF LogIs
<1> QED
  BY <1>3 DEF Log!Commit

LEMMA ReadingStep ==
    ASSUME LogIs, LogIs', NEW p \in Proc,
           LoadStep(p) \/ Write(p) \/ CheckBaseline(p) \/ FetchClient(p) \/ Fail(p)
    PROVE  Log!Next \/ UNCHANGED <<log, acked, due>>
<1>1. UNCHANGED <<deltas, folded, acked>>
  BY DEF LoadStep, Load, ForcedLoad, List, ReturnCached, MissCache, FetchBaseline,
         FailBaseline, FetchDelta, FailDelta, SaveModel, Write, CheckBaseline,
         FetchClient, Fail, server, ghosts
<1>2. log' = log
  BY <1>1, SameLog
<1>3. CASE Load(p) \/ ForcedLoad(p) \/ Write(p)
  <2>1. due' = [due EXCEPT ![p] = log]
    BY <1>3 DEF Load, ForcedLoad, Write, List, LogIs
  <2> QED
    BY <1>1, <1>2, <2>1 DEF Log!Ask, Log!Next
<1>4. CASE Return(p)
  <2>1. {} \in SUBSET log /\ acked' = acked \cup {}
    BY <1>1
  <2>2. Log!Reply(p)
    BY <1>1, <1>4, <2>1, ReplyStep
  <2> QED
    BY <2>2 DEF Log!Next
<1>5. CASE MissCache(p) \/ FetchBaseline(p) \/ FetchDelta(p) \/ FetchClient(p)
  BY <1>1, <1>2, <1>5 DEF MissCache, FetchBaseline, FetchDelta, FetchClient
<1>6. CASE CheckBaseline(p)
  BY <1>1, <1>2, <1>4, <1>6 DEF CheckBaseline
<1> QED
  BY <1>3, <1>4, <1>5, <1>6
     DEF LoadStep, ReturnCached, FailBaseline, FailDelta, SaveModel, Fail

LEMMA WritingStep ==
    ASSUME StoreInv, StoreInv', LogIs, LogIs', NEW p \in Proc,
           PlanWrite(p) \/ PutDelta(p) \/ PutClient(p) \/ FinishDelta(p)
    PROVE  Log!Next \/ UNCHANGED <<log, acked, due>>
<1>1. CASE PlanWrite(p) \/ PutClient(p)
  <2>1. UNCHANGED <<deltas, folded, acked, due>>
    BY <1>1 DEF PlanWrite, PutClient, server, ghosts
  <2> QED
    BY <2>1, SameLog
<1>2. CASE PutDelta(p)
  <2> DEFINE e == plan[p][at[p]]
  <2>1. at[p] \in Pending(p) /\ deltas' = deltas \cup {e} /\ UNCHANGED <<folded, acked>>
    BY <1>2, PutDeltaEffect DEF StoreInv
  <2>2. e.tail \in issued \ Known
    BY <2>1 DEF StoreInv, FreshInv
  <2>3. e.tail \in TailId
    BY <2>2 DEF StoreInv, TypeInv, TypeOK
  <2>4. UNCHANGED due
    BY <1>2 DEF PutDelta
  <2> HIDE DEF e
  <2>5. Log!Commit
    BY <2>1, <2>2, <2>3, <2>4, CommitStep
  <2> QED
    BY <2>5 DEF Log!Next
<1>3. CASE FinishDelta(p) /\ ~ LastDelta(p)
  <2>1. UNCHANGED <<deltas, folded, acked, due>>
    BY <1>3 DEF FinishDelta, server
  <2> QED
    BY <2>1, SameLog
<1>4. CASE FinishDelta(p) /\ LastDelta(p)
  <2> DEFINE T == {d.tail : d \in Range(plan[p])}
  <2>1. Return(p) /\ acked' = acked \cup T /\ UNCHANGED <<deltas, folded>>
    BY <1>4 DEF FinishDelta, server
  <2>2. acked' \subseteq Known' \ {BaseTail}
    BY DEF StoreInv, AckedInv
  <2>3. T \subseteq log
    BY <2>1, <2>2, SameLog DEF LogIs
  <2> HIDE DEF T
  <2>4. Log!Reply(p)
    BY <2>1, <2>3, ReplyStep
  <2> QED
    BY <2>4 DEF Log!Next
<1> QED
  BY <1>1, <1>2, <1>3, <1>4

LEMMA AppLogStep ==
    ASSUME StoreInv, LogIs, LogIs', AppStep \/ Tick
    PROVE  Log!Next \/ UNCHANGED <<log, acked, due>>
<1>1. UNCHANGED <<acked, due>>
  BY DEF AppStep, AppPush, AppAdvertise, AppCompact, AppSweep, Tick, ghosts, local
<1>2. CASE AppPush
  <2>1. PICK ps \in TailTuples(Frontier(Listing, clientFiles)), t \in TailId \ issued :
               deltas' = deltas \cup {[ts |-> clock, parents |-> ps, tail |-> t]}
    BY <1>2 DEF AppPush
  <2> DEFINE e == [ts |-> clock, parents |-> ps, tail |-> t]
  <2>2. deltas' = deltas \cup {e} /\ e.tail \in TailId /\ e.tail \notin Known
    BY <2>1 DEF StoreInv, FreshInv
  <2>3. UNCHANGED folded
    BY <1>2 DEF AppPush
  <2> HIDE DEF e
  <2>4. Log!Commit
    BY <1>1, <2>2, <2>3, CommitStep
  <2> QED
    BY <2>4 DEF Log!Next
<1>3. CASE AppAdvertise \/ Tick
  <2>1. UNCHANGED <<deltas, folded>>
    BY <1>3 DEF AppAdvertise, Tick, server
  <2> QED
    BY <1>1, <2>1, SameLog
<1>4. CASE AppCompact
  <2>1. UNCHANGED deltas /\ \E t : folded' = folded \cup Selected(Listing, {t})
    BY <1>4 DEF AppCompact
  <2>2. \A t : Selected(Listing, {t}) \subseteq {d.tail : d \in deltas}
    BY DEF Selected, Above, Tails, Listing
  <2>3. Known' = Known
    BY <2>1, <2>2, KnownExpanded
  <2> QED
    BY <1>1, <2>3 DEF LogIs
<1>5. CASE AppSweep
  <2>1. UNCHANGED folded /\ \E d \in deltas : d.tail \in folded /\ deltas' = deltas \ {d}
    BY <1>5 DEF AppSweep
  <2>2. Known' = Known
    BY <2>1, KnownExpanded
  <2> QED
    BY <1>1, <2>2 DEF LogIs
<1> QED
  BY <1>2, <1>3, <1>4, <1>5 DEF AppStep

LEMMA LogStep ==
    ASSUME StoreInv, StoreInv', LogIs, LogIs', [LogNext]_logVars
    PROVE  [Log!Next]_<<log, acked, due>>
<1>1. ASSUME NEW p \in Proc, LoadStep(p) \/ WriteStep(p) \/ FetchClient(p) \/ Fail(p)
      PROVE  Log!Next \/ UNCHANGED <<log, acked, due>>
  BY <1>1, ReadingStep, WritingStep DEF WriteStep
<1>2. CASE AppStep \/ Tick
  BY <1>2, AppLogStep
<1>3. CASE UNCHANGED logVars
  BY <1>3 DEF logVars, vars, ghosts, local
<1> QED
  BY <1>1, <1>2, <1>3 DEF LogNext, Next

-----------------------------------------------------------------------------
(* Where OmniFocus compacts between writes or not at all, concurrent       *)
(* callers, half-written plans, forks, merges and new baselines show to    *)
(* nobody: the store behaves as one log that a delta enters at its PUT and *)
(* never leaves.                                                           *)
THEOREM StoreIsLog ==
    ASSUME Compaction # "anytime"
    PROVE  LogSpec => ImplementsLog
<1>1. LogInit => Init
  BY DEF LogInit
<1>2. [LogNext]_logVars => [Next]_vars
  BY DEF LogNext, logVars
<1>3. LogSpec => Spec
  BY <1>1, <1>2, PTL DEF LogSpec, Spec
<1>4. LogSpec => []StoreInv
  BY <1>3, QuietStore, PTL DEF StoreInv
<1>5. LogSpec => [](log = CurrentView)
  BY LogInitView, LogNextView, PTL DEF LogSpec
<1>6. StoreInv /\ log = CurrentView => LogIs
  BY AllInView DEF StoreInv, LogIs
<1>7. LogInit /\ LogIs => Log!Init
  BY KnownExpanded DEF LogInit, Init, LogIs, Log!Init
<1>8. StoreInv /\ StoreInv' /\ LogIs /\ LogIs' /\ [LogNext]_logVars
        => [Log!Next]_<<log, acked, due>>
  BY LogStep
<1> QED
  BY <1>4, <1>5, <1>6, <1>7, <1>8, PTL DEF LogSpec, ImplementsLog, Log!Spec

=============================================================================
