----------------------------- MODULE SyncStore -----------------------------
(***************************************************************************)
(* The read and write path of the sync store (omnifocus/store.py) over a   *)
(* WebDAV bundle shared with OmniFocus itself.                             *)
(*                                                                         *)
(* Each process is one command, tool call or HTTP request that runs load() *)
(* or one mutating method.  A step ends at an await on the network, so the *)
(* steps of different processes, and those of the app, interleave there.   *)
(* All processes share one cache directory and one client identity.        *)
(*                                                                         *)
(* A transaction is known by the tail it produces; a model is the set of   *)
(* transactions it was built from.  Server files are names with immutable  *)
(* contents, except that a .client file is overwritten by one of the same  *)
(* name.  Every await may fail (a timeout, an HTTP error, a cancelled      *)
(* request, the process killed): action Fail.  A PUT whose answer is lost  *)
(* is PutDelta or PutClient followed by Fail; the transport's retry of it  *)
(* repeats the same PUT and changes nothing.                               *)
(***************************************************************************)
EXTENDS BundleGraph

CONSTANTS
    Proc,                   \* processes sharing the cache directory
    Me, App,                \* client identifiers: this tool's and the app's
    TailId,                 \* tail identifiers
    BaseTail,               \* the tail of the first baseline
    None,                   \* no cache file
    Strategy,               \* OF_WRITE_STRATEGY
    Compaction,             \* when the app folds deltas into a new baseline
    MaxClock,               \* bound: seconds that pass
    MaxChain,               \* bound: deltas of one write plan
    MaxCalls,               \* bound: calls made by all processes
    MaxApp                  \* bound: deltas written by the app

Strategies == {"client_after_each_delta", "chain_then_client"}
Compactions == {"never", "quiescent", "anytime"}

ASSUME ConstantsOK ==
    /\ Me \in Nat /\ App \in Nat /\ Me # App
    /\ TailId \subseteq Nat
    /\ BaseTail \in TailId
    /\ NoTail \notin TailId
    /\ Strategy \in Strategies
    /\ Compaction \in Compactions
    /\ MaxClock \in Nat /\ MaxChain \in Nat \ {0} /\ MaxCalls \in Nat /\ MaxApp \in Nat

VARIABLES
    base,           \* the baseline on the server
    folded,         \* ghost: transactions contained in it
    deltas,         \* delta files on the server
    clientFiles,    \* .client files on the server, with the tails they advertise
    cache,          \* the model cache file: the listing it was built from, its model
    clock,          \* the time, in seconds
    issued,         \* ghost: tails generated so far
    calls, pushes,  \* ghost: calls begun, deltas pushed by the app
    acked,          \* ghost: transactions of writes that returned to their caller
    pc,             \* where each process stands
    seen,           \* the listing it works from
    left,           \* .client names it has still to fetch
    read,           \* .client files it has fetched
    want,           \* load: delta files it has still to fetch
    got,            \* load: contents of the baseline it fetched
    due,            \* ghost: the model of the bundle when the listing was made
    from,           \* write: the accepted tail
    plan,           \* write: the deltas to upload
    at              \* write: the next of them

server == <<base, folded, deltas, clientFiles>>
ghosts == <<clock, issued, calls, pushes, acked>>
reading == <<left, read, want, got>>
writing == <<from, plan, at>>
local == <<pc, seen, reading, due, writing>>
vars == <<server, cache, ghosts, local>>

Delta == [ts : Nat, parents : Seq(TailId), tail : TailId]
ClientName == [ts : Nat, id : {Me, App}]
ClientFile == [ts : Nat, id : {Me, App}, tails : Seq(TailId)]
Baseline == [snap : Nat, tail : TailId]
Listings == [base : Baseline, deltas : SUBSET Delta, clients : SUBSET ClientName]

LoadPCs == {"check_cache", "load_clients", "load_deltas"}
WritePCs == {"write_baseline", "write_clients", "put_delta", "put_client", "finish"}

NameOf(f) == [ts |-> f.ts, id |-> f.id]
Listing == [base |-> base, deltas |-> deltas, clients |-> {NameOf(f) : f \in clientFiles}]

NoListing == [base |-> [snap |-> 0, tail |-> BaseTail], deltas |-> {}, clients |-> {}]

View(L, files, contents) == contents \cup Selected(L, Frontier(L, files))
CurrentView == View(Listing, clientFiles, folded)

Init ==
    /\ base = NoListing.base
    /\ folded = {}
    /\ deltas = {}
    /\ clientFiles = {[ts |-> 0, id |-> App, tails |-> <<BaseTail>>]}
    /\ cache = None
    /\ clock = 0
    /\ issued = {BaseTail}
    /\ calls = 0 /\ pushes = 0
    /\ acked = {}
    /\ pc = [p \in Proc |-> "idle"]
    /\ seen = [p \in Proc |-> NoListing]
    /\ left = [p \in Proc |-> {}]
    /\ read = [p \in Proc |-> {}]
    /\ want = [p \in Proc |-> {}]
    /\ got = [p \in Proc |-> {}]
    /\ due = [p \in Proc |-> {}]
    /\ from = [p \in Proc |-> BaseTail]
    /\ plan = [p \in Proc |-> <<>>]
    /\ at = [p \in Proc |-> 1]

-----------------------------------------------------------------------------
(* Steps shared by loads and writes. *)

\* PROPFIND: the call begins with a listing of the bundle.
List(p, next) ==
    /\ pc[p] = "idle"
    /\ calls < MaxCalls
    /\ calls' = calls + 1
    /\ pc' = [pc EXCEPT ![p] = next]
    /\ seen' = [seen EXCEPT ![p] = Listing]
    /\ left' = [left EXCEPT ![p] = Listing.clients]
    /\ due' = [due EXCEPT ![p] = CurrentView]
    /\ UNCHANGED <<server, cache, clock, issued, pushes, acked, read, want, got, writing>>

\* The call is over and its local state is gone.
Return(p) ==
    /\ pc' = [pc EXCEPT ![p] = "idle"]
    /\ seen' = [seen EXCEPT ![p] = NoListing]
    /\ left' = [left EXCEPT ![p] = {}]
    /\ read' = [read EXCEPT ![p] = {}]
    /\ want' = [want EXCEPT ![p] = {}]
    /\ got' = [got EXCEPT ![p] = {}]
    /\ due' = [due EXCEPT ![p] = {}]
    /\ from' = [from EXCEPT ![p] = BaseTail]
    /\ plan' = [plan EXCEPT ![p] = <<>>]
    /\ at' = [at EXCEPT ![p] = 1]

\* The next .client file, in name order. A file that is gone, or answers 404 three
\* times while another device rewrites it, is skipped.
FetchClient(p) ==
    /\ pc[p] \in {"load_clients", "write_clients"}
    /\ \E n \in left[p] :
          /\ \A m \in left[p] : ~ ClientBefore(m, n)
          /\ left' = [left EXCEPT ![p] = @ \ {n}]
          /\ \/ \E f \in clientFiles :
                   /\ NameOf(f) = n
                   /\ read' = [read EXCEPT ![p] = @ \cup {f}]
             \/ UNCHANGED read
    /\ UNCHANGED <<server, cache, ghosts, pc, seen, want, got, due, writing>>

\* An await fails, or the process is killed, and the call is over.
Fail(p) ==
    /\ pc[p] # "idle"
    /\ Return(p)
    /\ UNCHANGED <<server, cache, ghosts>>

-----------------------------------------------------------------------------
(* load() *)

Load(p) == List(p, "check_cache")
ForcedLoad(p) == List(p, "load_clients")

\* Mutant: any cache file will do.
AnyCacheHit(p) == cache # None

CacheHit(p) == cache # None /\ cache.names = Fingerprint(seen[p])

ReturnCached(p) ==
    /\ pc[p] = "check_cache"
    /\ CacheHit(p)
    /\ Return(p)
    /\ UNCHANGED <<server, cache, ghosts>>

MissCache(p) ==
    /\ pc[p] = "check_cache"
    /\ ~ CacheHit(p)
    /\ pc' = [pc EXCEPT ![p] = "load_clients"]
    /\ UNCHANGED <<server, cache, ghosts, seen, reading, due, writing>>

\* Resolve the frontier, then GET the baseline.
FetchBaseline(p) ==
    /\ pc[p] = "load_clients"
    /\ left[p] = {}
    /\ LET frontier == Frontier(seen[p], read[p])
           selected == Selected(seen[p], frontier)
       IN  /\ Resolvable(seen[p], frontier)
           /\ want' = [want EXCEPT ![p] = {d \in seen[p].deltas : d.tail \in selected}]
    /\ seen[p].base = base
    /\ got' = [got EXCEPT ![p] = folded]
    /\ pc' = [pc EXCEPT ![p] = "load_deltas"]
    /\ UNCHANGED <<server, cache, ghosts, seen, left, read, due, writing>>

\* The frontier does not resolve, or the baseline is gone.
FailBaseline(p) ==
    /\ pc[p] = "load_clients"
    /\ left[p] = {}
    /\ \/ ~ Resolvable(seen[p], Frontier(seen[p], read[p]))
       \/ seen[p].base # base
    /\ Return(p)
    /\ UNCHANGED <<server, cache, ghosts>>

\* GET one delta. They are fetched in the order GraphWalk sorts them into, which
\* makes no difference to what the GETs of immutable files return.
FetchDelta(p) ==
    /\ pc[p] = "load_deltas"
    /\ \E d \in want[p] \cap deltas : want' = [want EXCEPT ![p] = @ \ {d}]
    /\ UNCHANGED <<server, cache, ghosts, pc, seen, left, read, got, due, writing>>

FailDelta(p) ==
    /\ pc[p] = "load_deltas"
    /\ want[p] \ deltas # {}
    /\ Return(p)
    /\ UNCHANGED <<server, cache, ghosts>>

\* Parse, save the model under the names of the listing it came from, return it.
SaveModel(p) ==
    /\ pc[p] = "load_deltas"
    /\ want[p] = {}
    /\ LET model == View(seen[p], read[p], got[p])
       IN  /\ cache' = [names |-> Fingerprint(seen[p]), model |-> model]
           /\ Return(p)
    /\ UNCHANGED <<server, ghosts>>

-----------------------------------------------------------------------------
(* A mutating method: _prepare_writer, the write plan, its upload. *)

Write(p) == List(p, "write_baseline")

\* GET the baseline, to see whether the bundle is encrypted.
CheckBaseline(p) ==
    /\ pc[p] = "write_baseline"
    /\ \/ /\ seen[p].base = base
          /\ pc' = [pc EXCEPT ![p] = "write_clients"]
          /\ UNCHANGED <<seen, reading, due, writing>>
       \/ /\ seen[p].base # base
          /\ Return(p)
    /\ UNCHANGED <<server, cache, ghosts>>

\* Mutant: the chain is linked from its end.
ChainBackwards(t, ids) ==
    [i \in 1..Len(ids) |->
        [ts |-> clock + (i - 1),
         parents |-> <<IF i = Len(ids) THEN t ELSE ids[i + 1]>>,
         tail |-> ids[i]]]

\* Mutant: the chain is dated back in time.
ChainBackdated(t, ids) ==
    [i \in 1..Len(ids) |->
        [ts |-> clock - (i - 1),
         parents |-> <<IF i = 1 THEN t ELSE ids[i - 1]>>,
         tail |-> ids[i]]]

\* A chain of deltas one second apart, the first one attached to tail t.
Chain(t, ids) ==
    [i \in 1..Len(ids) |->
        [ts |-> clock + (i - 1),
         parents |-> <<IF i = 1 THEN t ELSE ids[i - 1]>>,
         tail |-> ids[i]]]

FreshIds ==
    UNION {{ids \in [1..n -> TailId \ issued] : \A i, j \in 1..n : ids[i] = ids[j] => i = j} :
             n \in 1..MaxChain}

\* The accepted tail is the head of the frontier of the listing.
PlanWrite(p) ==
    /\ pc[p] = "write_clients"
    /\ left[p] = {}
    /\ \E t \in Frontier(seen[p], read[p]), ids \in FreshIds :
          /\ HeadsFrontier(seen[p], read[p], t)
          /\ from' = [from EXCEPT ![p] = t]
          /\ plan' = [plan EXCEPT ![p] = Chain(t, ids)]
          /\ issued' = issued \cup Range(ids)
    /\ pc' = [pc EXCEPT ![p] = "put_delta"]
    /\ UNCHANGED <<server, cache, clock, calls, pushes, acked, seen, reading, due, at>>

LastDelta(p) == at[p] >= Len(plan[p])

RefreshClientAfter(p) == Strategy = "client_after_each_delta" \/ LastDelta(p)

PutDelta(p) ==
    /\ pc[p] = "put_delta"
    /\ deltas' = deltas \cup {plan[p][at[p]]}
    /\ pc' = [pc EXCEPT ![p] = IF RefreshClientAfter(p) THEN "put_client" ELSE "finish"]
    /\ UNCHANGED <<base, folded, clientFiles, cache, ghosts, seen, reading, due, writing>>

\* Mutant: the document advertises the end of the plan.
ClientDocumentAhead(p) ==
    [ts |-> plan[p][at[p]].ts, id |-> Me, tails |-> <<plan[p][Len(plan[p])].tail>>]

\* The document is named after the delta and advertises the accepted tail.
ClientDocument(p) ==
    [ts |-> plan[p][at[p]].ts, id |-> Me, tails |-> <<from[p]>>]

Overwrite(files, f) == {g \in files : NameOf(g) # NameOf(f)} \cup {f}

PutClient(p) ==
    /\ pc[p] = "put_client"
    /\ clientFiles' = Overwrite(clientFiles, ClientDocument(p))
    /\ pc' = [pc EXCEPT ![p] = "finish"]
    /\ UNCHANGED <<base, folded, deltas, cache, ghosts, seen, reading, due, writing>>

\* Drop the cache file; go on with the next delta of the plan or return.
FinishDelta(p) ==
    /\ pc[p] = "finish"
    /\ cache' = None
    /\ \/ /\ ~ LastDelta(p)
          /\ at' = [at EXCEPT ![p] = @ + 1]
          /\ pc' = [pc EXCEPT ![p] = "put_delta"]
          /\ UNCHANGED <<acked, seen, reading, due, from, plan>>
       \/ /\ LastDelta(p)
          /\ acked' = acked \cup {d.tail : d \in Range(plan[p])}
          /\ Return(p)
    /\ UNCHANGED <<server, clock, issued, calls, pushes>>

-----------------------------------------------------------------------------
(* OmniFocus itself, not in this repository: it adds deltas that merge up  *)
(* to two tails of the frontier, advertises what it has seen, and folds    *)
(* what every registered client has seen into a new baseline.              *)

Documents(id, tails) == {g \in clientFiles : g.id # id} \cup
                        {[ts |-> clock, id |-> id, tails |-> tails]}

\* The frontier, or a part of it, as a sequence.
TailTuples(F) == {<<t>> : t \in F} \cup {s \in F \X F : s[1] # s[2]}

AppPush ==
    /\ pushes < MaxApp
    /\ pushes' = pushes + 1
    /\ \E ps \in TailTuples(Frontier(Listing, clientFiles)), t \in TailId \ issued :
          /\ deltas' = deltas \cup {[ts |-> clock, parents |-> ps, tail |-> t]}
          /\ issued' = issued \cup {t}
          /\ clientFiles' = Documents(App, <<t>>)
    /\ UNCHANGED <<base, folded, cache, clock, calls, acked, local>>

AppAdvertise ==
    /\ \E ts \in TailTuples(Frontier(Listing, clientFiles)) :
          /\ Range(ts) = Frontier(Listing, clientFiles)
          /\ \A f \in clientFiles : f.id = App => f.tails # ts
          /\ clientFiles' = Documents(App, ts)
    /\ UNCHANGED <<base, folded, deltas, cache, ghosts, local>>

\* Every client's newest document advertises t or descendants of t.
SeenByAll(t) ==
    \A f \in Newest(clientFiles) :
        \A u \in Range(f.tails) : u = t \/ DependsOn(Listing, u, t)

AppCompact ==
    /\ \/ Compaction = "anytime"
       \/ Compaction = "quiescent" /\ \A p \in Proc : pc[p] \notin WritePCs
    /\ Tails(Listing) \cap folded = {}
    /\ \E t \in Tails(Listing) \cap Walkable(Listing) :
          LET gone == Selected(Listing, {t})
              rest == {d \in deltas : d.tail \notin gone}
          IN  /\ SeenByAll(t)
              /\ \A d \in rest : Parents(d) \subseteq {t} \cup {e.tail : e \in rest}
              /\ base' = [snap |-> base.snap + 1, tail |-> t]
              /\ folded' = folded \cup gone
    /\ UNCHANGED <<deltas, clientFiles, cache, ghosts, local>>

\* A delta that the baseline contains is deleted.
AppSweep ==
    /\ \E d \in deltas : d.tail \in folded /\ deltas' = deltas \ {d}
    /\ UNCHANGED <<base, folded, clientFiles, cache, ghosts, local>>

Tick ==
    /\ clock < MaxClock
    /\ clock' = clock + 1
    /\ UNCHANGED <<server, cache, issued, calls, pushes, acked, local>>

-----------------------------------------------------------------------------
LoadStep(p) ==
    \/ Load(p) \/ ForcedLoad(p) \/ ReturnCached(p) \/ MissCache(p)
    \/ FetchBaseline(p) \/ FailBaseline(p) \/ FetchDelta(p) \/ FailDelta(p)
    \/ SaveModel(p)

WriteStep(p) ==
    \/ Write(p) \/ CheckBaseline(p) \/ PlanWrite(p)
    \/ PutDelta(p) \/ PutClient(p) \/ FinishDelta(p)

AppStep == AppPush \/ AppAdvertise \/ AppCompact \/ AppSweep

Next ==
    \/ \E p \in Proc : LoadStep(p) \/ WriteStep(p) \/ FetchClient(p) \/ Fail(p)
    \/ AppStep
    \/ Tick

Spec == Init /\ [][Next]_vars

-----------------------------------------------------------------------------
(* Type invariant. *)
TypeOK ==
    /\ base \in Baseline
    /\ folded \subseteq TailId
    /\ deltas \subseteq Delta
    /\ clientFiles \subseteq ClientFile
    /\ cache = None \/ cache.model \subseteq TailId
    /\ clock \in Nat /\ calls \in Nat /\ pushes \in Nat
    /\ issued \subseteq TailId
    /\ acked \subseteq TailId
    /\ pc \in [Proc -> {"idle"} \cup LoadPCs \cup WritePCs]
    /\ seen \in [Proc -> Listings]
    /\ left \in [Proc -> SUBSET ClientName]
    /\ read \in [Proc -> SUBSET ClientFile]
    /\ want \in [Proc -> SUBSET Delta]
    /\ got \in [Proc -> SUBSET TailId]
    /\ due \in [Proc -> SUBSET TailId]
    /\ from \in [Proc -> TailId]
    /\ plan \in [Proc -> Seq(Delta)]
    /\ at \in [Proc -> 1..MaxChain]

(* The transactions of a write that returned are in the model of the       *)
(* bundle from then on, whatever other writers did in the meantime.        *)
AckedVisible == acked \subseteq CurrentView

(* A fresh load of the bundle as it stands resolves its frontier.          *)
AlwaysResolvable == Resolvable(Listing, Frontier(Listing, clientFiles))

(* A cache file that the next load would accept holds the model that a     *)
(* fresh load would build.                                                 *)
CacheFaithful ==
    cache # None /\ cache.names = Fingerprint(Listing) => cache.model = CurrentView

(* What load() returns, from the cache or not, is the model of the bundle  *)
(* at the moment the call listed it: no torn reads, no stale cache.        *)
LoadIsSnapshot ==
    [][\A p \in Proc :
          /\ ReturnCached(p) => cache.model = due[p]
          /\ SaveModel(p) => cache'.model = due[p]]_vars

(* Every delta that reached the bundle counts: forks, half-uploaded plans  *)
(* and compactions lose none.                                              *)
EveryUploadApplied == Tails(Listing) \ {base.tail} \subseteq CurrentView

(* A delta is uploaded after everything it is attached to: no listing,     *)
(* whenever it is taken, shows a delta whose parent is still to come.      *)
ParentsFirst ==
    \A d \in deltas : Parents(d) \subseteq Tails(Listing) \cup folded \cup {BaseTail}

(* No .client file advertises a tail whose delta never reached the bundle. *)
AdvertisedUploaded ==
    \A f \in clientFiles : Range(f.tails) \subseteq Tails(Listing) \cup folded \cup {BaseTail}

(* "Return whether *tail_id* can be walked back to the baseline tail."     *)
(* (the docstring of tail_reachable_from_baseline), of the tails that the  *)
(* newest client documents advertise.                                      *)
ReachableIsWalkable ==
    \A s \in Advertised(Listing, clientFiles) :
        TailReachable(Listing, SlotTail(s)) => SlotTail(s) \in Walkable(Listing)

=============================================================================
