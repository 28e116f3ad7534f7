-------------------------- MODULE WriteBufferProofs --------------------------
(***************************************************************************)
(* Proofs about WriteBuffer, for every value of its constants.             *)
(*                                                                         *)
(* The conservation of increments is not inductive by itself: Drain gives  *)
(* an idle flusher a batch, so the proof needs that an idle flusher held   *)
(* nothing (IdleHoldsNothing) and, for the sums, the types (TypeOK).       *)
(* That totals agree with the hourly history has an invariant of its own   *)
(* (Agreed) and rests on lemmas about sums over finite sets.               *)
(***************************************************************************)
EXTENDS WriteBuffer, FiniteSetTheorems, TLAPS

\* A flusher that is not flushing holds no deltas: flush keeps its maps in
\* local variables, which end with the call.
IdleHoldsNothing == \A f \in Flushers : flusher[f].pc = "idle" => flusher[f].batch = NoCounts

IInv == TypeOK /\ IdleHoldsNothing /\ NeverCountsTwice /\ LostOnlyByMishap

\* The empty record of counts is a record of counts, and holds zero everywhere.
LEMMA NoCountsType ==
  /\ NoCounts \in Counts
  /\ \A c \in Counters : NoCounts.count[c] = 0
<1>1. 0 \in Hours
  BY ConstantsAssumption DEF Hours
<1> QED
  BY <1>1 DEF NoCounts, Counts

\* The increments on their way are a natural number for each counter.
LEMMA UnwrittenType ==
  ASSUME TypeOK, NEW c \in Counters
  PROVE  /\ spawned[c] \in Nat
         /\ buffer.count[c] \in Nat
         /\ flusher["ticker"].batch.count[c] \in Nat
         /\ flusher["final"].batch.count[c] \in Nat
         /\ table.count[c] \in Nat
         /\ counted[c] \in Nat
         /\ Unwritten(c) \in Nat
  BY DEF TypeOK, Counts, Unwritten, Flushers

-----------------------------------------------------------------------------
(* Type correctness.                                                       *)

LEMMA InitType == Init => TypeOK
  BY NoCountsType, ConstantsAssumption
  DEF Init, TypeOK, IdleFlusher, Flushers, Hours, Targets

LEMMA SpawnType ==
  ASSUME TypeOK, NEW S, Spawn(S)
  PROVE  spawned' \in [Counters -> Nat] /\ counted' \in [Counters -> Nat]
  BY DEF TypeOK, Spawn

LEMMA ServeType ==
  ASSUME TypeOK, NEW v \in Visitors, Resolve(v) \/ Serve(v)
  PROVE  TypeOK'
<1>1. CASE Resolve(v)
  BY <1>1 DEF Resolve, TypeOK, Targets
<1>2. CASE Redirect(v)
  <2>1. request[v] \in Targets
    BY <1>2 DEF Redirect, TypeOK
  <2>2. spawned' \in [Counters -> Nat] /\ counted' \in [Counters -> Nat]
    BY <1>2, SpawnType DEF Redirect
  <2> QED
    BY <1>2, <2>1, <2>2 DEF Redirect, TypeOK
<1>3. CASE RedirectWithoutRedis(v)
  <2>1. request[v] \in Targets
    BY <1>3 DEF RedirectWithoutRedis, TypeOK
  <2>2. spawned' \in [Counters -> Nat] /\ counted' \in [Counters -> Nat]
    BY <1>3, SpawnType DEF RedirectWithoutRedis
  <2> QED
    BY <1>3, <2>1, <2>2 DEF RedirectWithoutRedis, TypeOK
<1>4. CASE Random(v)
  <2>1. spawned' \in [Counters -> Nat] /\ counted' \in [Counters -> Nat]
    BY <1>4, SpawnType DEF Random
  <2> QED
    BY <1>4, <2>1 DEF Random, TypeOK
<1>5. CASE Miss(v)
  <2>1. spawned' \in [Counters -> Nat] /\ counted' \in [Counters -> Nat]
    BY <1>5, SpawnType DEF Miss
  <2> QED
    BY <1>5, <2>1 DEF Miss, TypeOK
<1> QED
  BY <1>1, <1>2, <1>3, <1>4, <1>5 DEF Serve

LEMMA RecordType ==
  ASSUME TypeOK, NEW c \in Counters, Record(c)
  PROVE  TypeOK'
<1>1. spawned' \in [Counters -> Nat]
  BY DEF Record, TypeOK
<1>2. buffer' \in Counts
  BY DEF Record, TypeOK, Counts
<1> QED
  BY <1>1, <1>2 DEF Record, TypeOK

\* The batch of a commit leaves natural numbers in every row.
LEMMA AppliedType ==
  ASSUME TypeOK, NEW b \in Counts
  PROVE  Applied(b) \in Counts
  BY DEF TypeOK, Applied, Counts

LEMMA FlushType ==
  ASSUME TypeOK, NEW f \in Flushers, Swap(f) \/ Attempt(f)
  PROVE  TypeOK'
<1> USE NoCountsType
<1>1. CASE Swap(f)
  BY <1>1 DEF Swap, Drain, TypeOK
<1>2. CASE Send(f)
  BY <1>2 DEF Send, TypeOK
<1>3. CASE Commit(f)
  <2>1. table' \in Counts
    BY <1>3, AppliedType DEF Commit, TypeOK
  <2> QED
    BY <1>3, <2>1 DEF Commit, FlushReturns, IdleFlusher, TypeOK
<1>4. CASE Abort(f)
  BY <1>4 DEF Abort, FlushReturns, IdleFlusher, TypeOK
<1>5. CASE SendTooLate(f)
  BY <1>5 DEF SendTooLate, IdleFlusher, TypeOK
<1> QED
  BY <1>1, <1>2, <1>3, <1>4, <1>5 DEF Attempt

LEMMA LifecycleType ==
  ASSUME TypeOK, BeginShutdown \/ Shutdown \/ ForcedExit \/ Crash \/ Restart
  PROVE  TypeOK'
<1> USE NoCountsType
<1>1. CASE BeginShutdown
  BY <1>1 DEF BeginShutdown, TypeOK, memory
<1>2. CASE Drained
  BY <1>2 DEF Drained, TypeOK, memory
<1>3. CASE FinalSwap
  BY <1>3 DEF FinalSwap, Drain, TypeOK, Flushers
<1>4. ASSUME NEW why \in {"late", "timeout", "crash"}, ProcessEnds(why)
      PROVE  TypeOK'
  BY <1>4 DEF ProcessEnds, TypeOK, IdleFlusher
<1>5. CASE Restart
  BY <1>5 DEF Restart, TypeOK, memory
<1> QED
  BY <1>1, <1>2, <1>3, <1>4, <1>5 DEF Shutdown, Exit, ForcedExit, Crash

LEMMA WorldType ==
  ASSUME TypeOK, (\E t \in Targets : DeleteTarget(t)) \/ DedupExpires \/ HourPasses
  PROVE  TypeOK'
<1>1. ASSUME NEW t \in Targets, DeleteTarget(t)
      PROVE  TypeOK'
  <2>1. table' \in Counts
    BY <1>1, NoCountsType DEF DeleteTarget, TypeOK, Counts
  <2> QED
    BY <1>1, <2>1 DEF DeleteTarget, TypeOK, memory
<1>2. CASE DedupExpires
  BY <1>2 DEF DedupExpires, TypeOK, memory
<1>3. CASE HourPasses
  BY <1>3, ConstantsAssumption DEF HourPasses, TypeOK, memory, Hours
<1> QED
  BY <1>1, <1>2, <1>3

LEMMA NextType == TypeOK /\ [Next]_vars => TypeOK'
<1> SUFFICES ASSUME TypeOK, [Next]_vars
             PROVE  TypeOK'
  OBVIOUS
<1>1. CASE UNCHANGED vars
  BY <1>1 DEF TypeOK, vars, memory
<1>2. CASE Next
  BY <1>2, ServeType, RecordType, FlushType, LifecycleType, WorldType DEF Next
<1> QED
  BY <1>1, <1>2

\* Every variable keeps its type: the counters, deltas and rows of
\* write_buffer.go are natural numbers in every reachable state.
THEOREM TypeCorrect == Spec => []TypeOK
  BY InitType, NextType, PTL DEF Spec

-----------------------------------------------------------------------------
(* Conservation of increments.                                             *)

\* NeverCountsTwice and LostOnlyByMishap, for one counter.
Conserved(c) ==
  /\ c \in live => table.count[c] + Unwritten(c) <= counted[c]
  /\ mishaps = {} /\ c \in live => table.count[c] + Unwritten(c) = counted[c]

LEMMA InitConserved == Init => IInv
<1> SUFFICES ASSUME Init
             PROVE  IInv
  OBVIOUS
<1>1. TypeOK
  BY InitType
<1>2. IdleHoldsNothing
  BY DEF Init, IdleHoldsNothing, IdleFlusher
<1>3. \A c \in Counters : Conserved(c)
  BY NoCountsType DEF Init, Conserved, Unwritten, IdleFlusher, Flushers
<1> QED
  BY <1>1, <1>2, <1>3 DEF IInv, NeverCountsTwice, LostOnlyByMishap, Conserved, Init

\* Starting goroutines raises what is asked for and what is on its way alike.
LEMMA SpawnEffect ==
  ASSUME TypeOK, NEW S, Spawn(S), UNCHANGED <<buffer, flusher>>, NEW c \in Counters
  PROVE  \/ Unwritten(c)' = Unwritten(c) /\ counted'[c] = counted[c]
         \/ Unwritten(c)' = Unwritten(c) + 1 /\ counted'[c] = counted[c] + 1
<1>1. \/ spawned'[c] = spawned[c] /\ counted'[c] = counted[c]
      \/ spawned'[c] = spawned[c] + 1 /\ counted'[c] = counted[c] + 1
  BY DEF Spawn, TypeOK
<1> QED
  BY <1>1, UnwrittenType DEF Unwritten

\* Every handler of a redirect starts goroutines and touches nothing else here.
LEMMA ServeSpawns ==
  ASSUME NEW v \in Visitors, Serve(v)
  PROVE  /\ UNCHANGED <<buffer, flusher, live, table, mishaps>>
         /\ \E S : Spawn(S)
  BY DEF Serve, Redirect, RedirectWithoutRedis, Random, Miss

LEMMA ServeConserves ==
  ASSUME TypeOK, NEW v \in Visitors, Resolve(v) \/ Serve(v),
         NEW c \in Counters, Conserved(c)
  PROVE  Conserved(c)'
<1>1. CASE Resolve(v)
  BY <1>1 DEF Resolve, Conserved, Unwritten
<1>2. CASE Serve(v)
  BY <1>2, ServeSpawns, SpawnEffect, UnwrittenType DEF Conserved
<1> QED
  BY <1>1, <1>2

\* A goroutine that records moves one increment into the buffer.
LEMMA RecordEffect ==
  ASSUME TypeOK, NEW d \in Counters, Record(d), NEW c \in Counters
  PROVE  Unwritten(c)' = Unwritten(c)
<1>1. UNCHANGED flusher
  BY DEF Record
<1>2. spawned'[c] + buffer'.count[c] = spawned[c] + buffer.count[c]
  <2>1. buffer'.count = [buffer.count EXCEPT ![d] = @ + 1]
    BY DEF Record
  <2>2. spawned' = [spawned EXCEPT ![d] = @ - 1]
    BY DEF Record
  <2>3. buffer.count \in [Counters -> Nat] /\ spawned \in [Counters -> Nat]
    BY DEF TypeOK, Counts
  <2>4. c # d => spawned'[c] = spawned[c] /\ buffer'.count[c] = buffer.count[c]
    BY <2>1, <2>2, <2>3
  <2>5. c = d => spawned'[c] = spawned[c] - 1 /\ buffer'.count[c] = buffer.count[c] + 1
    BY <2>1, <2>2, <2>3
  <2> QED
    BY <2>3, <2>4, <2>5
<1>3. spawned'[c] \in Nat /\ buffer'.count[c] \in Nat
  BY RecordType, UnwrittenType DEF TypeOK, Counts
<1> QED
  BY <1>1, <1>2, <1>3, UnwrittenType DEF Unwritten

\* Draining moves the deltas from the buffer to a flusher that held none.
LEMMA DrainEffect ==
  ASSUME TypeOK, IdleHoldsNothing, NEW f \in Flushers, flusher[f].pc = "idle", Drain(f),
         UNCHANGED spawned, NEW c \in Counters
  PROVE  Unwritten(c)' = Unwritten(c)
<1>1. buffer'.count[c] = 0 /\ flusher[f].batch.count[c] = 0
  BY NoCountsType DEF Drain, IdleHoldsNothing
<1>2. flusher'[f].batch.count[c] = buffer.count[c]
  BY DEF Drain, TypeOK
<1>3. \A g \in Flushers \ {f} : flusher'[g] = flusher[g]
  BY DEF Drain, TypeOK
<1> QED
  BY <1>1, <1>2, <1>3, UnwrittenType DEF Unwritten, Flushers

LEMMA SendEffect ==
  ASSUME TypeOK, NEW f \in Flushers, Send(f), NEW c \in Counters
  PROVE  Unwritten(c)' = Unwritten(c)
<1>1. \A g \in Flushers : flusher'[g].batch = flusher[g].batch
  BY DEF Send, TypeOK
<1> QED
  BY <1>1 DEF Send, Unwritten, Flushers

\* A commit moves the deltas of the batch into the rows that still exist.
LEMMA CommitEffect ==
  ASSUME TypeOK, NEW f \in Flushers, Commit(f), NEW c \in Counters, c \in live
  PROVE  /\ (table.count[c] + Unwritten(c))' = table.count[c] + Unwritten(c)
         /\ table'.count[c] >= table.count[c]
<1>1. UNCHANGED <<spawned, buffer>>
  BY DEF Commit
<1>2. flusher'[f].batch.count[c] = 0
  BY NoCountsType DEF Commit, FlushReturns, IdleFlusher, TypeOK
<1>3. \A g \in Flushers \ {f} : flusher'[g] = flusher[g]
  BY DEF Commit, FlushReturns, TypeOK
<1>4. table'.count[c] = table.count[c] + flusher[f].batch.count[c]
  BY DEF Commit, Applied
<1> QED
  BY <1>1, <1>2, <1>3, <1>4, UnwrittenType DEF Unwritten, Flushers

\* A batch that fails is forgotten, and that is a mishap.
LEMMA FailureEffect ==
  ASSUME TypeOK, NEW f \in Flushers, Abort(f) \/ SendTooLate(f), NEW c \in Counters
  PROVE  /\ Unwritten(c)' <= Unwritten(c)
         /\ Unwritten(c)' \in Nat
         /\ UNCHANGED <<live, table, counted>>
         /\ mishaps' # {}
<1>1. UNCHANGED <<spawned, buffer, live, table, counted>>
  BY DEF Abort, SendTooLate
<1>2. mishaps' # {}
  BY DEF Abort, SendTooLate
<1>3. flusher'[f].batch.count[c] = 0
  BY NoCountsType DEF Abort, SendTooLate, FlushReturns, IdleFlusher, TypeOK
<1>4. \A g \in Flushers \ {f} : flusher'[g] = flusher[g]
  BY DEF Abort, SendTooLate, FlushReturns, TypeOK
<1>5. Unwritten(c)' <= Unwritten(c) /\ Unwritten(c)' \in Nat
  BY <1>1, <1>3, <1>4, UnwrittenType DEF Unwritten, Flushers
<1> QED
  BY <1>1, <1>2, <1>5

\* The end of the process forgets everything on its way, and is a mishap
\* unless nothing was.
LEMMA EndEffect ==
  ASSUME TypeOK, NEW why, ProcessEnds(why), NEW c \in Counters
  PROVE  /\ UNCHANGED <<live, table, counted>>
         /\ Unwritten(c)' = 0
         /\ mishaps' = {} => mishaps = {} /\ Unwritten(c) = 0
<1>1. UNCHANGED <<live, table, counted>>
  BY DEF ProcessEnds
<1>2. Unwritten(c)' = 0
  BY NoCountsType DEF ProcessEnds, Unwritten, IdleFlusher, Flushers
<1>3. mishaps' = {} => mishaps = {} /\ Unwritten(c) = 0
  <2>1. Unwritten(c) > 0 => mishaps' # {}
    BY DEF ProcessEnds
  <2>2. mishaps \subseteq mishaps'
    BY DEF ProcessEnds
  <2> QED
    BY <2>1, <2>2, UnwrittenType
<1> QED
  BY <1>1, <1>2, <1>3

LEMMA DeleteConserves ==
  ASSUME TypeOK, NEW t \in Targets, DeleteTarget(t), NEW c \in Counters, Conserved(c)
  PROVE  Conserved(c)'
<1>1. UNCHANGED <<spawned, buffer, flusher, counted, mishaps>>
  BY DEF DeleteTarget, memory
<1>2. c \in live' => c \in live /\ table'.count[c] = table.count[c]
  BY DEF DeleteTarget, TypeOK, Counts
<1> QED
  BY <1>1, <1>2 DEF Conserved, Unwritten

LEMMA NextConserved ==
  ASSUME TypeOK, IdleHoldsNothing, [Next]_vars, NEW c \in Counters, Conserved(c)
  PROVE  Conserved(c)'
<1> DEFINE Still == UNCHANGED <<spawned, buffer, flusher, live, table, counted, mishaps>>
<1>1. Still => Conserved(c)'
  BY DEF Conserved, Unwritten
<1>2. CASE UNCHANGED vars
  BY <1>1, <1>2 DEF vars, memory
<1>3. CASE Next
  <2>1. ASSUME NEW v \in Visitors, Resolve(v) \/ Serve(v)
        PROVE  Conserved(c)'
    BY <2>1, ServeConserves
  <2>2. ASSUME NEW d \in Counters, Record(d)
        PROVE  Conserved(c)'
    BY <2>2, RecordEffect DEF Record, Conserved
  <2>3. ASSUME NEW f \in Flushers, Swap(f)
        PROVE  Conserved(c)'
    BY <2>3, DrainEffect DEF Swap, Conserved
  <2>4. ASSUME NEW f \in Flushers, Attempt(f)
        PROVE  Conserved(c)'
    <3>1. CASE Send(f)
      BY <3>1, SendEffect DEF Send, Conserved
    <3>2. CASE Commit(f)
      BY <3>2, CommitEffect DEF Commit, Conserved
    <3>3. CASE Abort(f) \/ SendTooLate(f)
      BY <3>3, FailureEffect, UnwrittenType DEF Conserved
    <3> QED
      BY <2>4, <3>1, <3>2, <3>3 DEF Attempt
  <2>5. CASE BeginShutdown \/ Drained \/ Restart \/ DedupExpires \/ HourPasses
    BY <1>1, <2>5 DEF BeginShutdown, Drained, Restart, DedupExpires, HourPasses, memory
  <2>6. CASE FinalSwap
    BY <1>1, <2>6, DrainEffect DEF FinalSwap, Flushers, Conserved
  <2>7. CASE Exit \/ ForcedExit \/ Crash
    BY <2>7, EndEffect, UnwrittenType DEF Exit, ForcedExit, Crash, Conserved
  <2>8. ASSUME NEW t \in Targets, DeleteTarget(t)
        PROVE  Conserved(c)'
    BY <2>8, DeleteConserves
  <2> QED
    BY <1>3, <2>1, <2>2, <2>3, <2>4, <2>5, <2>6, <2>7, <2>8 DEF Next, Shutdown
<1> QED
  BY <1>2, <1>3

LEMMA NextIdle ==
  ASSUME TypeOK, IdleHoldsNothing, [Next]_vars
  PROVE  IdleHoldsNothing'
<1>1. CASE UNCHANGED flusher
  BY <1>1 DEF IdleHoldsNothing
<1>2. ASSUME NEW f \in Flushers, flusher' = [flusher EXCEPT ![f] = IdleFlusher]
      PROVE  IdleHoldsNothing'
  BY <1>2 DEF IdleHoldsNothing, IdleFlusher, TypeOK
<1>3. ASSUME NEW f \in Flushers, Drain(f)
      PROVE  IdleHoldsNothing'
  BY <1>3 DEF IdleHoldsNothing, Drain, TypeOK
<1>4. ASSUME NEW f \in Flushers, Send(f)
      PROVE  IdleHoldsNothing'
  BY <1>4 DEF IdleHoldsNothing, Send, TypeOK
<1>5. ASSUME NEW why, ProcessEnds(why)
      PROVE  IdleHoldsNothing'
  BY <1>5 DEF IdleHoldsNothing, ProcessEnds, IdleFlusher
<1>6. CASE Next
  <2>1. ASSUME NEW f \in Flushers, Swap(f) \/ Attempt(f)
        PROVE  IdleHoldsNothing'
    BY <2>1, <1>2, <1>3, <1>4
    DEF Swap, Attempt, Commit, Abort, SendTooLate, FlushReturns
  <2>2. CASE Exit \/ ForcedExit \/ Crash
    BY <2>2, <1>5 DEF Exit, ForcedExit, Crash
  <2>3. CASE FinalSwap
    BY <2>3, <1>1, <1>3 DEF FinalSwap, Flushers
  <2>4. ASSUME NEW v \in Visitors, Resolve(v) \/ Serve(v)
        PROVE  UNCHANGED flusher
    BY <2>4 DEF Resolve, Serve, Redirect, RedirectWithoutRedis, Random, Miss
  <2>5. ASSUME NEW t \in Targets, DeleteTarget(t)
        PROVE  UNCHANGED flusher
    BY <2>5 DEF DeleteTarget, memory
  <2>6. ASSUME NEW c \in Counters, Record(c)
        PROVE  UNCHANGED flusher
    BY <2>6 DEF Record
  <2>7. CASE BeginShutdown \/ Drained \/ Restart \/ DedupExpires \/ HourPasses
    BY <1>1, <2>7 DEF BeginShutdown, Drained, Restart, DedupExpires, HourPasses, memory
  <2> QED
    BY <1>1, <1>6, <2>1, <2>2, <2>3, <2>4, <2>5, <2>6, <2>7 DEF Next, Shutdown
<1> QED
  BY <1>1, <1>6 DEF vars, memory

LEMMA NextIInv == IInv /\ [Next]_vars => IInv'
<1> SUFFICES ASSUME IInv, [Next]_vars
             PROVE  IInv'
  OBVIOUS
<1>1. TypeOK' /\ IdleHoldsNothing'
  BY NextType, NextIdle DEF IInv
<1>2. \A c \in Counters : Conserved(c)
  BY DEF IInv, NeverCountsTwice, LostOnlyByMishap, Conserved
<1>3. \A c \in Counters : Conserved(c)'
  BY <1>2, NextConserved DEF IInv
<1>4. \A c \in live' : c \in Counters
  BY <1>1 DEF TypeOK
<1> QED
  BY <1>1, <1>3, <1>4 DEF IInv, NeverCountsTwice, LostOnlyByMishap, Conserved

LEMMA Inductive == Spec => []IInv
  BY InitConserved, NextIInv, PTL DEF Spec

\* No increment is applied twice: a row and what is on its way to it never
\* exceed what redirects asked for, through retries, crashes and restarts.
THEOREM CountsAtMostOnce == Spec => []NeverCountsTwice
<1>1. IInv => NeverCountsTwice
  BY DEF IInv
<1> QED
  BY <1>1, Inductive, PTL

\* Without a mishap every increment is in its row or on its way to it.
THEOREM NothingLostSilently == Spec => []LostOnlyByMishap
<1>1. IInv => LostOnlyByMishap
  BY DEF IInv
<1> QED
  BY <1>1, Inductive, PTL

-----------------------------------------------------------------------------
(* Sums over finite sets.  SumFunction is a fold, a recursive function over *)
(* the subsets of the domain: it exists, and what holds of the empty set    *)
(* and passes from a set without one element to the set holds of all.       *)

Chosen(T) == CHOOSE x \in T : TRUE

\* The equation of the fold that sums f, for it at T.
Sums(it, f, T) == it[T] = IF T = {} THEN 0 ELSE f[Chosen(T)] + it[T \ {Chosen(T)}]

\* The function that the fold is.
SumFold(f) ==
  CHOOSE it : it = [T \in SUBSET DOMAIN f |->
                      IF T = {} THEN 0 ELSE f[Chosen(T)] + it[T \ {Chosen(T)}]]

LEMMA SumIsFold ==
  ASSUME NEW f
  PROVE  SumFunction(f) = SumFold(f)[DOMAIN f]
  BY DEF SumFunction, SumFunctionOnSet, FoldFunctionOnSet, MapThenFoldSet, SumFold, Chosen

LEMMA ChosenElement ==
  ASSUME NEW S, IsFiniteSet(S), NEW T \in SUBSET S, T # {}
  PROVE  /\ Chosen(T) \in T /\ T \ {Chosen(T)} \in SUBSET S
         /\ Cardinality(T) \in Nat /\ Cardinality(T \ {Chosen(T)}) \in Nat
         /\ Cardinality(T \ {Chosen(T)}) = Cardinality(T) - 1
<1>1. Chosen(T) \in T
  BY DEF Chosen
<1>2. IsFiniteSet(T) /\ IsFiniteSet(T \ {Chosen(T)})
  BY FS_Subset
<1>3. Cardinality(T \ {Chosen(T)}) = Cardinality(T) - 1
  BY <1>1, <1>2, FS_RemoveElement
<1> QED BY <1>1, <1>2, <1>3, FS_CardinalityType

\* Subsets that always leave another one when an element is taken away: none.
LEMMA NoEndlessDescent ==
  ASSUME NEW S, IsFiniteSet(S), NEW B \in SUBSET (SUBSET S),
         \A T \in B : T # {} /\ T \ {Chosen(T)} \in B
  PROVE  B = {}
<1> SUFFICES ASSUME B # {} PROVE FALSE
  OBVIOUS
<1>1. IsWellFoundedOn(StrictSubsetOrdering(S), FiniteSubsetsOf(S))
  BY FS_StrictSubsetOrderingWellFounded
<1>2. B \subseteq FiniteSubsetsOf(S)
  BY FS_Subset DEF FiniteSubsetsOf
<1>3. PICK T \in B : \A U \in B : <<U, T>> \notin StrictSubsetOrdering(S)
  BY <1>1, <1>2, WFMin
<1>4. Chosen(T) \in T /\ T \ {Chosen(T)} \in B
  BY DEF Chosen
<1>5. <<T \ {Chosen(T)}, T>> \in StrictSubsetOrdering(S)
  BY <1>4 DEF StrictSubsetOrdering
<1> QED BY <1>3, <1>4, <1>5

\* The function it obeys the equation at the subsets of at most n elements.
SumsFew(it, f, S, n) == \A T \in SUBSET S : Cardinality(T) <= n => Sums(it, f, T)

\* For each n there is such a function.
FewSummed(f, S, n) == \E it \in [SUBSET S -> Nat] : SumsFew(it, f, S, n)

LEMMA SumOfFew ==
  ASSUME NEW S, IsFiniteSet(S), NEW f \in [S -> Nat], NEW n \in Nat
  PROVE  FewSummed(f, S, n)
<1> USE DEF FewSummed
<1> DEFINE Sum(it, k) == SumsFew(it, f, S, k)
           B == {k \in Nat : ~ \E it \in [SUBSET S -> Nat] : Sum(it, k)}
<1> SUFFICES ASSUME B # {} PROVE FALSE
  OBVIOUS
<1>1. PICK k \in B : \A j \in B : <<j, k>> \notin OpToRel(<, Nat)
  BY NatLessThanWellFounded, WFMin
<1>2. k \in Nat /\ \A j \in Nat : j < k => j \notin B
  BY <1>1 DEF OpToRel
<1>3. PICK less \in [SUBSET S -> Nat] : k # 0 => Sum(less, k - 1)
  <2>1. CASE k = 0
    <3>1. [T \in SUBSET S |-> 0] \in [SUBSET S -> Nat]
      OBVIOUS
    <3> QED BY <2>1, <3>1
  <2>2. CASE k # 0
    <3>1. k - 1 \in Nat /\ k - 1 < k
      BY <1>2, <2>2
    <3>2. k - 1 \notin B
      BY <1>2, <3>1
    <3> QED BY <3>1, <3>2
  <2> QED BY <2>1, <2>2
<1> DEFINE it == [T \in SUBSET S |-> IF T = {} THEN 0 ELSE f[Chosen(T)] + less[T \ {Chosen(T)}]]
<1>4. it \in [SUBSET S -> Nat]
  <2> SUFFICES ASSUME NEW T \in SUBSET S, T # {} PROVE f[Chosen(T)] + less[T \ {Chosen(T)}] \in Nat
    OBVIOUS
  <2>1. f[Chosen(T)] \in Nat /\ less[T \ {Chosen(T)}] \in Nat
    BY ChosenElement
  <2> QED BY <2>1
<1>5. Sum(it, k)
  <2> SUFFICES ASSUME NEW T \in SUBSET S, Cardinality(T) <= k PROVE Sums(it, f, T)
    BY DEF SumsFew
  <2>1. CASE T = {}
    BY <2>1 DEF Sums
  <2>2. CASE T # {}
    <3> DEFINE U == T \ {Chosen(T)}
    <3>0. /\ U \in SUBSET S
          /\ Cardinality(T) \in Nat /\ Cardinality(U) \in Nat
          /\ Cardinality(U) = Cardinality(T) - 1
      BY <2>2, ChosenElement
    <3>1. U \in SUBSET S /\ k # 0 /\ Cardinality(U) <= k - 1
      <4> HIDE DEF U
      <4> QED BY <1>2, <3>0
    <3>2. Sums(less, f, U)
      BY <1>3, <3>1 DEF SumsFew
    <3>3. less[U] = it[U]
      BY <3>1, <3>2 DEF Sums
    <3> QED BY <2>2, <3>3 DEF Sums
  <2> QED BY <2>1, <2>2
<1>6. k \notin B
  BY <1>4, <1>5
<1> QED BY <1>6

\* The fold obeys its equation at every subset.
LEMMA SumEquation ==
  ASSUME NEW S, IsFiniteSet(S), NEW f \in [S -> Nat]
  PROVE  /\ SumFunction(f) = SumFold(f)[S]
         /\ \A T \in SUBSET S : Sums(SumFold(f), f, T) /\ SumFold(f)[T] \in Nat
<1>1. PICK few \in [SUBSET S -> Nat] :
        \A T \in SUBSET S : Cardinality(T) <= Cardinality(S) => Sums(few, f, T)
  <2>1. PICK n \in Nat : n = Cardinality(S)
    BY FS_CardinalityType
  <2>2. FewSummed(f, S, n)
    BY SumOfFew
  <2> QED BY <2>1, <2>2 DEF FewSummed, SumsFew
<1>2. \A T \in SUBSET S : Sums(few, f, T)
  BY <1>1, FS_Subset
<1>3. few = [T \in SUBSET DOMAIN f |-> IF T = {} THEN 0 ELSE f[Chosen(T)] + few[T \ {Chosen(T)}]]
  BY <1>2 DEF Sums
<1>4. SumFold(f) = [T \in SUBSET DOMAIN f |->
                     IF T = {} THEN 0 ELSE f[Chosen(T)] + SumFold(f)[T \ {Chosen(T)}]]
  BY <1>3 DEF SumFold
<1>5. \A T \in SUBSET S : Sums(SumFold(f), f, T)
  BY <1>4 DEF Sums
<1> DEFINE B == {T \in SUBSET S : SumFold(f)[T] \notin Nat}
<1>6. ASSUME NEW T \in B PROVE T # {} /\ T \ {Chosen(T)} \in B
  <2>1. T # {}
    <3>1. Sums(SumFold(f), f, T) /\ SumFold(f)[T] \notin Nat
      BY <1>5
    <3>2. T = {} => SumFold(f)[T] = 0
      BY <3>1 DEF Sums
    <3> QED BY <3>1, <3>2
  <2>2. f[Chosen(T)] \in Nat /\ T \ {Chosen(T)} \in SUBSET S
    BY <2>1, ChosenElement
  <2>3. SumFold(f)[T] = f[Chosen(T)] + SumFold(f)[T \ {Chosen(T)}]
    BY <1>5, <2>1 DEF Sums
  <2> QED BY <2>1, <2>2, <2>3
<1>7. B = {}
  <2> HIDE DEF B
  <2>1. B \in SUBSET (SUBSET S)
    BY DEF B
  <2> QED BY <1>6, <2>1, NoEndlessDescent
<1> QED BY <1>5, <1>7, SumIsFold

LEMMA SumOfZeros ==
  ASSUME NEW S, IsFiniteSet(S)
  PROVE  SumFunction([x \in S |-> 0]) = 0
<1>1. PICK f \in [S -> Nat] : f = [x \in S |-> 0]
  OBVIOUS
<1> DEFINE B == {T \in SUBSET S : SumFold(f)[T] # 0}
<1>2. ASSUME NEW T \in B PROVE T # {} /\ T \ {Chosen(T)} \in B
  <2>1. Sums(SumFold(f), f, T)
    BY SumEquation
  <2>2. T # {}
    BY <2>1 DEF Sums
  <2>3. f[Chosen(T)] = 0 /\ T \ {Chosen(T)} \in SUBSET S
    BY <1>1, <2>2, ChosenElement
  <2>4. SumFold(f)[T \ {Chosen(T)}] \in Nat
    BY <2>3, SumEquation
  <2> QED BY <2>1, <2>2, <2>3, <2>4 DEF Sums
<1>3. B = {}
  <2> HIDE DEF B
  <2>1. B \in SUBSET (SUBSET S)
    BY DEF B
  <2> QED BY <1>2, <2>1, NoEndlessDescent
<1> QED BY <1>1, <1>3, SumEquation

LEMMA SumOfSums ==
  ASSUME NEW S, IsFiniteSet(S), NEW f \in [S -> Nat], NEW g \in [S -> Nat], NEW both \in [S -> Nat],
         \A x \in S : both[x] = f[x] + g[x]
  PROVE  SumFunction(both) = SumFunction(f) + SumFunction(g)
<1> DEFINE B == {T \in SUBSET S : SumFold(both)[T] # SumFold(f)[T] + SumFold(g)[T]}
<1>1. ASSUME NEW T \in B PROVE T # {} /\ T \ {Chosen(T)} \in B
  <2>1. Sums(SumFold(f), f, T) /\ Sums(SumFold(g), g, T) /\ Sums(SumFold(both), both, T)
    BY SumEquation
  <2>2. T # {}
    BY <2>1 DEF Sums
  <2>3. Chosen(T) \in S /\ T \ {Chosen(T)} \in SUBSET S
    BY <2>2, ChosenElement
  <2>4. PICK U \in SUBSET S : U = T \ {Chosen(T)}
    BY <2>3
  <2>5. SumFold(f)[U] \in Nat /\ SumFold(g)[U] \in Nat /\ SumFold(both)[U] \in Nat
    BY SumEquation
  <2>6. /\ SumFold(f)[T] = f[Chosen(T)] + SumFold(f)[U]
        /\ SumFold(g)[T] = g[Chosen(T)] + SumFold(g)[U]
        /\ SumFold(both)[T] = both[Chosen(T)] + SumFold(both)[U]
    BY <2>1, <2>2, <2>4 DEF Sums
  <2>7. /\ f[Chosen(T)] \in Nat /\ g[Chosen(T)] \in Nat
        /\ both[Chosen(T)] = f[Chosen(T)] + g[Chosen(T)]
    BY <2>3
  <2>8. SumFold(both)[U] # SumFold(f)[U] + SumFold(g)[U]
    BY <2>5, <2>6, <2>7
  <2> QED BY <2>2, <2>4, <2>8
<1>2. B = {}
  <2> HIDE DEF B
  <2>1. B \in SUBSET (SUBSET S)
    BY DEF B
  <2> QED BY <1>1, <2>1, NoEndlessDescent
<1> QED BY <1>2, SumEquation

\* One more of x is one more in all.
LEMMA SumOfOneMore ==
  ASSUME NEW S, IsFiniteSet(S), NEW f \in [S -> Nat], NEW x \in S
  PROVE  SumFunction([f EXCEPT ![x] = @ + 1]) = SumFunction(f) + 1
<1>1. PICK g \in [S -> Nat] : g = [f EXCEPT ![x] = @ + 1]
  <2>1. f[x] + 1 \in Nat
    OBVIOUS
  <2>2. [f EXCEPT ![x] = f[x] + 1] \in [S -> Nat]
    BY <2>1
  <2> QED BY <2>2
<1> DEFINE more(T) == IF x \in T THEN 1 ELSE 0
           B == {T \in SUBSET S : SumFold(g)[T] # SumFold(f)[T] + more(T)}
<1>2. ASSUME NEW T \in B PROVE T # {} /\ T \ {Chosen(T)} \in B
  <2>1. Sums(SumFold(f), f, T) /\ Sums(SumFold(g), g, T)
    BY SumEquation
  <2>2. T # {}
    BY <2>1 DEF Sums
  <2>3. Chosen(T) \in S /\ Chosen(T) \in T /\ T \ {Chosen(T)} \in SUBSET S
    BY <2>2, ChosenElement
  <2>4. PICK U \in SUBSET S : U = T \ {Chosen(T)}
    BY <2>3
  <2>5. SumFold(f)[U] \in Nat /\ SumFold(g)[U] \in Nat
    BY SumEquation
  <2>6. /\ SumFold(f)[T] = f[Chosen(T)] + SumFold(f)[U]
        /\ SumFold(g)[T] = g[Chosen(T)] + SumFold(g)[U]
    BY <2>1, <2>2, <2>4 DEF Sums
  <2>7. /\ f[Chosen(T)] \in Nat
        /\ g[Chosen(T)] + more(U) = f[Chosen(T)] + more(T)
    BY <1>1, <2>3, <2>4
  <2>8. SumFold(g)[U] # SumFold(f)[U] + more(U)
    <3>1. more(U) \in Nat /\ more(T) \in Nat /\ g[Chosen(T)] \in Nat
      BY <2>3
    <3> QED BY <2>5, <2>6, <2>7, <3>1
  <2> QED BY <2>2, <2>4, <2>8
<1>3. B = {}
  <2> HIDE DEF B
  <2>1. B \in SUBSET (SUBSET S)
    BY DEF B
  <2> QED BY <1>2, <2>1, NoEndlessDescent
<1> QED BY <1>1, <1>3, SumEquation

-----------------------------------------------------------------------------
(* A link's total and its hourly history.                                  *)

\* HistoryAgrees, for one link and one of the four places of its counts.
Agrees(x, l) == SumFunction(x.history[l]) = x.count[l]

\* HistoryAgrees, for one link.
Agreed(l) ==
  /\ Agrees(buffer, l)
  /\ \A f \in Flushers : Agrees(flusher[f].batch, l)
  /\ l \in live => Agrees(table, l)

LEMMA AgreedIsHistoryAgrees == HistoryAgrees <=> \A l \in Links : Agreed(l)
  BY DEF HistoryAgrees, Agreed, Agrees, Flushers

LEMMA HoursFinite == IsFiniteSet(Hours)
  BY ConstantsAssumption, FS_Interval DEF Hours

LEMMA CountsOfLink ==
  ASSUME NEW x \in Counts, NEW l \in Links
  PROVE  x.history[l] \in [Hours -> Nat] /\ x.count[l] \in Nat
  BY DEF Counts, Counters, Targets

LEMMA NothingAgrees ==
  ASSUME NEW l \in Links
  PROVE  Agrees(NoCounts, l)
<1>1. NoCounts.history[l] = [h \in Hours |-> 0] /\ NoCounts.count[l] = 0
  BY DEF NoCounts, Counters, Targets
<1> QED
  BY <1>1, HoursFinite, SumOfZeros DEF Agrees

\* The goroutine that records a click adds one to the total and to one hour.
LEMMA RecordAgrees ==
  ASSUME TypeOK, NEW c \in Counters, Record(c), NEW l \in Links, Agrees(buffer, l)
  PROVE  Agrees(buffer', l)
<1>1. /\ buffer.count \in [Counters -> Nat] /\ buffer.history \in [Links -> [Hours -> Nat]]
      /\ l \in Counters /\ hour \in Hours
  BY DEF TypeOK, Counts, Counters, Targets
<1>2. CASE c # l
  <2>1. buffer'.count[l] = buffer.count[l] /\ buffer'.history[l] = buffer.history[l]
    BY <1>1, <1>2 DEF Record
  <2> QED
    BY <2>1 DEF Agrees
<1>3. CASE c = l
  <2>1. buffer'.count[l] = buffer.count[l] + 1
    BY <1>1, <1>3 DEF Record
  <2>2. buffer'.history[l] = [buffer.history[l] EXCEPT ![hour] = @ + 1]
    BY <1>1, <1>3 DEF Record
  <2>3. PICK f \in [Hours -> Nat] : f = buffer.history[l]
    BY <1>1
  <2>4. SumFunction([f EXCEPT ![hour] = @ + 1]) = SumFunction(f) + 1
    BY <1>1, HoursFinite, SumOfOneMore
  <2> QED
    BY <2>1, <2>2, <2>3, <2>4 DEF Agrees
<1> QED
  BY <1>2, <1>3

\* What a batch adds to the row of a link and to its hourly rows is the same.
LEMMA CommitAgrees ==
  ASSUME TypeOK, NEW b \in Counts, NEW l \in Links, l \in live, Agrees(table, l), Agrees(b, l)
  PROVE  Agrees(Applied(b), l)
<1>1. PICK f \in [Hours -> Nat] : f = table.history[l]
  BY CountsOfLink DEF TypeOK
<1>2. PICK g \in [Hours -> Nat] : g = b.history[l]
  BY CountsOfLink
<1>3. PICK both \in [Hours -> Nat] : both = Applied(b).history[l]
  BY AppliedType, CountsOfLink
<1>4. \A h \in Hours : both[h] = f[h] + g[h]
  BY <1>1, <1>2, <1>3 DEF Applied
<1>5. SumFunction(both) = SumFunction(f) + SumFunction(g)
  BY <1>4, HoursFinite, SumOfSums
<1>6. Applied(b).count[l] = table.count[l] + b.count[l]
  BY DEF Applied, Counters, Targets
<1> QED
  BY <1>1, <1>2, <1>3, <1>5, <1>6 DEF Agrees

\* A flusher that ends, however it ends, holds nothing.
LEMMA EndedFlusherAgrees ==
  ASSUME TypeOK, NEW f \in Flushers, flusher' = [flusher EXCEPT ![f] = IdleFlusher],
         NEW l \in Links, \A g \in Flushers : Agrees(flusher[g].batch, l)
  PROVE  \A g \in Flushers : Agrees(flusher'[g].batch, l)
<1> TAKE g \in Flushers
<1>1. flusher'[g].batch \in {NoCounts, flusher[g].batch}
  BY DEF IdleFlusher, TypeOK
<1> QED
  BY <1>1, NothingAgrees

LEMMA DrainAgrees ==
  ASSUME TypeOK, NEW f \in Flushers, Drain(f), UNCHANGED <<live, table>>,
         NEW l \in Links, Agreed(l)
  PROVE  Agreed(l)'
<1>1. Agrees(buffer', l)
  BY NothingAgrees DEF Drain
<1>2. \A g \in Flushers : flusher'[g].batch \in {buffer, flusher[g].batch}
  BY DEF Drain, TypeOK
<1>3. \A g \in Flushers : Agrees(flusher'[g].batch, l)
  BY <1>2 DEF Agreed
<1> QED
  BY <1>1, <1>3 DEF Agreed, Agrees

LEMMA InitAgrees == Init => \A l \in Links : Agreed(l)
  BY NothingAgrees DEF Init, Agreed, IdleFlusher

LEMMA NextAgrees ==
  ASSUME TypeOK, [Next]_vars, NEW l \in Links, Agreed(l)
  PROVE  Agreed(l)'
<1> DEFINE Still == UNCHANGED <<buffer, flusher, live, table>>
<1>1. Still => Agreed(l)'
  BY DEF Agreed, Agrees
<1>2. CASE UNCHANGED vars
  BY <1>1, <1>2 DEF vars, memory
<1>3. CASE Next
  <2>1. ASSUME NEW v \in Visitors, Resolve(v) \/ Serve(v)
        PROVE  Agreed(l)'
    BY <1>1, <2>1, ServeSpawns DEF Resolve
  <2>2. ASSUME NEW c \in Counters, Record(c)
        PROVE  Agreed(l)'
    BY <2>2, RecordAgrees DEF Record, Agreed, Agrees
  <2>3. ASSUME NEW f \in Flushers, Swap(f)
        PROVE  Agreed(l)'
    BY <2>3, DrainAgrees DEF Swap
  <2>4. ASSUME NEW f \in Flushers, Attempt(f)
        PROVE  Agreed(l)'
    <3>1. CASE Send(f)
      <4>1. \A g \in Flushers : flusher'[g].batch = flusher[g].batch
        BY <3>1 DEF Send, TypeOK
      <4> QED
        BY <3>1, <4>1 DEF Send, Agreed, Agrees
    <3>2. CASE Commit(f)
      <4>1. l \in live => Agrees(table', l)
        BY <3>2, CommitAgrees DEF Commit, Agreed, TypeOK
      <4>2. \A g \in Flushers : Agrees(flusher'[g].batch, l)
        BY <3>2, EndedFlusherAgrees DEF Commit, FlushReturns, Agreed
      <4> QED
        BY <3>2, <4>1, <4>2 DEF Commit, Agreed, Agrees
    <3>3. CASE Abort(f) \/ SendTooLate(f)
      <4>1. \A g \in Flushers : Agrees(flusher'[g].batch, l)
        BY <3>3, EndedFlusherAgrees DEF Abort, SendTooLate, FlushReturns, Agreed
      <4> QED
        BY <3>3, <4>1 DEF Abort, SendTooLate, Agreed, Agrees
    <3> QED
      BY <2>4, <3>1, <3>2, <3>3 DEF Attempt
  <2>5. CASE BeginShutdown \/ Drained \/ Restart \/ DedupExpires \/ HourPasses
    BY <1>1, <2>5 DEF BeginShutdown, Drained, Restart, DedupExpires, HourPasses, memory
  <2>6. CASE FinalSwap
    BY <1>1, <2>6, DrainAgrees DEF FinalSwap, Flushers
  <2>7. ASSUME NEW why, ProcessEnds(why)
        PROVE  Agreed(l)'
    <3>1. Agrees(buffer', l) /\ \A g \in Flushers : Agrees(flusher'[g].batch, l)
      BY <2>7, NothingAgrees DEF ProcessEnds, IdleFlusher
    <3> QED
      BY <2>7, <3>1 DEF ProcessEnds, Agreed, Agrees
  <2>8. ASSUME NEW t \in Targets, DeleteTarget(t)
        PROVE  Agreed(l)'
    <3>1. UNCHANGED <<buffer, flusher>>
      BY <2>8 DEF DeleteTarget, memory
    <3>2. ASSUME l \in live'
          PROVE  Agrees(table', l)
      <4>1. l # t /\ l \in live
        BY <2>8, <3>2 DEF DeleteTarget
      <4>2. table'.count[l] = table.count[l] /\ table'.history[l] = table.history[l]
        BY <2>8, <4>1 DEF DeleteTarget, TypeOK, Counts, Counters, Targets
      <4> QED
        BY <4>1, <4>2 DEF Agreed, Agrees
    <3> QED
      BY <3>1, <3>2 DEF Agreed, Agrees
  <2> QED
    BY <1>3, <2>1, <2>2, <2>3, <2>4, <2>5, <2>6, <2>7, <2>8
    DEF Next, Shutdown, Exit, ForcedExit, Crash
<1> QED
  BY <1>2, <1>3

\* The total of a link and the sum of its hourly history never part, in the
\* buffer, in a batch and in the database (recordLinkClick, swap, flush).
THEOREM HistoriesAgree == Spec => []HistoryAgrees
<1>1. Init => TypeOK /\ HistoryAgrees
  BY InitType, InitAgrees, AgreedIsHistoryAgrees
<1>2. TypeOK /\ HistoryAgrees /\ [Next]_vars => (TypeOK /\ HistoryAgrees)'
  <2> SUFFICES ASSUME TypeOK, HistoryAgrees, [Next]_vars
               PROVE  TypeOK' /\ HistoryAgrees'
    OBVIOUS
  <2>1. \A l \in Links : Agreed(l)
    BY AgreedIsHistoryAgrees
  <2>2. \A l \in Links : Agreed(l)'
    BY <2>1, NextAgrees
  <2>3. HistoryAgrees' <=> \A l \in Links : Agreed(l)'
    BY DEF HistoryAgrees, Agreed, Agrees, Flushers
  <2> QED
    BY <2>2, <2>3, NextType
<1> QED
  BY <1>1, <1>2, PTL DEF Spec

-----------------------------------------------------------------------------
(* Refinement of the at-most-once ledger.                                  *)

Outstanding == [c \in Counters |-> Unwritten(c)]

LEMMA InitRefines == Init => Ledger!Init
<1> SUFFICES ASSUME Init
             PROVE  Ledger!Init
  OBVIOUS
<1>1. Outstanding = [c \in Counters |-> 0]
  BY NoCountsType DEF Init, Outstanding, Unwritten, IdleFlusher, Flushers
<1> QED
  BY <1>1 DEF Init, Outstanding, NoCounts, Ledger!Init

\* A step that moves increments only within memory is invisible to the ledger.
LEMMA Invisible ==
  ASSUME \A c \in Counters : Unwritten(c)' = Unwritten(c), UNCHANGED <<live, counted, table>>
  PROVE  UNCHANGED Ledger!ledgerVars
<1>1. Outstanding' = Outstanding
  BY DEF Outstanding
<1> QED
  BY <1>1 DEF Outstanding, Ledger!ledgerVars

LEMMA NextRefines ==
  ASSUME TypeOK, IdleHoldsNothing, [Next]_vars
  PROVE  [Ledger!Next]_(Ledger!ledgerVars)
<1> USE DEF Ledger!Next
<1> DEFINE Still == UNCHANGED <<spawned, buffer, flusher, live, table, counted>>
<1>1. Still => UNCHANGED Ledger!ledgerVars
  BY Invisible DEF Unwritten
<1>2. CASE UNCHANGED vars
  BY <1>1, <1>2 DEF vars, memory
<1>3. CASE Next
  <2>1. ASSUME NEW v \in Visitors, Resolve(v)
        PROVE  UNCHANGED Ledger!ledgerVars
    BY <1>1, <2>1 DEF Resolve
  <2>2. ASSUME NEW v \in Visitors, Serve(v)
        PROVE  Ledger!Count
    BY <2>2, ServeSpawns, SpawnEffect DEF Ledger!Count
  <2>3. ASSUME NEW c \in Counters, Record(c)
        PROVE  UNCHANGED Ledger!ledgerVars
    BY <2>3, RecordEffect, Invisible DEF Record
  <2>4. ASSUME NEW f \in Flushers, Swap(f)
        PROVE  UNCHANGED Ledger!ledgerVars
    BY <2>4, DrainEffect, Invisible DEF Swap
  <2>5. ASSUME NEW f \in Flushers, Send(f)
        PROVE  UNCHANGED Ledger!ledgerVars
    BY <2>5, SendEffect, Invisible DEF Send
  <2>6. ASSUME NEW f \in Flushers, Commit(f)
        PROVE  Ledger!Publish
    <3>1. \A c \in live : c \in Counters
      BY DEF TypeOK
    <3> QED
      BY <2>6, <3>1, CommitEffect DEF Commit, Ledger!Publish
  <2>7. ASSUME NEW f \in Flushers, Abort(f) \/ SendTooLate(f)
        PROVE  Ledger!Lose
    <3>1. UNCHANGED <<live, table, counted>>
      BY <2>7 DEF Abort, SendTooLate
    <3> QED
      BY <2>7, <3>1, FailureEffect DEF Ledger!Lose
  <2>8. CASE BeginShutdown \/ Drained \/ Restart \/ DedupExpires \/ HourPasses
    BY <1>1, <2>8 DEF BeginShutdown, Drained, Restart, DedupExpires, HourPasses, memory
  <2>9. CASE FinalSwap
    BY <1>1, <2>9, DrainEffect, Invisible DEF FinalSwap, Flushers
  <2>10. ASSUME NEW why, ProcessEnds(why)
         PROVE  Ledger!Lose
    <3>1. UNCHANGED <<live, table, counted>>
      BY <2>10 DEF ProcessEnds
    <3> QED
      BY <2>10, <3>1, EndEffect, UnwrittenType DEF Ledger!Lose
  <2>11. ASSUME NEW t \in Targets, DeleteTarget(t)
         PROVE  Ledger!Delete
    <3>1. UNCHANGED <<spawned, buffer, flusher, counted>> /\ live' \subseteq live
      BY <2>11 DEF DeleteTarget, memory
    <3>2. \A c \in live' : c \in Counters /\ table'.count[c] = table.count[c]
      BY <2>11 DEF DeleteTarget, TypeOK, Counts
    <3> QED
      BY <3>1, <3>2 DEF Ledger!Delete, Unwritten
  <2> QED
    BY <1>3, <2>1, <2>2, <2>3, <2>4, <2>5, <2>6, <2>7, <2>8, <2>9, <2>10, <2>11
    DEF Next, Attempt, Shutdown, Exit, ForcedExit, Crash
<1> QED
  BY <1>2, <1>3

\* The write buffer, its flushes, shutdowns and crashes implement the ledger:
\* increments are stored at most once, a batch appears all at once, and a
\* stored count never moves except by a batch or with its row.
THEOREM RefinesLedger == Spec => ImplementsLedger
<1>1. IInv /\ [Next]_vars => [Ledger!Next]_(Ledger!ledgerVars)
  BY NextRefines DEF IInv
<1> QED
  BY <1>1, InitRefines, Inductive, PTL DEF Spec, ImplementsLedger, Ledger!Spec
=============================================================================
