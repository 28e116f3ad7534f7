----------------------------- MODULE WriteBuffer -----------------------------
(***************************************************************************)
(* The click and lookup counters of one golinks process, from the redirect *)
(* to the row in PostgreSQL, across shutdown, crash and restart            *)
(* (internal/db/write_buffer.go, deduplicate.go, handlers/redirect.go,     *)
(* metrics/metrics.go and the shutdown sequence of cmd/server/main.go).    *)
(*                                                                         *)
(* A redirect starts detached goroutines; each adds 1 to the in-memory     *)
(* buffer.  A flusher - the 5 s ticker or the last flush of main - drains  *)
(* the buffer, takes a connection and sends one batch, which the database  *)
(* applies as one implicit transaction.  Nothing is ever put back.         *)
(*                                                                         *)
(* The maps linkClicks, userLinkClicks and kwLookups of the buffer have    *)
(* disjoint keys and are one function over Counters; historyClicks keeps   *)
(* its own, since its rows refer to a link that must still exist.          *)
(***************************************************************************)
EXTENDS Integers, FiniteSets, Functions

CONSTANTS
  Links,            \* rows of links: shared links, with an hourly history
  UserLinks,        \* rows of user_links: personal links, without history
  Lookups,          \* keys (keyword, outcome) of keyword_lookups
  Resolved,         \* the lookup key of a keyword that resolves
  Visitors,         \* the actors that clicks are deduplicated by
  None,             \* no redirect in progress
  NotFound,         \* the keyword of the redirect resolves to nothing
  RedisConfigured,  \* is there a Redis to deduplicate clicks with?
  MaxCount,         \* largest value of an INTEGER column (2^31 - 1)
  Environment,      \* the outside events that may happen, see EnvironmentEvents
  MaxRedirects,     \* bound on the redirects of a behaviour
  MaxHour           \* bound on the hours that pass

\* SIGTERM; the 30 s of the shutdown run out; the process dies; the database
\* fails a batch; a row of links or user_links is deleted.
EnvironmentEvents == {"shutdown", "timeout", "crash", "dberror", "delete"}

ASSUME ConstantsAssumption ==
  /\ Links \cap UserLinks = {}
  /\ (Links \cup UserLinks) \cap Lookups = {}
  /\ Resolved \in Lookups /\ Lookups # {Resolved}
  /\ None \notin Links \cup UserLinks /\ NotFound \notin Links \cup UserLinks
  /\ None # NotFound
  /\ RedisConfigured \in BOOLEAN
  /\ MaxCount \in Nat /\ MaxRedirects \in Nat /\ MaxHour \in Nat
  /\ Environment \subseteq EnvironmentEvents

Targets  == Links \cup UserLinks      \* what a keyword can resolve to
Counters == Targets \cup Lookups
Hours    == 0 .. MaxHour
Flushers == {"ticker", "final"}

VARIABLES
  phase,      \* where main is: running, draining, flushing, closing, down
  request,    \* per visitor, the redirect it waits for
  dedup,      \* the unexpired Redis keys click:<actor>:<link>
  spawned,    \* detached goroutines that have not recorded yet, per counter
  buffer,     \* the write buffer: [count, history]
  flusher,    \* per flusher, where it is and the batch it holds
  live,       \* the counters whose row exists
  table,      \* the database: [count, history]
  hour,       \* the hour bucket of the clock
  redirects,  \* number of redirects begun (bounds the model)
  counted,    \* history: increments asked for, per counter
  mishaps     \* history: why increments were lost, if any were

memory == <<request, spawned, buffer, flusher>>
vars == <<phase, memory, dedup, live, table, hour, redirects, counted, mishaps>>

-----------------------------------------------------------------------------
(* Counts: a record of the per-counter deltas and of the hourly deltas.    *)

NoCounts == [count   |-> [c \in Counters |-> 0],
             history |-> [l \in Links |-> [h \in Hours |-> 0]]]

Counts == [count : [Counters -> Nat], history : [Links -> [Hours -> Nat]]]

IdleFlusher == [pc |-> "idle", batch |-> NoCounts]

\* Accepted increments of counter c that no row holds yet.
Unwritten(c) == spawned[c] + buffer.count[c]
                  + flusher["ticker"].batch.count[c] + flusher["final"].batch.count[c]

Init ==
  /\ phase = "running"
  /\ request = [v \in Visitors |-> None]
  /\ dedup = {}
  /\ spawned = [c \in Counters |-> 0]
  /\ buffer = NoCounts
  /\ flusher = [f \in Flushers |-> IdleFlusher]
  /\ live = Counters
  /\ table = NoCounts
  /\ hour = 0
  /\ redirects = 0
  /\ counted = [c \in Counters |-> 0]
  /\ mishaps = {}

-----------------------------------------------------------------------------
(* Redirects.                                                              *)

\* A goroutine per element of S is started: each will add 1 to its counter.
Spawn(S) ==
  /\ spawned' = [c \in Counters |-> IF c \in S THEN spawned[c] + 1 ELSE spawned[c]]
  /\ counted' = [c \in Counters |-> IF c \in S THEN counted[c] + 1 ELSE counted[c]]

\* The handler has resolved the keyword: to a row that exists, or to nothing.
Resolve(v) ==
  /\ phase = "running"
  /\ request[v] = None
  /\ redirects < MaxRedirects
  /\ redirects' = redirects + 1
  /\ \E t \in (Targets \cap live) \cup {NotFound} : request' = [request EXCEPT ![v] = t]
  /\ UNCHANGED <<phase, dedup, spawned, buffer, flusher, live, table, hour, counted, mishaps>>

\* ShouldRecordClick: SETNX succeeds, or Redis is absent or fails.
FirstClick(v, t) == ~RedisConfigured \/ <<v, t>> \notin dedup

\* Redirect: the lookup is recorded and, once per actor, link and hour, the click.
Redirect(v) ==
  /\ request[v] \notin {None, NotFound}
  /\ LET t == request[v] IN
       /\ IF FirstClick(v, t) THEN Spawn({t, Resolved}) ELSE Spawn({Resolved})
       /\ dedup' = IF RedisConfigured THEN dedup \cup {<<v, t>>} ELSE dedup
  /\ request' = [request EXCEPT ![v] = None]
  /\ UNCHANGED <<phase, buffer, flusher, live, table, hour, redirects, mishaps>>

\* Redirect while Redis fails: the click counts, whether the key was set or not.
RedirectWithoutRedis(v) ==
  /\ RedisConfigured
  /\ request[v] \notin {None, NotFound}
  /\ Spawn({request[v], Resolved})
  /\ dedup' \in {dedup, dedup \cup {<<v, request[v]>>}}
  /\ request' = [request EXCEPT ![v] = None]
  /\ UNCHANGED <<phase, buffer, flusher, live, table, hour, redirects, mishaps>>

\* Random: a shared link, no lookup and no deduplication.
Random(v) ==
  /\ request[v] \in Links
  /\ Spawn({request[v]})
  /\ request' = [request EXCEPT ![v] = None]
  /\ UNCHANGED <<phase, dedup, buffer, flusher, live, table, hour, redirects, mishaps>>

\* Mutant of Miss: the deduplication key is set before the keyword is known to resolve.
MissDeduplicated(v) ==
  /\ request[v] = NotFound
  /\ \E k \in Lookups \ {Resolved} : Spawn({k})
  /\ dedup' = dedup \cup {<<v, request[v]>>}
  /\ request' = [request EXCEPT ![v] = None]
  /\ UNCHANGED <<phase, buffer, flusher, live, table, hour, redirects, mishaps>>

\* The keyword resolves to nothing: only the lookup is recorded.
Miss(v) ==
  /\ request[v] = NotFound
  /\ \E k \in Lookups \ {Resolved} : Spawn({k})
  /\ request' = [request EXCEPT ![v] = None]
  /\ UNCHANGED <<phase, dedup, buffer, flusher, live, table, hour, redirects, mishaps>>

\* Mutant of Record: without the mutex two recorders may write back the same count.
RecordUnlocked(c) ==
  /\ spawned[c] > 0
  /\ spawned' = [spawned EXCEPT ![c] = @ - 1]
  /\ \/ UNCHANGED buffer
     \/ buffer' = [count   |-> [buffer.count EXCEPT ![c] = @ + 1],
                   history |-> IF c \in Links
                               THEN [buffer.history EXCEPT ![c][hour] = @ + 1]
                               ELSE buffer.history]
  /\ UNCHANGED <<phase, request, dedup, flusher, live, table, hour, redirects, counted, mishaps>>

\* One detached goroutine runs: the count and, for a shared link, the
\* history of the current hour change under one lock.
Record(c) ==
  /\ spawned[c] > 0
  /\ spawned' = [spawned EXCEPT ![c] = @ - 1]
  /\ buffer' = [count   |-> [buffer.count EXCEPT ![c] = @ + 1],
                history |-> IF c \in Links
                            THEN [buffer.history EXCEPT ![c][hour] = @ + 1]
                            ELSE buffer.history]
  /\ UNCHANGED <<phase, request, dedup, flusher, live, table, hour, redirects, counted, mishaps>>

-----------------------------------------------------------------------------
(* Flushing.                                                               *)

\* Mutant of MayFlush: main does not start the ticker.
MayFlushAtEnd(f) == f = "final" /\ phase = "flushing"

\* Who may begin a flush: the ticker at any time, main when requests are over.
MayFlush(f) == IF f = "ticker" THEN phase # "down" ELSE phase = "flushing"

\* Mutant of Drain: swap returns the maps without replacing them.
DrainKeeping(f) ==
  /\ buffer # NoCounts
  /\ flusher' = [flusher EXCEPT ![f] = [pc |-> "swapped", batch |-> buffer]]
  /\ UNCHANGED buffer

\* swap: the four maps are taken and replaced by empty ones under the lock.
Drain(f) ==
  /\ buffer # NoCounts
  /\ flusher' = [flusher EXCEPT ![f] = [pc |-> "swapped", batch |-> buffer]]
  /\ buffer' = NoCounts

Swap(f) ==
  /\ f = "ticker"
  /\ MayFlush(f)
  /\ flusher[f].pc = "idle"
  /\ Drain(f)
  /\ UNCHANGED <<phase, request, dedup, spawned, live, table, hour, redirects, counted, mishaps>>

\* SendBatch gets a connection of the pool, which Close has not shut.
Send(f) ==
  /\ flusher[f].pc = "swapped"
  /\ phase # "closing"
  /\ flusher' = [flusher EXCEPT ![f].pc = "sending"]
  /\ UNCHANGED <<phase, request, dedup, spawned, buffer, live, table, hour, redirects,
                 counted, mishaps>>

\* A click_history row of the batch refers to a link that was deleted.
Orphaned(b) == \E l \in Links \ live, h \in Hours : b.history[l][h] > 0

\* An INTEGER column would leave its range; keyword_lookups.count is a BIGINT.
Overflows(b) == \E t \in Targets \cap live : b.count[t] > 0 /\ table.count[t] + b.count[t] > MaxCount

\* Two transactions that update two common rows, in the random order of a Go
\* map, can each wait for the other; the database then aborts one of them.
MayDeadlock(f) ==
  \E g \in Flushers \ {f} :
    /\ flusher[g].pc = "sending"
    /\ \E K \in {Links, UserLinks, Lookups} : \E c, d \in K :
         /\ c # d
         /\ flusher[f].batch.count[c] > 0 /\ flusher[g].batch.count[c] > 0
         /\ flusher[f].batch.count[d] > 0 /\ flusher[g].batch.count[d] > 0

\* Mutant of Applied: flush does not queue the rows of click_history.
AppliedWithoutHistory(b) ==
  [count   |-> [c \in Counters |-> IF c \in live THEN table.count[c] + b.count[c]
                                   ELSE table.count[c]],
   history |-> table.history]

\* The rows the batch touches, increased by its deltas; deleted rows match nothing.
Applied(b) ==
  [count   |-> [c \in Counters |-> IF c \in live THEN table.count[c] + b.count[c]
                                   ELSE table.count[c]],
   history |-> [l \in Links |-> [h \in Hours |-> table.history[l][h] + b.history[l][h]]]]

\* Main goes from its flush to database.Close once SendBatch has returned.
FlushReturns(f) ==
  /\ flusher' = [flusher EXCEPT ![f] = IdleFlusher]
  /\ phase' = IF f = "final" THEN "closing" ELSE phase

\* The implicit transaction of the batch commits: every statement or none.
Commit(f) ==
  /\ flusher[f].pc = "sending"
  /\ ~Orphaned(flusher[f].batch)
  /\ ~Overflows(flusher[f].batch)
  /\ table' = Applied(flusher[f].batch)
  /\ FlushReturns(f)
  /\ UNCHANGED <<request, dedup, spawned, buffer, live, hour, redirects, counted, mishaps>>

\* The transaction is rolled back; the error is logged and the deltas are gone.
Abort(f) ==
  /\ flusher[f].pc = "sending"
  /\ \/ Orphaned(flusher[f].batch)  /\ mishaps' = mishaps \cup {"orphaned"}
     \/ Overflows(flusher[f].batch) /\ mishaps' = mishaps \cup {"overflow"}
     \/ MayDeadlock(f)              /\ mishaps' = mishaps \cup {"deadlock"}
     \/ "dberror" \in Environment   /\ mishaps' = mishaps \cup {"dberror"}
     \/ /\ f = "final" /\ "timeout" \in Environment
        /\ mishaps' = mishaps \cup {"timeout"}
  /\ FlushReturns(f)
  /\ UNCHANGED <<request, dedup, spawned, buffer, live, table, hour, redirects, counted>>

\* The ticker asks for a connection after Close: SendBatch fails.
SendTooLate(f) ==
  /\ flusher[f].pc = "swapped"
  /\ phase = "closing"
  /\ mishaps' = mishaps \cup {"late"}
  /\ flusher' = [flusher EXCEPT ![f] = IdleFlusher]
  /\ UNCHANGED <<phase, request, dedup, spawned, buffer, live, table, hour, redirects, counted>>

-----------------------------------------------------------------------------
(* Shutdown, crash and restart.                                            *)

\* SIGTERM: no new request is accepted.
BeginShutdown ==
  /\ "shutdown" \in Environment
  /\ phase = "running"
  /\ phase' = "draining"
  /\ UNCHANGED <<memory, dedup, live, table, hour, redirects, counted, mishaps>>

\* ShutdownWithContext returns: the last response was sent.
Drained ==
  /\ phase = "draining"
  /\ \A v \in Visitors : request[v] = None
  /\ phase' = "flushing"
  /\ UNCHANGED <<memory, dedup, live, table, hour, redirects, counted, mishaps>>

\* Mutant of FinalSwap: main waits for something to flush.
FinalSwapNonEmpty ==
  /\ MayFlush("final")
  /\ flusher["final"].pc = "idle"
  /\ Drain("final")
  /\ UNCHANGED <<phase, request, dedup, spawned, live, table, hour, redirects, counted, mishaps>>

\* FlushWriteBuffer: the last swap; an empty buffer needs no batch.
FinalSwap ==
  /\ MayFlush("final")
  /\ flusher["final"].pc = "idle"
  /\ \/ Drain("final") /\ UNCHANGED phase
     \/ buffer = NoCounts /\ phase' = "closing" /\ UNCHANGED <<flusher, buffer>>
  /\ UNCHANGED <<request, dedup, spawned, live, table, hour, redirects, counted, mishaps>>

\* The process ends: what was only in its memory is gone.
ProcessEnds(why) ==
  /\ phase' = "down"
  /\ request' = [v \in Visitors |-> None]
  /\ spawned' = [c \in Counters |-> 0]
  /\ buffer' = NoCounts
  /\ flusher' = [f \in Flushers |-> IdleFlusher]
  /\ mishaps' = IF \E c \in Counters : Unwritten(c) > 0 THEN mishaps \cup {why} ELSE mishaps
  /\ UNCHANGED <<dedup, live, table, hour, redirects, counted>>

\* Close has waited for the connections in use; main returns.
Exit ==
  /\ phase = "closing"
  /\ \A f \in Flushers : flusher[f].pc # "sending"
  /\ ProcessEnds("late")

\* The 30 s are over with requests still open: os.Exit(1), without a flush.
ForcedExit ==
  /\ "timeout" \in Environment
  /\ phase = "draining"
  /\ \E v \in Visitors : request[v] # None
  /\ ProcessEnds("timeout")

Crash ==
  /\ "crash" \in Environment
  /\ phase # "down"
  /\ ProcessEnds("crash")

Restart ==
  /\ phase = "down"
  /\ phase' = "running"
  /\ UNCHANGED <<memory, dedup, live, table, hour, redirects, counted, mishaps>>

-----------------------------------------------------------------------------
(* The rest of the world.                                                  *)

\* DeleteLink or DeleteUserLink; click_history rows go with their link.
DeleteTarget(t) ==
  /\ "delete" \in Environment
  /\ t \in live
  /\ live' = live \ {t}
  /\ table' = [count   |-> [table.count EXCEPT ![t] = 0],
               history |-> IF t \in Links
                           THEN [table.history EXCEPT ![t] = NoCounts.history[t]]
                           ELSE table.history]
  /\ UNCHANGED <<phase, memory, dedup, hour, redirects, counted, mishaps>>

\* Redis drops the key of a click that is one hour old.
DedupExpires ==
  /\ \E key \in dedup : dedup' = dedup \ {key}
  /\ UNCHANGED <<phase, memory, live, table, hour, redirects, counted, mishaps>>

HourPasses ==
  /\ hour < MaxHour
  /\ hour' = hour + 1
  /\ UNCHANGED <<phase, memory, dedup, live, table, redirects, counted, mishaps>>

-----------------------------------------------------------------------------

Serve(v) == Redirect(v) \/ RedirectWithoutRedis(v) \/ Random(v) \/ Miss(v)

\* SendBatch, from the call to its result.
Attempt(f) == Send(f) \/ Commit(f) \/ Abort(f) \/ SendTooLate(f)

Shutdown == Drained \/ FinalSwap \/ Exit

Next ==
  \/ \E v \in Visitors : Resolve(v) \/ Serve(v)
  \/ \E c \in Counters : Record(c)
  \/ \E f \in Flushers : Swap(f) \/ Attempt(f)
  \/ BeginShutdown \/ Shutdown \/ ForcedExit \/ Crash \/ Restart
  \/ \E t \in Targets : DeleteTarget(t)
  \/ DedupExpires \/ HourPasses

Spec == Init /\ [][Next]_vars

\* The scheduler runs every goroutine, the ticker ticks for ever, handlers
\* return, the database answers, and main goes on to its end.
Fairness ==
  /\ \A v \in Visitors : WF_vars(Serve(v))
  /\ \A c \in Counters : WF_vars(Record(c))
  /\ \A f \in Flushers : WF_vars(Swap(f)) /\ WF_vars(Attempt(f))
  /\ WF_vars(Shutdown)

FairSpec == Spec /\ Fairness

-----------------------------------------------------------------------------
(* Properties.                                                             *)

\* Every variable has its type (structs and columns of write_buffer.go).
TypeOK ==
  /\ phase \in {"running", "draining", "flushing", "closing", "down"}
  /\ request \in [Visitors -> Targets \cup {None, NotFound}]
  /\ dedup \subseteq Visitors \X Targets
  /\ spawned \in [Counters -> Nat]
  /\ buffer \in Counts
  /\ flusher \in [Flushers -> [pc : {"idle", "swapped", "sending"}, batch : Counts]]
  /\ live \subseteq Counters
  /\ table \in Counts
  /\ hour \in Hours
  /\ redirects \in Nat
  /\ counted \in [Counters -> Nat]
  /\ mishaps \subseteq {"orphaned", "overflow", "deadlock", "dberror", "timeout", "late", "crash"}

\* No increment is applied twice, whatever fails and whenever: what a live row
\* holds and what is still on its way never exceed what redirects asked for.
NeverCountsTwice ==
  \A c \in live : table.count[c] + Unwritten(c) <= counted[c]

\* Every increment is accounted for unless one of the known mishaps happened:
\* no interleaving of recorders, flushers and main loses one by itself.
LostOnlyByMishap ==
  mishaps = {} => \A c \in live : table.count[c] + Unwritten(c) = counted[c]

\* The total of a link and the sum of its hourly history never part, in the
\* buffer, in a batch and in the database, though they are two maps and two
\* tables (recordLinkClick, swap, the implicit transaction of flush).
HistoryAgrees ==
  \A l \in Links :
    /\ \A x \in {buffer, flusher["ticker"].batch, flusher["final"].batch} :
         SumFunction(x.history[l]) = x.count[l]
    /\ l \in live => SumFunction(table.history[l]) = table.count[l]

\* The counters implement the at-most-once ledger.
Ledger == INSTANCE ClickLedger
            WITH outstanding <- [c \in Counters |-> Unwritten(c)], stored <- table.count

ImplementsLedger == Ledger!Spec

\* Every click or lookup reaches its row (the 5 s ticker, or the last flush)
\* unless the row is deleted or one of the known mishaps happens: a buffered
\* count never waits for the next click, for a flusher or for main.
EveryCountArrives ==
  \A c \in Counters : \A n \in 1 .. MaxRedirects :
    counted[c] = n ~> table.count[c] >= n \/ c \notin live \/ mishaps # {}

\* docs/usage.md: "Every redirect increments the link's click count."
EveryRedirectCounts ==
  \A c \in Counters : \A n \in 1 .. MaxRedirects :
    counted[c] = n ~> table.count[c] >= n \/ c \notin live

\* A graceful shutdown ends: main never waits for ever for a request, for a
\* flush or for a connection that a flush holds.
ShutdownEnds == phase = "draining" ~> phase = "down"

\* docs/database.md: "On graceful shutdown, the buffer is flushed before the
\* database connection is closed so no counts are lost."
NoCountsLostOnShutdown ==
  phase = "down" => \A c \in live : table.count[c] = counted[c]
=============================================================================
