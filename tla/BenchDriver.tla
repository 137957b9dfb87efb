---------------------------- MODULE BenchDriver ----------------------------
(***************************************************************************)
(* The dictionary benchmark driver: run_dictionary with its AddressStream *)
(* (src/src/bench_common.rs, and its copy in src/src/parity_bench.rs).    *)
(*                                                                         *)
(* AddressStream::new spawns one producer thread per core.  Each thread   *)
(* claims an index with counter.fetch_add, stops once the index reaches   *)
(* total, and otherwise sends an address into a bounded crossbeam channel:*)
(* a fresh random address when idx % 5 = 0 or when the thread has none    *)
(* yet, else the thread's own last address.  The consumer runs            *)
(* for i in 0..total, pairs key i with whatever address recv returns,     *)
(* commits a batch whenever it holds BATCH entries, commits the final     *)
(* partial batch, joins the producers, flushes and does one reverse       *)
(* lookup.  Any store error returns early with `?`, which drops the       *)
(* stream and with it the channel's receiver.                             *)
(*                                                                         *)
(* run_plain, run_index and run_range are the same consumer loop without *)
(* a stream: key i is paired with a value made on the spot (Amount(i),     *)
(* Timestamp(i), or a random hash), then the final commit and the flush.   *)
(* run_all_parallel runs each job on its own thread with its own store and *)
(* directory, so they share nothing and one job is modelled per behaviour *)
(* (job, chosen in Init).                                                  *)
(*                                                                         *)
(* Store contents are a function from key to address; a fresh address is  *)
(* named by the thread and index that drew it (random 20- or 32-byte      *)
(* payloads are taken never to collide).                                   *)
(***************************************************************************)
EXTENDS Naturals, Sequences, FiniteSets, SequencesExt, Functions

CONSTANTS
    Threads,      \* producer threads (available_parallelism)
    Total,        \* the total argument
    BATCH,        \* entries per commit
    Cap,          \* capacity of the bounded channel (1024 in the code)
    StoreErrors,  \* whether commit and flush may fail
    Jobs,         \* jobs of run_all_parallel: "plain", "index", "range", "dictionary"
    NoAddr        \* Option::None for an address

ASSUME /\ Total \in Nat \ {0} /\ BATCH \in Nat \ {0} /\ Cap \in Nat \ {0}
       /\ StoreErrors \in BOOLEAN
       /\ Jobs \subseteq {"plain", "index", "range", "dictionary"} /\ Jobs # {}

VARIABLES
    job,       \* which run_* function this thread of run_all_parallel runs
    counter,   \* the shared AtomicU64
    ppc,       \* producer thread: "fetch", "send" or "done"
    held,      \* the [idx, addr] a producer is sending
    last,      \* each producer's `last` address
    chan,      \* messages in the channel, oldest first
    rxOpen,    \* the Receiver is still alive
    cpc,       \* consumer: "loop", "join", "flush", "done" or "failed"
    i,         \* loop index of the consumer
    batch,     \* the consumer's pending Vec<(Key, Address)>
    store,     \* committed key -> address
    seen,      \* seen_addr
    got        \* indices received, in order (history variable)

vars == <<job, counter, ppc, held, last, chan, rxOpen, cpc, i, batch, store,
          seen, got>>

Keys == 0 .. Total - 1
Addr == Threads \X Keys
Item == [idx : Keys, addr : Addr]
NoItem == [idx |-> 0, addr |-> NoAddr]
Values == Addr \cup ({"plain", "index", "range"} \X Keys)
AllDone == \A t \in Threads : ppc[t] = "done"

\* The value run_plain, run_index or run_range pairs with key i: Amount(i),
\* a random TxHash, Timestamp(i); a hash is taken as distinct per key.
LocalVal(j, idx) == <<j, idx>>

\* Where the consumer goes once `for i in 0..total` is over: run_dictionary
\* joins its stream, the other jobs have none and flush.
AfterLoop == IF job = "dictionary" THEN "join" ELSE "flush"

Init ==
    /\ job \in Jobs
    /\ counter = 0
    /\ ppc = [t \in Threads |-> IF job = "dictionary" THEN "fetch" ELSE "done"]
    /\ held = [t \in Threads |-> NoItem]
    /\ last = [t \in Threads |-> NoAddr]
    /\ chan = <<>>
    /\ rxOpen = (job = "dictionary")
    /\ cpc = "loop"
    /\ i = 0
    /\ batch = <<>>
    /\ store = [k \in Keys |-> NoAddr]
    /\ seen = NoAddr
    /\ got = <<>>

(***************************************************************************)
(* Producers.                                                              *)
(***************************************************************************)

\* The address sent for index idx by thread t.
NextAddr(t, idx) ==
    IF idx % 5 = 0 \/ last[t] = NoAddr THEN <<t, idx>> ELSE last[t]

\* Mutant: the idx % 5 = 0 branch does not remember its address in `last`.
FetchNoRemember(t) ==
    /\ ppc[t] = "fetch"
    /\ counter' = counter + 1
    /\ IF counter >= Total
       THEN /\ ppc' = [ppc EXCEPT ![t] = "done"]
            /\ UNCHANGED <<held, last>>
       ELSE /\ held' = [held EXCEPT ![t] = [idx |-> counter,
                                              addr |-> NextAddr(t, counter)]]
            /\ last' = [last EXCEPT ![t] = IF counter % 5 = 0 THEN @
                                            ELSE NextAddr(t, counter)]
            /\ ppc' = [ppc EXCEPT ![t] = "send"]
    /\ UNCHANGED <<job, chan, rxOpen, cpc, i, batch, store, seen, got>>

\* counter.fetch_add(1); break when idx >= total; pick the address.
Fetch(t) ==
    /\ ppc[t] = "fetch"
    /\ counter' = counter + 1
    /\ IF counter >= Total
       THEN /\ ppc' = [ppc EXCEPT ![t] = "done"]
            /\ UNCHANGED <<held, last>>
       ELSE /\ held' = [held EXCEPT ![t] = [idx |-> counter,
                                              addr |-> NextAddr(t, counter)]]
            /\ last' = [last EXCEPT ![t] = NextAddr(t, counter)]
            /\ ppc' = [ppc EXCEPT ![t] = "send"]
    /\ UNCHANGED <<job, chan, rxOpen, cpc, i, batch, store, seen, got>>

\* tx.send blocks while the channel is full and fails once the receiver
\* is gone, which ends the thread.
Send(t) ==
    /\ ppc[t] = "send"
    /\ \/ /\ rxOpen
          /\ Len(chan) < Cap
          /\ chan' = Append(chan, held[t])
          /\ ppc' = [ppc EXCEPT ![t] = "fetch"]
       \/ /\ ~rxOpen
          /\ ppc' = [ppc EXCEPT ![t] = "done"]
          /\ UNCHANGED chan
    /\ UNCHANGED <<job, counter, held, last, rxOpen, cpc, i, batch, store, seen, got>>

(***************************************************************************)
(* Consumer.                                                               *)
(***************************************************************************)

\* The store after committing batch b: each (key, address) is put.
Committed(b) ==
    [k \in Keys |-> IF \E j \in DOMAIN b : b[j][1] = k
                    THEN b[CHOOSE j \in DOMAIN b : b[j][1] = k][2]
                    ELSE store[k]]

\* Mutant: the error is returned while the stream, and its receiver, is
\* kept alive.
CommitBatchKeepsReceiver(b, after) ==
    \/ /\ store' = Committed(b)
       /\ batch' = <<>>
       /\ cpc' = after
       /\ UNCHANGED rxOpen
    \/ /\ StoreErrors
       /\ cpc' = "failed"
       /\ UNCHANGED <<store, batch, rxOpen>>

\* store.commit(batch) succeeds and the batch is cleared, or it fails and
\* the function returns, dropping the stream.
CommitBatch(b, after) ==
    \/ /\ store' = Committed(b)
       /\ batch' = <<>>
       /\ cpc' = after
       /\ UNCHANGED rxOpen
    \/ /\ StoreErrors
       /\ cpc' = "failed"
       /\ rxOpen' = FALSE
       /\ UNCHANGED <<store, batch>>

\* Mutant: a batch is committed only once it exceeds BATCH.
RecvLateCommit ==
    /\ cpc = "loop"
    /\ job = "dictionary"
    /\ i < Total
    /\ chan # <<>> \/ AllDone
    /\ i' = i + 1
    /\ LET some == chan # <<>>
           b == IF some THEN Append(batch, <<i, Head(chan).addr>>) ELSE batch
       IN  /\ chan' = IF some THEN Tail(chan) ELSE chan
           /\ got' = IF some THEN Append(got, Head(chan).idx) ELSE got
           /\ seen' = IF some /\ i % 5 = 0 THEN Head(chan).addr ELSE seen
           /\ IF Len(b) > BATCH
              THEN CommitBatch(b, "loop")
              ELSE /\ batch' = b
                   /\ UNCHANGED <<store, cpc, rxOpen>>
    /\ UNCHANGED <<job, counter, ppc, held, last>>

\* One iteration of `for i in 0..total`: recv (blocking while the channel
\* is empty and a sender lives), push (key i, v), commit a full batch.
Recv ==
    /\ cpc = "loop"
    /\ job = "dictionary"
    /\ i < Total
    /\ chan # <<>> \/ AllDone
    /\ i' = i + 1
    /\ LET some == chan # <<>>
           b == IF some THEN Append(batch, <<i, Head(chan).addr>>) ELSE batch
       IN  /\ chan' = IF some THEN Tail(chan) ELSE chan
           /\ got' = IF some THEN Append(got, Head(chan).idx) ELSE got
           /\ seen' = IF some /\ i % 5 = 0 THEN Head(chan).addr ELSE seen
           /\ IF Len(b) >= BATCH
              THEN CommitBatch(b, "loop")
              ELSE /\ batch' = b
                   /\ UNCHANGED <<store, cpc, rxOpen>>
    /\ UNCHANGED <<job, counter, ppc, held, last>>

\* One iteration of the loop of run_plain, run_index or run_range: push
\* (key i, value), commit a full batch.
Generate ==
    /\ cpc = "loop"
    /\ job # "dictionary"
    /\ i < Total
    /\ i' = i + 1
    /\ got' = Append(got, i)
    /\ LET b == Append(batch, <<i, LocalVal(job, i)>>) IN
       IF Len(b) >= BATCH
       THEN CommitBatch(b, "loop")
       ELSE /\ batch' = b
            /\ UNCHANGED <<store, cpc, rxOpen>>
    /\ UNCHANGED <<job, counter, ppc, held, last, chan, seen>>

\* Mutant: the final partial batch is never committed.
FinalCommitDropsPartial ==
    /\ cpc = "loop"
    /\ i = Total
    /\ cpc' = AfterLoop
    /\ UNCHANGED <<store, batch, rxOpen>>
    /\ UNCHANGED <<job, counter, ppc, held, last, chan, i, seen, got>>

\* After the loop: commit the partial batch when there is one.
FinalCommit ==
    /\ cpc = "loop"
    /\ i = Total
    /\ IF batch # <<>>
       THEN CommitBatch(batch, AfterLoop)
       ELSE /\ cpc' = AfterLoop
            /\ UNCHANGED <<store, batch, rxOpen>>
    /\ UNCHANGED <<job, counter, ppc, held, last, chan, i, seen, got>>

\* stream.join() consumes the stream (dropping the receiver) and waits
\* for every producer thread.
Join ==
    /\ cpc = "join"
    /\ AllDone
    /\ cpc' = "flush"
    /\ rxOpen' = FALSE
    /\ UNCHANGED <<job, counter, ppc, held, last, chan, i, batch, store, seen, got>>

\* store.flush()?, then the read-only get_keys_for_value(seen_addr).
Flush ==
    /\ cpc = "flush"
    /\ \/ cpc' = "done"
       \/ StoreErrors /\ cpc' = "failed"
    /\ UNCHANGED <<job, counter, ppc, held, last, chan, rxOpen, i, batch, store,
                   seen, got>>

\* run_dictionary has returned; the process waits for nothing further.
Returned ==
    /\ cpc \in {"done", "failed"}
    /\ UNCHANGED vars

Next ==
    \/ \E t \in Threads : Fetch(t) \/ Send(t)
    \/ Recv \/ Generate \/ FinalCommit \/ Join \/ Flush
    \/ Returned

\* OS threads: every thread that can take a step eventually does.
Fairness ==
    /\ \A t \in Threads : WF_vars(Fetch(t)) /\ WF_vars(Send(t))
    /\ WF_vars(Recv) /\ WF_vars(Generate) /\ WF_vars(FinalCommit) /\ WF_vars(Join)
    /\ WF_vars(Flush)

Spec == Init /\ [][Next]_vars /\ Fairness

(***************************************************************************)
(* Properties.                                                             *)
(***************************************************************************)

TypeOK ==
    /\ job \in Jobs
    /\ counter \in 0 .. Total + Cardinality(Threads)
    /\ ppc \in [Threads -> {"fetch", "send", "done"}]
    /\ held \in [Threads -> Item \cup {NoItem}]
    /\ last \in [Threads -> Addr \cup {NoAddr}]
    /\ chan \in Seq(Item) /\ Len(chan) <= Cap
    /\ rxOpen \in BOOLEAN
    /\ cpc \in {"loop", "join", "flush", "done", "failed"}
    /\ i \in 0 .. Total
    /\ batch \in Seq(Keys \X Values) /\ Len(batch) < BATCH
    /\ store \in [Keys -> Values \cup {NoAddr}]
    /\ seen \in Addr \cup {NoAddr}
    /\ got \in Seq(Keys)

\* Every index the producers claim reaches the consumer exactly once, and
\* a run_dictionary that returns Ok has committed all total keys: the
\* fetch_add claims, the blocking channel, the loop bound and the final
\* partial commit together neither lose nor repeat an entry.
ExactlyOnce ==
    /\ IsInjective(got)
    /\ cpc = "done" => /\ ToSet(got) = Keys
                       /\ \A k \in Keys : store[k] # NoAddr

\* The dictionary the benchmark builds has at most one distinct address
\* per multiple of five plus one per extra producer thread: a thread whose
\* first index is not a multiple of five draws a fresh address, every
\* other non-multiple repeats that thread's last one.
FreshAddressBound ==
    job = "dictionary" =>
    Cardinality({store[k] : k \in Keys} \ {NoAddr})
        <= Cardinality({k \in Keys : k % 5 = 0}) + Cardinality(Threads) - 1

\* run_dictionary always returns and every producer thread ends, also when
\* a commit fails and the producers are left blocked on a full channel:
\* dropping the receiver makes their send fail.
Terminates ==
    <>(cpc \in {"done", "failed"} /\ AllDone)

=============================================================================
