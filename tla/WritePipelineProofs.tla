------------------------ MODULE WritePipelineProofs ------------------------
(***************************************************************************)
(* Proofs about WritePipeline, for any set of users, any length of the     *)
(* pipeline and any bounds.                                                *)
(*                                                                         *)
(* None of the properties is inductive by itself.  The argument rests on   *)
(* five invariants: the batches of a queue are the writes accepted last,   *)
(* with growing ids below the next one (QueueInv); the pipeline, the       *)
(* state of the stream and what is on the wire fit together (StreamInv);   *)
(* at most one request for a token is fresh, and only while the stream     *)
(* starts (RequestInv); a task in the worker queue belongs to the user who *)
(* is signed in when it runs (TaskInv); and a write that was applied while *)
(* still in its queue has its answer under way or lost (AppliedInv).       *)
(***************************************************************************)
EXTENDS WritePipeline, TLAPS, WellFoundedInduction

\* What a task of the worker queue asks for.
IsUserTask(t) == t.task = "user"
IsWriteTask(t) == t.task = "write"
IsFreshToken(t) == t.task = "token" /\ t.fresh

Sorted(q) == \A i, j \in 1 .. Len(q) : i < j => q[i].id < q[j].id

\* The first n writes of a.
UpTo(a, n) == {a[i] : i \in 1 .. n}

\* Queue q holds the last writes of a, under growing ids.
QueueOf(q, a, next) ==
    /\ Sorted(q)
    /\ \A i \in 1 .. Len(q) : q[i].id < next
    /\ Len(q) <= Len(a)
    /\ \A i \in 1 .. Len(q) : q[i].write = a[(Len(a) - Len(q)) + i]

QueueInv == \A u \in Users : QueueOf(queue[u], accepted[u], nextBatchId)

\* Every write is accepted at most once.
AcceptedOnce ==
    \A u, v \in Users : \A i \in 1 .. Len(accepted[u]), j \in 1 .. Len(accepted[v]) :
        accepted[u][i] = accepted[v][j] => u = v /\ i = j

\* How much of queue q the pipeline holds.
Held(q) == IF Len(q) < MaxPendingWrites THEN Len(q) ELSE MaxPendingWrites

HoldsFirst(c, q, n) ==
    /\ Len(c.pipeline) = n
    /\ \A i \in 1 .. n : c.pipeline[i] = q[i]

\* How many messages of this stream the backend has taken, and the client has
\* not dealt with.
Taken(c) == Len(c.answers) + IF c.status = "none" THEN 0 ELSE 1

\* What is not read and what is not taken yet are the two ends of the pipeline.
LinedUp(c) ==
    /\ Taken(c) + Len(c.wire) = Len(c.pipeline)
    /\ \A i \in 1 .. Len(c.answers) : c.answers[i] = c.pipeline[i].write
    /\ \A i \in 1 .. Len(c.wire) : c.wire[i] = c.pipeline[Taken(c) + i].write

\* The handshake is on its way, answered or refused.
Greeting(c) ==
    /\ Taken(c) + Len(c.wire) = 1
    /\ \A i \in 1 .. Len(c.answers) : c.answers[i] = Handshake
    /\ \A i \in 1 .. Len(c.wire) : c.wire[i] = Handshake

\* Nothing is connected.
Quiet(c) == c.wire = <<>> /\ c.answers = <<>> /\ c.status = "none" /\ ~c.idle

StreamShape(c) ==
    /\ ~c.enabled => ~IsStarted(c)
    /\ IsStarted(c) /\ ~c.handshake => Len(c.pipeline) > 0
    /\ c.handshake => IsOpen(c)
    /\ c.idle => c.handshake /\ Len(c.pipeline) = 0
    /\ ~IsOpen(c) => Quiet(c)
    /\ IsOpen(c) /\ ~c.handshake => Greeting(c)
    /\ c.handshake => LinedUp(c)
    /\ TRUE \in c.asked => c.state = "Starting"

StreamInv(c, q) ==
    /\ HoldsFirst(c, q, IF c.enabled THEN Held(q) ELSE 0)
    /\ StreamShape(c)

RequestInv ==
    /\ \A i \in 1 .. Len(tasks) : IsFreshToken(tasks[i]) =>
          remote.state = "Starting" /\ TRUE \notin remote.asked
    /\ \A i, j \in 1 .. Len(tasks) : IsFreshToken(tasks[i]) /\ IsFreshToken(tasks[j]) => i = j

\* s[i] is the user who will be signed in when number i of the tasks ts is run,
\* from the user now to the user FirebaseAuth has; by are the issuers of writes.
RunsAs(s, ts, now, auth, by) ==
    /\ s[1] = now
    /\ s[Len(ts) + 1] = auth
    /\ \A i \in 1 .. Len(ts) :
          /\ s[i + 1] = IF IsUserTask(ts[i]) THEN ts[i].user ELSE s[i]
          /\ IsWriteTask(ts[i]) => by[ts[i].write] = s[i]
          /\ ts[i].task = "token" => ts[i].user = s[i]

TaskInv ==
    /\ \E s \in [1 .. Len(tasks) + 1 -> Users] : RunsAs(s, tasks, currentUser, authUser, issued)
    /\ IsOpen(remote) => remote.token = currentUser
    /\ \A u \in Users : \A i \in 1 .. Len(accepted[u]) :
          accepted[u][i] <= Len(issued) /\ issued[accepted[u][i]] = u

\* A write waits in the worker queue at most once, before it is accepted.
WriteTaskInv ==
    /\ \A i \in 1 .. Len(tasks) : IsWriteTask(tasks[i]) =>
          /\ tasks[i].write <= Len(issued)
          /\ \A u \in Users : \A k \in 1 .. Len(accepted[u]) : accepted[u][k] # tasks[i].write
    /\ \A i, j \in 1 .. Len(tasks) :
          IsWriteTask(tasks[i]) /\ IsWriteTask(tasks[j]) /\ tasks[i].write = tasks[j].write => i = j

AppliedInv ==
    /\ \A i \in 1 .. Len(log) : \E u \in Users : log[i] \in UpTo(accepted[u], Len(accepted[u]))
    /\ \A u \in Users : \A n \in 1 .. Len(queue[u]) :
          queue[u][n].write \in Range(log) =>
              \/ queue[u][n].write \in lost
              \/ u = currentUser /\ n <= UnreadCommits
    /\ \A n \in 1 .. UnreadCommits : remote.answers[n] \in Range(log)
    /\ remote.handshake /\ remote.status = Rejected =>
          queue[currentUser][Len(remote.answers) + 1].write \in refused

\* The writes that were told of, and those a wait answered for, are settled.
SettledInv ==
    /\ \A w \in Writes : outcome[w] = "rejected" => \E u \in Users : w \in UpTo(accepted[u], Answered(u))
    /\ \A w \in released : \E u \in Users : w \in UpTo(accepted[u], Answered(u))
    /\ \A x \in waits : \E i \in 1 .. Len(queue[currentUser]) :
          /\ queue[currentUser][i].id = x.id
          /\ x.writes \subseteq UpTo(accepted[currentUser], Answered(currentUser) + i)
    /\ \A u \in Users : callbacks[u] \subseteq Range(queue[u])

IInv ==
    /\ TypeOK
    /\ QueueInv
    /\ AcceptedOnce
    /\ StreamInv(remote, queue[currentUser])
    /\ RequestInv
    /\ TaskInv
    /\ WriteTaskInv
    /\ AppliedInv
    /\ SettledInv
    /\ TruthfulAnswers
    /\ OnceUnlessLost

----------------------------------------------------------------------------
\* Sequences, element by element.

LEMMA SubSeqFacts ==
    ASSUME NEW S, NEW s \in Seq(S), NEW m \in Nat \ {0}, NEW n \in Nat,
           n <= Len(s), m <= n + 1
    PROVE  /\ SubSeq(s, m, n) \in Seq(S)
           /\ Len(SubSeq(s, m, n)) = n - m + 1
           /\ \A i \in 1 .. n - m + 1 : SubSeq(s, m, n)[i] = s[m + i - 1]
OBVIOUS

\* The elements of a concatenation.
LEMMA ConcatFacts ==
    ASSUME NEW S, NEW s \in Seq(S), NEW t \in Seq(S)
    PROVE  /\ s \o t \in Seq(S)
           /\ Len(s \o t) = Len(s) + Len(t)
           /\ \A i \in 1 .. Len(s) : (s \o t)[i] = s[i]
           /\ \A i \in 1 .. Len(t) : (s \o t)[Len(s) + i] = t[i]
OBVIOUS

\* The elements of a sequence with one more.
LEMMA AppendFacts ==
    ASSUME NEW S, NEW s \in Seq(S), NEW e \in S
    PROVE  /\ Append(s, e) \in Seq(S)
           /\ Len(Append(s, e)) = Len(s) + 1
           /\ \A i \in 1 .. Len(s) : Append(s, e)[i] = s[i]
           /\ Append(s, e)[Len(s) + 1] = e
OBVIOUS

\* The elements of a sequence without its first.
LEMMA TailFacts ==
    ASSUME NEW S, NEW s \in Seq(S), s # <<>>
    PROVE  /\ Len(s) \in Nat /\ Len(s) > 0
           /\ Head(s) = s[1] /\ Head(s) \in S
           /\ Tail(s) \in Seq(S)
           /\ Len(Tail(s)) = Len(s) - 1
           /\ \A i \in 1 .. Len(s) - 1 : Tail(s)[i] = s[i + 1]
OBVIOUS

\* A function on 1 .. n is a sequence of length n.
LEMMA FunctionIsSeq ==
    ASSUME NEW S, NEW n \in Nat, NEW f \in [1 .. n -> S]
    PROVE  f \in Seq(S) /\ Len(f) = n
OBVIOUS

\* Sequences with the same elements are equal.
LEMMA SeqsEqual ==
    ASSUME NEW S, NEW s \in Seq(S), NEW t \in Seq(S), Len(s) = Len(t),
           \A i \in 1 .. Len(s) : s[i] = t[i]
    PROVE  s = t
OBVIOUS

----------------------------------------------------------------------------
\* The operators the stream is made of.

\* The smaller of two numbers.
LEMMA MinOfTwo ==
    ASSUME NEW a \in Int, NEW b \in Int
    PROVE  Min({a, b}) = IF a < b THEN a ELSE b
<1>1. \A x \in {a, b} : (\A y \in {a, b} : x =< y) => x = IF a < b THEN a ELSE b
  OBVIOUS
<1>2. \E x \in {a, b} : \A y \in {a, b} : x =< y
  OBVIOUS
<1> QED
  BY <1>1, <1>2 DEF Min

\* The least element of a set of numbers, when one is known.
LEMMA MinIs ==
    ASSUME NEW S \in SUBSET Int, NEW m \in S, \A y \in S : m =< y
    PROVE  Min(S) = m
<1>1. \A x \in S : (\A y \in S : x =< y) => x = m
  OBVIOUS
<1> QED
  BY <1>1 DEF Min

\* The fields of a batch.
LEMMA BatchFields ==
    ASSUME NEW q \in Seq(Batch), NEW i \in 1 .. Len(q)
    PROVE  q[i] \in Batch /\ q[i].id \in Nat \ {0} /\ q[i].write \in Writes
<1>1. q[i] \in Batch
  OBVIOUS
<1> QED
  BY <1>1 DEF Batch

\* How many messages the backend has taken, from the answers and the status.
LEMMA TakenFacts ==
    ASSUME NEW c \in RemoteStore
    PROVE  /\ Len(c.answers) \in Nat /\ Taken(c) \in Nat
           /\ c.status = "none" => Taken(c) = Len(c.answers)
           /\ c.status # "none" => Taken(c) = Len(c.answers) + 1
<1> DEFINE n == Len(c.answers)
<1>1. n \in Nat
  BY DEF RemoteStore
<1>2. Taken(c) = n + IF c.status = "none" THEN 0 ELSE 1
  BY DEF Taken
<1> HIDE DEF n
<1>3. CASE c.status = "none"
  BY <1>1, <1>2, <1>3 DEF n
<1>4. CASE c.status # "none"
  BY <1>1, <1>2, <1>4 DEF n
<1> QED
  BY <1>3, <1>4

\* In a queue with growing ids, what follows the id of batch number k are the
\* batches from number k + 1 on.
LEMMA NextBatches ==
    ASSUME NEW q \in Seq(Batch), Sorted(q), NEW k \in 0 .. Len(q),
           NEW id, id = IF k = 0 THEN -1 ELSE q[k].id
    PROVE  NextMutationBatches(q, id) = SubSeq(q, k + 1, Len(q))
<1> DEFINE after == {i \in DOMAIN q : q[i].id > id}
<1>1. \A i \in 1 .. Len(q) : q[i].id \in Nat \ {0}
  BY BatchFields
<1>2. after = (k + 1) .. Len(q)
  <2>1. \A i \in 1 .. Len(q) : q[i].id > id <=> i > k
    BY <1>1 DEF Sorted
  <2>2. DOMAIN q = 1 .. Len(q)
    OBVIOUS
  <2> QED
    BY <2>1, <2>2
<1>3. CASE k = Len(q)
  <2>1. SubSeq(q, k + 1, Len(q)) = <<>>
    BY <1>3
  <2> QED
    BY <1>2, <1>3, <2>1 DEF NextMutationBatches
<1>4. CASE k < Len(q)
  <2>1. k + 1 \in after /\ after \in SUBSET Int /\ \A y \in after : k + 1 =< y
    BY <1>2, <1>4
  <2> HIDE DEF after
  <2>2. Min(after) = k + 1
    BY <2>1, MinIs
  <2>3. NextMutationBatches(q, id) = IF after = {} THEN <<>> ELSE SubSeq(q, Min(after), Len(q))
    BY DEF NextMutationBatches, after
  <2> QED
    BY <2>1, <2>2, <2>3
<1> QED
  BY <1>3, <1>4

\* What FillWritePipeline makes of an enabled remote store c whose pipeline
\* holds the first k batches of queue q.
Filled(c, q, k, f) ==
    /\ f \in RemoteStore
    /\ f.enabled
    /\ HoldsFirst(f, q, Held(q))
    /\ f.handshake = c.handshake /\ f.token = c.token
    /\ f.answers = c.answers /\ f.status = c.status
    /\ ~(IsOpen(c) /\ c.handshake) => f.wire = c.wire
    /\ IsOpen(c) /\ c.handshake =>
           /\ Len(f.wire) = Len(c.wire) + Held(q) - k
           /\ \A i \in 1 .. Len(c.wire) : f.wire[i] = c.wire[i]
           /\ \A i \in 1 .. Held(q) - k : f.wire[Len(c.wire) + i] = q[k + i].write
    /\ f.idle => \/ c.idle /\ (k = Held(q) \/ ~(IsOpen(c) /\ c.handshake))
                 \/ IsOpen(c) /\ Held(q) = 0
    /\ IF IsStarted(c) \/ Held(q) = 0
       THEN f.state = c.state /\ f.asked = c.asked
       ELSE IF c.state = "Error"
            THEN f.state = "Backoff" /\ f.asked = c.asked
            ELSE f.state = "Starting" /\ f.asked = c.asked \cup {TRUE}

\* fillWritePipeline keeps the pipeline the front of the queue, as long as it may be.
LEMMA Fill ==
    ASSUME NEW c \in RemoteStore, c.enabled, NEW q \in Seq(Batch), Sorted(q),
           NEW k \in 0 .. Held(q), HoldsFirst(c, q, k)
    PROVE  Filled(c, q, k, FillWritePipeline(c, q))
<1> DEFINE f == FillWritePipeline(c, q)
<1> SUFFICES Filled(c, q, k, f)
  OBVIOUS
<1> DEFINE room == MaxPendingWrites - Len(c.pipeline)
           rest == NextMutationBatches(q, IF c.pipeline = <<>> THEN -1 ELSE Last(c.pipeline).id)
           new  == SubSeq(rest, 1, Min({room, Len(rest)}))
           full == [c EXCEPT !.pipeline = @ \o new]
           sent == IF IsOpen(c) /\ c.handshake THEN Write(full, WriteOf(new)) ELSE full
           idle == IF room > 0 /\ sent.pipeline = <<>> THEN MarkIdle(sent) ELSE sent
<1>0. /\ MaxPendingWrites \in Nat \ {0} /\ Held(q) \in Nat /\ Len(q) \in Nat
      /\ Held(q) <= Len(q) /\ Held(q) <= MaxPendingWrites
      /\ c.pipeline \in Seq(Batch) /\ Len(c.pipeline) = k /\ k \in Nat
  BY MaxPendingWritesAssumption DEF Held, HoldsFirst, RemoteStore
<1>1. rest = SubSeq(q, k + 1, Len(q))
  <2>1. (IF c.pipeline = <<>> THEN -1 ELSE Last(c.pipeline).id) = IF k = 0 THEN -1 ELSE q[k].id
    BY <1>0 DEF HoldsFirst, Last
  <2>2. k \in 0 .. Len(q)
    BY <1>0
  <2> QED
    BY <2>1, <2>2, NextBatches
<1>2. rest \in Seq(Batch) /\ Len(rest) = Len(q) - k /\ \A i \in 1 .. Len(q) - k : rest[i] = q[k + i]
  <2> HIDE DEF rest
  <2>1. /\ SubSeq(q, k + 1, Len(q)) \in Seq(Batch)
        /\ Len(SubSeq(q, k + 1, Len(q))) = Len(q) - (k + 1) + 1
        /\ \A i \in 1 .. Len(q) - (k + 1) + 1 : SubSeq(q, k + 1, Len(q))[i] = q[k + 1 + i - 1]
    BY <1>0, SubSeqFacts
  <2> QED
    BY <1>0, <1>1, <2>1
<1>3. Min({room, Len(rest)}) = Held(q) - k
  <2>1. room \in Int /\ Len(rest) \in Int
    BY <1>0, <1>2
  <2> HIDE DEF rest, room
  <2>2. Min({room, Len(rest)}) = IF room < Len(rest) THEN room ELSE Len(rest)
    BY <2>1, MinOfTwo
  <2> QED
    BY <2>2, <1>0, <1>2 DEF Held, room
<1>4. new \in Seq(Batch) /\ Len(new) = Held(q) - k /\ \A i \in 1 .. Held(q) - k : new[i] = q[k + i]
  <2> HIDE DEF rest, room
  <2> DEFINE n == Held(q) - k
  <2>1. n <= Len(rest) /\ n \in Nat /\ \A i \in 1 .. n : rest[i] = q[k + i]
    BY <1>0, <1>2
  <2>2. new = SubSeq(rest, 1, n)
    BY <1>3
  <2> HIDE DEF n, new
  <2>3. new \in Seq(Batch) /\ Len(new) = n - 1 + 1 /\ \A i \in 1 .. n - 1 + 1 : new[i] = rest[1 + i - 1]
    BY <1>2, <2>1, <2>2, SubSeqFacts
  <2>4. new \in Seq(Batch) /\ Len(new) = n /\ \A i \in 1 .. n : new[i] = q[k + i]
    <3>1. n - 1 + 1 = n /\ \A i \in 1 .. n : 1 + i - 1 = i
      BY <2>1
    <3>2. \A i \in 1 .. n : new[i] = rest[i]
      BY <2>3, <3>1
    <3> QED
      BY <2>1, <2>3, <3>1, <3>2
  <2> QED
    BY <2>4 DEF n
<1>5. f = StartIfNeeded(idle)
  BY DEF FillWritePipeline
<1> HIDE DEF rest, room, new, f
<1>6. /\ full \in RemoteStore
      /\ HoldsFirst(full, q, Held(q))
      /\ full.enabled = c.enabled /\ full.state = c.state /\ full.handshake = c.handshake
      /\ full.idle = c.idle /\ full.asked = c.asked /\ full.token = c.token
      /\ full.wire = c.wire /\ full.answers = c.answers /\ full.status = c.status
  <2> DEFINE both == c.pipeline \o new
  <2>0. /\ both \in Seq(Batch) /\ Len(both) = Len(c.pipeline) + Len(new)
        /\ \A i \in 1 .. Len(c.pipeline) : both[i] = c.pipeline[i]
        /\ \A i \in 1 .. Len(new) : both[Len(c.pipeline) + i] = new[i]
    <3>1. c.pipeline \in Seq(Batch) /\ new \in Seq(Batch)
      BY <1>0, <1>4
    <3> QED
      BY <3>1, ConcatFacts
  <2>f. full = [c EXCEPT !.pipeline = both]
    OBVIOUS
  <2> HIDE DEF both, full
  <2>3. full = [c EXCEPT !.pipeline = both] /\ full.pipeline = both
    BY <2>f DEF RemoteStore
  <2>1. both \in Seq(Batch) /\ Len(both) = Held(q)
    BY <1>0, <1>4, <2>0
  <2>2. \A i \in 1 .. Held(q) : both[i] = q[i]
    <3> SUFFICES ASSUME NEW i \in 1 .. Held(q) PROVE both[i] = q[i]
      OBVIOUS
    <3>1. CASE i <= k
      BY <3>1, <2>0, <1>0 DEF HoldsFirst
    <3>2. CASE i > k
      <4>1. i - k \in 1 .. Held(q) - k /\ k + (i - k) = i
        BY <3>2, <1>0
      <4>2. both[k + (i - k)] = new[i - k]
        BY <4>1, <2>0, <1>0, <1>4
      <4> QED
        BY <4>1, <4>2, <1>4
    <3> QED
      BY <3>1, <3>2, <1>0
  <2>4. full \in RemoteStore
    BY <2>1, <2>3 DEF RemoteStore
  <2>5. HoldsFirst(full, q, Held(q))
    BY <2>1, <2>2, <2>3 DEF HoldsFirst
  <2> QED
    BY <2>3, <2>4, <2>5 DEF RemoteStore
<1>s. sent = IF IsOpen(c) /\ c.handshake THEN Write(full, WriteOf(new)) ELSE full
  OBVIOUS
<1>i. idle = IF room > 0 /\ sent.pipeline = <<>> THEN MarkIdle(sent) ELSE sent
  OBVIOUS
<1> HIDE DEF full, sent, idle
<1>7. /\ sent \in RemoteStore
      /\ HoldsFirst(sent, q, Held(q))
      /\ sent.enabled = c.enabled /\ sent.state = c.state /\ sent.handshake = c.handshake
      /\ sent.asked = c.asked /\ sent.token = c.token
      /\ sent.answers = c.answers /\ sent.status = c.status
      /\ sent.idle => c.idle /\ (k = Held(q) \/ ~(IsOpen(c) /\ c.handshake))
      /\ ~(IsOpen(c) /\ c.handshake) => sent.wire = c.wire
      /\ IsOpen(c) /\ c.handshake =>
            /\ Len(sent.wire) = Len(c.wire) + Held(q) - k
            /\ \A i \in 1 .. Len(c.wire) : sent.wire[i] = c.wire[i]
            /\ \A i \in 1 .. Held(q) - k : sent.wire[Len(c.wire) + i] = q[k + i].write
  <2>1. CASE ~(IsOpen(c) /\ c.handshake)
    BY <1>s, <1>6, <2>1
  <2>2. CASE IsOpen(c) /\ c.handshake
    <3> DEFINE m == WriteOf(new)
    <3>1. /\ m \in Seq(Wire) /\ Len(m) = Held(q) - k
          /\ \A i \in 1 .. Held(q) - k : m[i] = q[k + i].write
      <4>1. \A i \in 1 .. Held(q) - k : new[i].write \in Writes
        BY <1>4, BatchFields
      <4>2. m = [i \in 1 .. Held(q) - k |-> new[i].write]
        BY <1>4, <1>0 DEF WriteOf
      <4>3. m \in [1 .. Held(q) - k -> Wire]
        BY <4>1, <4>2 DEF Wire
      <4>4. Held(q) - k \in Nat
        BY <1>0
      <4> HIDE DEF m
      <4>5. m \in Seq(Wire) /\ Len(m) = Held(q) - k
        BY <4>3, <4>4, FunctionIsSeq
      <4>6. \A i \in 1 .. Held(q) - k : m[i] = q[k + i].write
        BY <4>2, <1>4
      <4> QED
        BY <4>5, <4>6
    <3>2. sent = Write(full, m)
      BY <1>s, <2>2
    <3> HIDE DEF m
    <3>3. full.wire \in Seq(Wire)
      BY <1>6 DEF RemoteStore
    <3>4. CASE m = <<>>
      <4>1. Held(q) = k
        BY <3>1, <3>4, <1>0
      <4>2. sent = full
        BY <3>2, <3>4 DEF Write
      <4>3. Len(c.wire) \in Nat
        BY <3>3, <1>6
      <4> QED
        BY <4>1, <4>2, <4>3, <1>6, <1>0, <2>2
    <3>5. CASE m # <<>>
      <4>1. sent = [full EXCEPT !.wire = @ \o m, !.idle = FALSE]
        BY <3>2, <3>5 DEF Write
      <4> DEFINE both == full.wire \o m
      <4>2. /\ both \in Seq(Wire) /\ Len(both) = Len(c.wire) + Held(q) - k
            /\ \A i \in 1 .. Len(c.wire) : both[i] = c.wire[i]
            /\ \A i \in 1 .. Held(q) - k : both[Len(c.wire) + i] = q[k + i].write
        <5>0. m \in Seq(Wire)
          BY <3>1
        <5>1. /\ both \in Seq(Wire) /\ Len(both) = Len(full.wire) + Len(m)
              /\ \A i \in 1 .. Len(full.wire) : both[i] = full.wire[i]
              /\ \A i \in 1 .. Len(m) : both[Len(full.wire) + i] = m[i]
          BY <5>0, <3>3, ConcatFacts
        <5>2. full.wire = c.wire /\ Len(c.wire) \in Nat
          BY <1>6, <3>3
        <5> HIDE DEF both
        <5>3. Len(both) = Len(c.wire) + Held(q) - k
          BY <5>1, <5>2, <3>1, <1>0
        <5>4. \A i \in 1 .. Held(q) - k : both[Len(c.wire) + i] = q[k + i].write
          BY <5>1, <5>2, <3>1
        <5> QED
          BY <5>1, <5>2, <5>3, <5>4
      <4>3. /\ sent \in RemoteStore /\ sent.wire = both /\ sent.idle = FALSE
            /\ sent.pipeline = full.pipeline
            /\ sent.enabled = full.enabled /\ sent.state = full.state
            /\ sent.handshake = full.handshake /\ sent.asked = full.asked
            /\ sent.token = full.token /\ sent.answers = full.answers /\ sent.status = full.status
        <5> HIDE DEF both
        <5>1. sent = [full EXCEPT !.wire = both, !.idle = FALSE]
          BY <4>1 DEF both
        <5> QED
          BY <5>1, <4>2, <1>6 DEF RemoteStore
      <4> HIDE DEF both
      <4>4. HoldsFirst(sent, q, Held(q))
        BY <4>3, <1>6 DEF HoldsFirst
      <4> QED
        BY <4>2, <4>3, <4>4, <1>6, <2>2
    <3> QED
      BY <3>4, <3>5
  <2> QED
    BY <2>1, <2>2
<1>8. /\ idle \in RemoteStore
      /\ idle.pipeline = sent.pipeline
      /\ idle.enabled = c.enabled /\ idle.state = c.state /\ idle.handshake = c.handshake
      /\ idle.asked = c.asked /\ idle.token = c.token /\ idle.wire = sent.wire
      /\ idle.answers = c.answers /\ idle.status = c.status
      /\ idle.idle => sent.idle \/ (IsOpen(c) /\ Held(q) = 0)
  <2>1. CASE room > 0 /\ sent.pipeline = <<>>
    <3>1. idle = [sent EXCEPT !.idle = @ \/ IsOpen(sent)] /\ Held(q) = 0 /\ (IsOpen(sent) <=> IsOpen(c))
      BY <1>i, <2>1, <1>7 DEF MarkIdle, IsOpen, HoldsFirst
    <3> QED
      BY <3>1, <1>7 DEF RemoteStore, IsOpen
  <2>2. CASE ~(room > 0 /\ sent.pipeline = <<>>)
    <3>1. idle = sent
      BY <1>i, <2>2
    <3> QED
      BY <3>1, <1>7
  <2> QED
    BY <2>1, <2>2
<1>9. HoldsFirst(idle, q, Held(q))
  BY <1>7, <1>8 DEF HoldsFirst
<1>10. ShouldStartWriteStream(idle) <=> ~IsStarted(c) /\ Held(q) # 0
  BY <1>8, <1>9, <1>0 DEF ShouldStartWriteStream, IsStarted, HoldsFirst, RemoteStore
<1>11. CASE ~ShouldStartWriteStream(idle)
  <2>1. f = idle
    BY <1>5, <1>11 DEF StartIfNeeded
  <2> QED
    BY <2>1, <1>7, <1>8, <1>9, <1>10, <1>11 DEF Filled
<1>12. CASE ShouldStartWriteStream(idle)
  <2>1. f = Start(idle)
    BY <1>5, <1>12 DEF StartIfNeeded
  <2>2. CASE c.state = "Error"
    <3>1. f = [idle EXCEPT !.state = "Backoff"]
      BY <2>1, <2>2, <1>8 DEF Start
    <3>2. /\ f \in RemoteStore /\ f.state = "Backoff" /\ f.pipeline = idle.pipeline
          /\ f.enabled = idle.enabled /\ f.handshake = idle.handshake /\ f.idle = idle.idle
          /\ f.asked = idle.asked /\ f.token = idle.token /\ f.wire = idle.wire
          /\ f.answers = idle.answers /\ f.status = idle.status
      BY <3>1, <1>8 DEF RemoteStore
    <3>3. HoldsFirst(f, q, Held(q))
      BY <3>2, <1>9 DEF HoldsFirst
    <3> QED
      BY <3>2, <3>3, <2>2, <1>7, <1>8, <1>10, <1>12 DEF Filled
  <2>3. CASE c.state # "Error"
    <3>1. f = [idle EXCEPT !.state = "Starting", !.asked = @ \cup {TRUE}]
      BY <2>1, <2>3, <1>8 DEF Start
    <3>2. /\ f \in RemoteStore /\ f.state = "Starting" /\ f.pipeline = idle.pipeline
          /\ f.enabled = idle.enabled /\ f.handshake = idle.handshake /\ f.idle = idle.idle
          /\ f.asked = idle.asked \cup {TRUE} /\ f.token = idle.token /\ f.wire = idle.wire
          /\ f.answers = idle.answers /\ f.status = idle.status
      <4>1. idle.asked \in SUBSET BOOLEAN
        BY <1>8 DEF RemoteStore
      <4>2. idle.asked \cup {TRUE} \in SUBSET BOOLEAN
        BY <4>1
      <4> QED
        BY <3>1, <4>2, <1>8 DEF RemoteStore
    <3>3. HoldsFirst(f, q, Held(q))
      BY <3>2, <1>9 DEF HoldsFirst
    <3> QED
      BY <3>2, <3>3, <2>3, <1>7, <1>8, <1>10, <1>12 DEF Filled
  <2> QED
    BY <2>2, <2>3
<1> QED
  BY <1>11, <1>12

\* Nothing is connected or about to be.
Closed(c) == ~IsStarted(c) /\ Quiet(c) /\ TRUE \notin c.asked

\* g is c with queue q, enabled and perhaps starting.
Ready(c, q, g) ==
    /\ g \in RemoteStore
    /\ StreamInv(g, q)
    /\ g.enabled /\ g.token = c.token /\ g.answers = <<>>
    /\ ~g.handshake /\ ~IsOpen(g)

\* FillWritePipeline on a closed stream starts it if there is something to
\* send; the handshake flag may still be that of the stream before.
LEMMA Refill ==
    ASSUME NEW c \in RemoteStore, c.enabled, Closed(c), NEW q \in Seq(Batch), Sorted(q),
           NEW k \in 0 .. Held(q), HoldsFirst(c, q, k)
    PROVE  /\ Ready(c, q, [FillWritePipeline(c, q) EXCEPT !.handshake = FALSE])
           /\ StartIfNeeded(FillWritePipeline(c, q)) = FillWritePipeline(c, q)
           /\ ~c.handshake => Ready(c, q, FillWritePipeline(c, q))
<1> DEFINE f == FillWritePipeline(c, q)
           g == [f EXCEPT !.handshake = FALSE]
<1>1. ~IsOpen(c) /\ ~IsStarted(c) /\ Quiet(c) /\ TRUE \notin c.asked
  BY DEF Closed, IsOpen, IsStarted
<1>2. /\ f \in RemoteStore
      /\ f.enabled
      /\ HoldsFirst(f, q, Held(q))
      /\ f.handshake = c.handshake /\ f.token = c.token
      /\ f.answers = c.answers /\ f.status = c.status /\ f.wire = c.wire
      /\ ~f.idle
      /\ IF Held(q) = 0
         THEN f.state = c.state /\ f.asked = c.asked
         ELSE IF c.state = "Error"
              THEN f.state = "Backoff" /\ f.asked = c.asked
              ELSE f.state = "Starting" /\ f.asked = c.asked \cup {TRUE}
  <2>1. Filled(c, q, k, f)
    BY Fill
  <2> HIDE DEF f
  <2> QED
    BY <2>1, <1>1 DEF Filled, Quiet
<1> HIDE DEF f
<1>3. /\ g \in RemoteStore /\ ~g.handshake
      /\ g.enabled = f.enabled /\ g.pipeline = f.pipeline /\ g.state = f.state /\ g.idle = f.idle
      /\ g.asked = f.asked /\ g.token = f.token /\ g.wire = f.wire /\ g.answers = f.answers
      /\ g.status = f.status
  BY <1>2 DEF RemoteStore
<1>f. ~c.handshake => f = g
  BY <1>2 DEF RemoteStore
<1> HIDE DEF g
<1>4. ~IsOpen(g) /\ Quiet(g)
  BY <1>1, <1>2, <1>3 DEF IsOpen, Quiet
<1>5. HoldsFirst(g, q, Held(q)) /\ Len(g.pipeline) = Held(q) /\ Held(q) \in Nat
  BY <1>2, <1>3 DEF HoldsFirst
<1>6. IsStarted(g) => Len(g.pipeline) > 0
  <2>1. Held(q) = 0 => ~IsStarted(g)
    BY <1>1, <1>2, <1>3 DEF IsStarted
  <2> QED
    BY <2>1, <1>5
<1>7. TRUE \in g.asked => g.state = "Starting"
  BY <1>1, <1>2, <1>3
<1>8. StreamInv(g, q)
  BY <1>2, <1>3, <1>4, <1>5, <1>6, <1>7 DEF StreamInv, StreamShape
<1>9. StartIfNeeded(f) = f
  <2>1. Held(q) = 0 => f.pipeline = <<>>
    BY <1>2 DEF HoldsFirst, RemoteStore
  <2>2. Held(q) # 0 => IsStarted(f)
    BY <1>2 DEF IsStarted
  <2> QED
    BY <2>1, <2>2 DEF StartIfNeeded, ShouldStartWriteStream
<1>10. Ready(c, q, g)
  BY <1>1, <1>2, <1>3, <1>4, <1>8 DEF Ready, Quiet
<1> QED
  BY <1>9, <1>10, <1>f DEF f, g

\* d is c without its call.
Cut(c, d) ==
    /\ d \in RemoteStore
    /\ Quiet(d) /\ TRUE \notin d.asked
    /\ d.enabled = c.enabled /\ d.pipeline = c.pipeline /\ d.state = c.state
    /\ d.handshake = c.handshake /\ d.token = c.token

\* disconnected is a way of cutting the stream.
LEMMA DisconnectedCuts ==
    ASSUME NEW c \in RemoteStore
    PROVE  Cut(c, Disconnected(c))
<1> DEFINE was == IF c.asked = {} THEN {} ELSE {FALSE}
           a == [c EXCEPT !.idle = FALSE, !.asked = was]
           d == [a EXCEPT !.wire = <<>>, !.answers = <<>>, !.status = "none"]
<1>1. was \in SUBSET BOOLEAN /\ TRUE \notin was /\ <<>> \in Seq(Wire)
  <2>1. was = {} \/ was = {FALSE}
    OBVIOUS
  <2> HIDE DEF was
  <2>2. was \in SUBSET BOOLEAN /\ TRUE \notin was
    BY <2>1
  <2>3. <<>> \in Seq(Wire)
    OBVIOUS
  <2> QED
    BY <2>2, <2>3
<1>2. Disconnected(c) = d
  BY DEF Disconnected, RemoteStore
<1> HIDE DEF was
<1>3. /\ a \in RemoteStore /\ a.idle = FALSE /\ a.asked = was
      /\ a.enabled = c.enabled /\ a.pipeline = c.pipeline /\ a.state = c.state
      /\ a.handshake = c.handshake /\ a.token = c.token
  BY <1>1 DEF RemoteStore
<1> HIDE DEF a
<1>4. /\ d \in RemoteStore /\ d.wire = <<>> /\ d.answers = <<>> /\ d.status = "none"
      /\ d.idle = a.idle /\ d.asked = a.asked
      /\ d.enabled = a.enabled /\ d.pipeline = a.pipeline /\ d.state = a.state
      /\ d.handshake = a.handshake /\ d.token = a.token
  BY <1>1, <1>3 DEF RemoteStore
<1> HIDE DEF d
<1> QED
  BY <1>1, <1>2, <1>3, <1>4 DEF Cut, Quiet

\* Stop leaves a closed stream with its pipeline.
LEMMA Stopped ==
    ASSUME NEW c \in RemoteStore, NEW q, StreamInv(c, q)
    PROVE  /\ Stop(c) \in RemoteStore /\ Closed(Stop(c)) /\ ~Stop(c).handshake
           /\ Stop(c).enabled = c.enabled /\ Stop(c).pipeline = c.pipeline
           /\ Stop(c).token = c.token /\ Stop(c).answers = <<>>
<1>1. CASE IsStarted(c)
  <2> DEFINE d == Disconnected(c)
  <2>1. Cut(c, d)
    BY DisconnectedCuts
  <2>2. Stop(c) = [d EXCEPT !.state = "Initial", !.handshake = FALSE]
    BY <1>1 DEF Stop
  <2> HIDE DEF d
  <2>3. d \in RemoteStore
    BY <2>1 DEF Cut
  <2>4. /\ Stop(c) \in RemoteStore /\ Stop(c).asked = d.asked /\ Stop(c).state = "Initial"
        /\ Stop(c).wire = d.wire /\ Stop(c).answers = d.answers /\ Stop(c).status = d.status
        /\ Stop(c).idle = d.idle /\ Stop(c).handshake = FALSE /\ Stop(c).enabled = d.enabled
        /\ Stop(c).pipeline = d.pipeline /\ Stop(c).token = d.token
    BY <2>2, <2>3 DEF RemoteStore
  <2> QED
    BY <2>1, <2>4 DEF Closed, Cut, Quiet, IsStarted
<1>2. CASE ~IsStarted(c)
  <2>1. Stop(c) = c
    BY <1>2 DEF Stop
  <2>2. c.state # "Open" /\ c.state # "Starting"
    BY <1>2 DEF IsStarted
  <2>3. ~c.handshake /\ TRUE \notin c.asked /\ Quiet(c)
    BY <2>2 DEF StreamInv, StreamShape, IsOpen
  <2> QED
    BY <1>2, <2>1, <2>3 DEF Closed, Quiet
<1> QED
  BY <1>1, <1>2

\* DisableNetworkInternal leaves a closed stream with an empty pipeline, and
\* so the stream as it should be while the network is disabled.
LEMMA Disabled ==
    ASSUME NEW c \in RemoteStore, NEW q, StreamInv(c, q), NEW d, d = DisableNetworkInternal(c)
    PROVE  /\ d \in RemoteStore /\ Closed(d) /\ ~d.handshake /\ ~d.enabled
           /\ d.pipeline = <<>> /\ d.token = c.token /\ d.answers = <<>>
           /\ \A r : StreamInv(d, r)
<1> DEFINE e == [c EXCEPT !.enabled = FALSE]
<1> DEFINE s == Stop(c)
<1>1. /\ s \in RemoteStore /\ Closed(s) /\ ~s.handshake
      /\ s.token = c.token /\ s.answers = <<>>
  BY Stopped
<1>2. d = [s EXCEPT !.enabled = FALSE, !.pipeline = <<>>]
  <2>1. d = [Stop(e) EXCEPT !.pipeline = <<>>]
    BY DEF DisableNetworkInternal
  <2>2. IsStarted(e) <=> IsStarted(c)
    BY DEF IsStarted, RemoteStore
  <2>3. CASE ~IsStarted(c)
    BY <2>1, <2>2, <2>3 DEF Stop, RemoteStore
  <2>4. CASE IsStarted(c)
    BY <2>1, <2>2, <2>4 DEF Stop, Disconnected, RemoteStore
  <2> QED
    BY <2>3, <2>4
<1> HIDE DEF s
<1>3. <<>> \in Seq(Batch) /\ Len(<<>>) = 0
  OBVIOUS
<1>4. /\ d \in RemoteStore /\ d.enabled = FALSE /\ d.pipeline = <<>> /\ d.state = s.state
      /\ d.handshake = s.handshake /\ d.idle = s.idle /\ d.asked = s.asked /\ d.token = s.token
      /\ d.wire = s.wire /\ d.answers = s.answers /\ d.status = s.status
  BY <1>1, <1>2, <1>3 DEF RemoteStore
<1>5. Closed(d) /\ ~IsOpen(d) /\ ~IsStarted(d)
  BY <1>1, <1>4 DEF Closed, Quiet, IsStarted, IsOpen
<1>6. ASSUME NEW r PROVE StreamInv(d, r)
  <2>1. HoldsFirst(d, r, 0)
    BY <1>3, <1>4 DEF HoldsFirst
  <2> QED
    BY <2>1, <1>1, <1>4, <1>5 DEF StreamInv, StreamShape, Closed, Quiet
<1> QED
  BY <1>1, <1>4, <1>5, <1>6

\* EnableNetwork on a closed stream with an empty pipeline.
LEMMA Enabled ==
    ASSUME NEW c \in RemoteStore, Closed(c), ~c.handshake, c.pipeline = <<>>,
           NEW q \in Seq(Batch), Sorted(q)
    PROVE  Ready(c, q, EnableNetwork(c, q))
<1> DEFINE e == [c EXCEPT !.enabled = TRUE]
<1>1. /\ e \in RemoteStore /\ e.enabled /\ e.pipeline = c.pipeline /\ e.state = c.state
      /\ e.handshake = c.handshake /\ e.idle = c.idle /\ e.asked = c.asked /\ e.token = c.token
      /\ e.wire = c.wire /\ e.answers = c.answers /\ e.status = c.status
  BY DEF RemoteStore
<1>2. EnableNetwork(c, q) = FillWritePipeline(e, q)
  BY DEF EnableNetwork
<1> HIDE DEF e
<1>3. Closed(e)
  BY <1>1 DEF Closed, Quiet, IsStarted
<1>4. HoldsFirst(e, q, 0) /\ 0 \in 0 .. Held(q)
  BY <1>1, MaxPendingWritesAssumption DEF HoldsFirst, Held
<1>5. e \in RemoteStore /\ e.enabled /\ ~e.handshake
  BY <1>1
<1>6. Ready(e, q, FillWritePipeline(e, q))
  BY <1>3, <1>4, <1>5, Refill
<1> QED
  BY <1>1, <1>2, <1>6 DEF Ready

\* RestartNetwork, with another queue perhaps.
LEMMA Restarted ==
    ASSUME NEW c \in RemoteStore, NEW old, StreamInv(c, old),
           NEW q \in Seq(Batch), Sorted(q)
    PROVE  Ready(c, q, RestartNetwork(c, q))
<1> DEFINE d == DisableNetworkInternal(c)
           b == InhibitBackoff(d)
<1>1. /\ d \in RemoteStore /\ Closed(d) /\ ~d.handshake
      /\ d.pipeline = <<>> /\ d.token = c.token
  BY Disabled
<1>2. RestartNetwork(c, q) = EnableNetwork(b, q) /\ b = [d EXCEPT !.state = "Initial"]
  BY DEF RestartNetwork, InhibitBackoff
<1> HIDE DEF d, b
<1>3. /\ b \in RemoteStore /\ b.state = "Initial" /\ b.pipeline = d.pipeline
      /\ b.handshake = d.handshake /\ b.idle = d.idle /\ b.asked = d.asked /\ b.token = d.token
      /\ b.wire = d.wire /\ b.answers = d.answers /\ b.status = d.status
  BY <1>1, <1>2 DEF RemoteStore
<1>4. Closed(b)
  BY <1>1, <1>3 DEF Closed, Quiet, IsStarted
<1>5. b \in RemoteStore /\ ~b.handshake /\ b.pipeline = <<>> /\ b.token = c.token
  BY <1>1, <1>3
<1>6. Ready(b, q, EnableNetwork(b, q))
  BY <1>4, <1>5, Enabled
<1> QED
  BY <1>2, <1>5, <1>6 DEF Ready

\* Closing with an error that is not the fault of a write: the stream waits to
\* start again if there is something to send.
LEMMA ClosedAnew ==
    ASSUME NEW c \in RemoteStore, NEW q, StreamInv(c, q), IsStarted(c),
           NEW status, ~HandleWriteError(c, status), NEW r
    PROVE  Ready(c, q, CloseWithError(c, status, r))
<1> DEFINE d == Disconnected(c)
           e == [d EXCEPT !.state = "Error"]
           g == CloseWithError(c, status, r)
<1> SUFFICES Ready(c, q, g)
  OBVIOUS
<1>1. Cut(c, d)
  BY DisconnectedCuts
<1>2. g = [StartIfNeeded(e) EXCEPT !.handshake = FALSE]
  BY DEF CloseWithError
<1> HIDE DEF d, g
<1>3. /\ e \in RemoteStore /\ e.state = "Error" /\ Quiet(e) /\ TRUE \notin e.asked
      /\ e.enabled = c.enabled /\ e.pipeline = c.pipeline
      /\ e.token = c.token
  BY <1>1 DEF Cut, RemoteStore, Quiet
<1> HIDE DEF e
<1>4. c.enabled /\ HoldsFirst(c, q, Held(q)) /\ Held(q) \in Nat
  BY DEF StreamInv, StreamShape, HoldsFirst, RemoteStore
<1>5. CASE c.pipeline = <<>>
  <2>1. g = [e EXCEPT !.handshake = FALSE]
    BY <1>2, <1>3, <1>5 DEF StartIfNeeded, ShouldStartWriteStream
  <2>2. /\ g \in RemoteStore /\ g.state = "Error" /\ Quiet(g) /\ TRUE \notin g.asked
        /\ g.enabled = c.enabled /\ g.pipeline = c.pipeline /\ g.token = c.token
        /\ ~g.handshake /\ g.answers = <<>>
    BY <2>1, <1>3 DEF RemoteStore, Quiet
  <2>3. ~IsStarted(g) /\ ~IsOpen(g) /\ ~g.idle
    BY <2>2 DEF IsStarted, IsOpen, Quiet
  <2>4. HoldsFirst(g, q, Held(q))
    BY <2>2, <1>4 DEF HoldsFirst
  <2> QED
    BY <2>2, <2>3, <2>4, <1>4 DEF Ready, StreamInv, StreamShape
<1>6. CASE c.pipeline # <<>>
  <2>1. g = [e EXCEPT !.state = "Backoff", !.handshake = FALSE]
    BY <1>2, <1>3, <1>4, <1>6 DEF StartIfNeeded, ShouldStartWriteStream, IsStarted, Start
  <2>2. /\ g \in RemoteStore /\ g.state = "Backoff" /\ Quiet(g) /\ TRUE \notin g.asked
        /\ g.enabled = c.enabled /\ g.pipeline = c.pipeline /\ g.token = c.token
        /\ ~g.handshake /\ g.answers = <<>>
    BY <2>1, <1>3 DEF RemoteStore, Quiet
  <2>3. ~IsOpen(g) /\ ~g.idle
    BY <2>2 DEF IsOpen, Quiet
  <2>4. HoldsFirst(g, q, Held(q))
    BY <2>2, <1>4 DEF HoldsFirst
  <2>5. Len(g.pipeline) > 0
    <3>1. c.pipeline \in Seq(Batch)
      BY DEF RemoteStore
    <3> QED
      BY <3>1, <2>2, <1>6
  <2> QED
    BY <2>2, <2>3, <2>4, <2>5, <1>4 DEF Ready, StreamInv, StreamShape
<1> QED
  BY <1>5, <1>6

\* Closing with an error that is: the front of the pipeline is dropped, and
\* of the queue, and the stream started at once for what is left.
LEMMA ClosedOverWrite ==
    ASSUME NEW c \in RemoteStore, NEW q \in Seq(Batch), StreamInv(c, q), IsStarted(c),
           NEW status, HandleWriteError(c, status),
           NEW r \in Seq(Batch), Sorted(r), Len(r) = Len(q) - 1,
           \A i \in 1 .. Len(r) : r[i] = q[i + 1]
    PROVE  Ready(c, r, CloseWithError(c, status, r))
<1> DEFINE d == Disconnected(c)
           e == [d EXCEPT !.state = "Error"]
           t == [InhibitBackoff(e) EXCEPT !.pipeline = Tail(@)]
           f == FillWritePipeline(t, r)
           g == CloseWithError(c, status, r)
<1>1. Cut(c, d)
  BY DisconnectedCuts
<1>2. g = [StartIfNeeded(f) EXCEPT !.handshake = FALSE]
  BY DEF CloseWithError
<1>3. c.enabled /\ HoldsFirst(c, q, Held(q)) /\ Held(q) \in Nat /\ c.pipeline \in Seq(Batch)
  BY DEF StreamInv, StreamShape, HoldsFirst, RemoteStore
<1>4. c.pipeline # <<>>
  BY DEF HandleWriteError
<1> DEFINE rest == Tail(c.pipeline)
<1>5. /\ rest \in Seq(Batch) /\ Len(rest) = Held(q) - 1 /\ Held(q) > 0
      /\ \A i \in 1 .. Held(q) - 1 : rest[i] = c.pipeline[i + 1]
  BY <1>3, <1>4, TailFacts DEF HoldsFirst
<1> HIDE DEF d, f, g, rest
<1>6. t = [d EXCEPT !.state = "Initial", !.pipeline = rest]
  <2>1. d \in RemoteStore /\ d.pipeline = c.pipeline
    BY <1>1 DEF Cut
  <2> QED
    BY <2>1 DEF InhibitBackoff, RemoteStore, rest
<1> HIDE DEF t
<1>7. /\ t \in RemoteStore /\ t.state = "Initial" /\ Quiet(t) /\ TRUE \notin t.asked
      /\ t.enabled /\ t.pipeline = rest /\ t.token = c.token
  BY <1>1, <1>3, <1>5, <1>6 DEF Cut, RemoteStore, Quiet
<1>8. Closed(t)
  BY <1>7 DEF Closed, IsStarted
<1>9. Held(q) - 1 \in 0 .. Held(r) /\ HoldsFirst(t, r, Held(q) - 1)
  <2>1. Held(q) - 1 \in 0 .. Held(r) /\ Held(q) - 1 <= Len(r)
    BY <1>5, <1>3, MaxPendingWritesAssumption DEF Held
  <2>2. ASSUME NEW i \in 1 .. Held(q) - 1 PROVE rest[i] = r[i]
    <3>1. i + 1 \in 1 .. Held(q) /\ i \in 1 .. Len(r)
      BY <2>1, <1>3
    <3>2. rest[i] = c.pipeline[i + 1] /\ c.pipeline[i + 1] = q[i + 1] /\ r[i] = q[i + 1]
      BY <3>1, <1>3, <1>5 DEF HoldsFirst
    <3> QED
      BY <3>2
  <2> QED
    BY <2>1, <2>2, <1>5, <1>7 DEF HoldsFirst
<1>10. Ready(t, r, [f EXCEPT !.handshake = FALSE]) /\ StartIfNeeded(f) = f
  BY <1>7, <1>8, <1>9, Refill DEF f
<1> QED
  BY <1>2, <1>7, <1>10 DEF Ready, g

\* FillWritePipeline does nothing while the network is disabled.
LEMMA FillDisabled ==
    ASSUME NEW c \in RemoteStore, ~c.enabled, StreamShape(c), c.pipeline = <<>>,
           NEW q \in Seq(Batch), Sorted(q)
    PROVE  FillWritePipeline(c, q) = c
<1> DEFINE rest == NextMutationBatches(q, IF c.pipeline = <<>> THEN -1 ELSE Last(c.pipeline).id)
           new  == SubSeq(rest, 1, Min({0, Len(rest)}))
           full == [c EXCEPT !.pipeline = @ \o new]
<1>1. rest = SubSeq(q, 1, Len(q))
  <2>1. 0 \in 0 .. Len(q) /\ -1 = IF 0 = 0 THEN -1 ELSE q[0].id
    OBVIOUS
  <2>2. NextMutationBatches(q, -1) = SubSeq(q, 0 + 1, Len(q))
    BY <2>1, NextBatches
  <2> QED
    BY <2>2
<1>2. Len(rest) \in Nat
  BY <1>1
<1> HIDE DEF rest
<1>3. new = <<>>
  <2>1. Min({0, Len(rest)}) = 0
    BY <1>2, MinOfTwo
  <2> QED
    BY <2>1
<1>4. full = c
  <2> HIDE DEF new
  <2>1. c.pipeline \o new = c.pipeline
    BY <1>3
  <2> QED
    BY <2>1 DEF RemoteStore
<1>5. ~IsOpen(c)
  BY DEF StreamShape, IsStarted, IsOpen
<1>6. FillWritePipeline(c, q) = StartIfNeeded(full)
  BY <1>4, <1>5 DEF FillWritePipeline, rest
<1> QED
  BY <1>4, <1>6 DEF StartIfNeeded, ShouldStartWriteStream

\* FillWritePipeline completes the pipeline, and what it puts on the wire
\* keeps it lined up.
LEMMA FillKeeps ==
    ASSUME NEW c \in RemoteStore, c.enabled, StreamShape(c),
           NEW q \in Seq(Batch), Sorted(q), NEW k \in 0 .. Held(q), HoldsFirst(c, q, k)
    PROVE  /\ Filled(c, q, k, FillWritePipeline(c, q))
           /\ StreamInv(FillWritePipeline(c, q), q)
<1> DEFINE f == FillWritePipeline(c, q)
<1>1. Filled(c, q, k, f)
  BY Fill
<1> HIDE DEF f
<1>2. /\ f \in RemoteStore /\ f.enabled /\ Len(f.pipeline) = Held(q) /\ Held(q) \in Nat
      /\ Len(c.pipeline) = k /\ k \in Nat /\ k <= Held(q)
      /\ HoldsFirst(f, q, Held(q)) /\ f.handshake = c.handshake
      /\ f.answers = c.answers /\ f.status = c.status
      /\ c.wire \in Seq(Wire) /\ c.answers \in Seq(Wire)
  BY <1>1 DEF Filled, HoldsFirst, RemoteStore
<1>3. CASE ~IsStarted(c)
  <2>1. Closed(c) /\ ~c.handshake
    BY <1>3 DEF Closed, StreamShape, IsStarted, IsOpen
  <2> QED
    BY <2>1, <1>1, Refill DEF Ready, f
<1>4. CASE IsStarted(c) /\ ~c.handshake
  <2>1. /\ f.state = c.state /\ f.asked = c.asked /\ f.wire = c.wire
        /\ Len(c.pipeline) > 0 /\ ~c.idle
    BY <1>1, <1>4 DEF Filled, StreamShape
  <2>2. ~f.idle /\ Len(f.pipeline) > 0
    BY <1>1, <1>2, <2>1 DEF Filled
  <2>3. ~IsOpen(f) => Quiet(f)
    BY <2>1, <2>2, <1>2 DEF StreamShape, Quiet, IsOpen
  <2>4. IsOpen(f) => Greeting(f)
    BY <2>1, <1>2, <1>4 DEF StreamShape, Greeting, Taken, IsOpen
  <2>5. TRUE \in f.asked => f.state = "Starting"
    BY <2>1 DEF StreamShape
  <2> QED
    BY <2>2, <2>3, <2>4, <2>5, <1>1, <1>2, <1>4 DEF StreamInv, StreamShape, f
<1>5. CASE c.handshake
  <2>1. IsOpen(c) /\ IsStarted(c) /\ LinedUp(c) /\ TRUE \notin c.asked
    BY <1>5 DEF StreamShape, IsOpen, IsStarted
  <2>2. /\ f.state = c.state /\ f.asked = c.asked
        /\ Len(f.wire) = Len(c.wire) + Held(q) - k
        /\ \A i \in 1 .. Len(c.wire) : f.wire[i] = c.wire[i]
        /\ \A i \in 1 .. Held(q) - k : f.wire[Len(c.wire) + i] = q[k + i].write
    BY <2>1, <1>1, <1>5 DEF Filled
  <2>3. f.idle => Len(f.pipeline) = 0
    BY <1>1, <1>2, <1>5, <2>1 DEF Filled, StreamShape
  <2>4. LinedUp(f)
    <3> DEFINE lw == Len(c.wire)
               t == Taken(c)
               h == Held(q)
    <3>0. /\ lw \in Nat /\ t \in Nat /\ h \in Nat /\ k \in Nat /\ k <= h
          /\ Len(c.answers) \in Nat /\ Len(c.answers) <= t /\ t <= k
          /\ Taken(f) = t /\ t + lw = k
      <4>1. Taken(f) = t
        BY <1>2 DEF Taken
      <4>2. t + lw = k
        BY <2>1, <1>2 DEF LinedUp
      <4>3. Len(c.answers) \in Nat /\ lw \in Nat
        BY <1>2
      <4> DEFINE la == Len(c.answers)
      <4>t. t = la \/ t = la + 1
        BY TakenFacts
      <4> HIDE DEF la, t, lw
      <4>4. t \in Nat /\ la <= t /\ t <= k
        BY <4>t, <4>2, <4>3, <1>2 DEF la
      <4> QED
        BY <4>1, <4>2, <4>3, <4>4, <1>2 DEF la
    <3>b. Len(f.wire) = lw + (h - k) /\ Len(f.pipeline) = h
      BY <2>2, <1>2
    <3>w. /\ \A i \in 1 .. lw : f.wire[i] = c.pipeline[t + i].write
          /\ \A i \in 1 .. h - k : f.wire[lw + i] = q[k + i].write
      BY <2>1, <2>2 DEF LinedUp
    <3>p. /\ \A i \in 1 .. k : f.pipeline[i] = c.pipeline[i]
          /\ \A i \in 1 .. h : f.pipeline[i] = q[i]
      BY <1>2 DEF HoldsFirst
    <3> HIDE DEF lw, t, h
    <3>1. Taken(f) + Len(f.wire) = Len(f.pipeline)
      BY <3>0, <3>b
    <3>2. ASSUME NEW i \in 1 .. Len(f.answers) PROVE f.answers[i] = f.pipeline[i].write
      <4>1. i \in 1 .. Len(c.answers) /\ i \in 1 .. k
        BY <3>0, <1>2
      <4> QED
        BY <4>1, <3>p, <2>1, <1>2 DEF LinedUp
    <3>3. ASSUME NEW i \in 1 .. Len(f.wire)
          PROVE  f.wire[i] = f.pipeline[t + i].write
      <4>1. CASE i <= lw
        <5>1. i \in 1 .. lw /\ t + i \in 1 .. k
          BY <4>1, <3>0, <3>b
        <5> QED
          BY <5>1, <3>p, <3>w
      <4>2. CASE i > lw
        <5> DEFINE n == i - lw
        <5>1. n \in 1 .. h - k /\ i = lw + n /\ t + i = k + n /\ t + i \in 1 .. h
          BY <4>2, <3>0, <3>b
        <5> HIDE DEF n
        <5>2. f.wire[lw + n] = q[k + n].write
          BY <5>1, <3>w
        <5> QED
          BY <5>1, <5>2, <3>p
      <4>3. i <= lw \/ i > lw
        BY <3>0
      <4> QED
        BY <4>1, <4>2, <4>3
    <3> QED
      BY <3>0, <3>1, <3>2, <3>3 DEF LinedUp
  <2>5. IsOpen(f) /\ IsStarted(f)
    BY <2>1, <2>2 DEF IsOpen, IsStarted
  <2> QED
    BY <2>1, <2>2, <2>3, <2>4, <2>5, <1>1, <1>2, <1>5 DEF StreamInv, StreamShape, f
<1> QED
  BY <1>3, <1>4, <1>5 DEF StreamShape

----------------------------------------------------------------------------
\* The mutation queues.

\* A bounded set of numbers has a greatest one: its least bound.
LEMMA MaxOfBounded ==
    ASSUME NEW S \in SUBSET Nat, NEW e \in S, NEW b \in Nat, \A x \in S : x <= b
    PROVE  Max(S) \in S /\ \A x \in S : x <= Max(S)
<1> DEFINE T == {n \in Nat : \A x \in S : x <= n}
<1>1. \E m \in T : \A n \in T : ~(<<n, m>> \in OpToRel(<, Nat))
  <2>1. T \subseteq Nat /\ T # {}
    OBVIOUS
  <2> HIDE DEF T
  <2> QED
    BY <2>1, NatLessThanWellFounded, WFMin
<1>2. PICK m \in T : \A n \in T : ~(<<n, m>> \in OpToRel(<, Nat))
  BY <1>1
<1>3. ASSUME NEW n \in T PROVE m <= n
  <2>1. <<n, m>> \in Nat \X Nat /\ <<n, m>>[1] = n /\ <<n, m>>[2] = m
    OBVIOUS
  <2>2. n < m => <<n, m>> \in OpToRel(<, Nat)
    BY <2>1 DEF OpToRel
  <2>3. ~(n < m)
    BY <1>2, <2>2
  <2> QED
    BY <2>3
<1>4. m \in S
  <2> SUFFICES ASSUME m \notin S PROVE FALSE
    OBVIOUS
  <2>1. m > 0 /\ m - 1 \in Nat
    <3>1. e <= m /\ e # m
      OBVIOUS
    <3> QED
      BY <3>1
  <2>2. m - 1 \in T
    BY <2>1
  <2> QED
    BY <1>3, <2>1, <2>2
<1>5. \A x \in S : (\A y \in S : x >= y) => x = m
  BY <1>4
<1> QED
  BY <1>4, <1>5 DEF Max

\* The id LoadNextBatchIdFromDb finds is above all that are in use.
LEMMA NextIdAbove ==
    ASSUME TypeOK, QueueInv
    PROVE  /\ LoadNextBatchIdFromDb(queue) \in Nat \ {0}
           /\ \A u \in Users : \A i \in 1 .. Len(queue[u]) :
                 queue[u][i].id < LoadNextBatchIdFromDb(queue)
<1> DEFINE S == {0} \cup {Last(queue[u]).id : u \in {v \in Users : queue[v] # <<>>}}
<1>1. \A u \in Users : queue[u] \in Seq(Batch)
  BY DEF TypeOK
<1>2. nextBatchId \in Nat
  BY DEF TypeOK
<1>3. ASSUME NEW u \in Users, queue[u] # <<>>
      PROVE  /\ Len(queue[u]) \in 1 .. Len(queue[u])
             /\ Last(queue[u]).id \in Nat /\ Last(queue[u]).id < nextBatchId
  <2>1. Len(queue[u]) \in 1 .. Len(queue[u])
    BY <1>1, <1>3
  <2>2. queue[u][Len(queue[u])].id \in Nat
    BY <2>1, <1>1, BatchFields
  <2>3. queue[u][Len(queue[u])].id < nextBatchId
    BY <2>1 DEF QueueInv, QueueOf
  <2> QED
    BY <2>1, <2>2, <2>3 DEF Last
<1>4. S \in SUBSET Nat /\ 0 \in S /\ \A x \in S : x <= nextBatchId
  <2>1. \A x \in S : x \in Nat /\ x <= nextBatchId
    BY <1>2, <1>3
  <2> QED
    BY <2>1
<1>5. LoadNextBatchIdFromDb(queue) = Max(S) + 1
  BY DEF LoadNextBatchIdFromDb
<1>6. ASSUME NEW u \in Users, NEW i \in 1 .. Len(queue[u])
      PROVE  \E x \in S : queue[u][i].id <= x
  <2>1. queue[u] # <<>>
    BY <1>1
  <2>2. queue[u][i].id <= queue[u][Len(queue[u])].id
    <3>1. queue[u][i].id \in Nat
      BY <1>1, BatchFields
    <3>2. Sorted(queue[u])
      BY DEF QueueInv, QueueOf
    <3>3. Len(queue[u]) \in 1 .. Len(queue[u])
      BY <1>1
    <3>4. CASE i < Len(queue[u])
      <4>1. queue[u][i].id < queue[u][Len(queue[u])].id
        BY <3>2, <3>3, <3>4 DEF Sorted
      <4>2. queue[u][Len(queue[u])].id \in Nat
        BY <1>1, <3>3, BatchFields
      <4> QED
        BY <3>1, <4>1, <4>2
    <3>5. CASE i = Len(queue[u])
      BY <3>1, <3>5
    <3> QED
      BY <3>3, <3>4, <3>5
  <2>3. Last(queue[u]).id \in S
    BY <2>1
  <2> QED
    BY <2>2, <2>3 DEF Last
<1>7. ASSUME NEW u \in Users, NEW i \in 1 .. Len(queue[u])
      PROVE  queue[u][i].id \in Nat
  BY <1>1, BatchFields
<1> HIDE DEF S
<1>8. Max(S) \in S /\ \A x \in S : x <= Max(S)
  BY <1>2, <1>4, MaxOfBounded
<1>9. Max(S) \in Nat
  BY <1>4, <1>8
<1>10. ASSUME NEW u \in Users, NEW i \in 1 .. Len(queue[u])
       PROVE  queue[u][i].id < Max(S) + 1
  <2>1. PICK x \in S : queue[u][i].id <= x
    BY <1>6
  <2>2. x \in Nat /\ x <= Max(S) /\ queue[u][i].id \in Nat
    BY <1>4, <1>7, <1>8
  <2> QED
    BY <2>1, <2>2, <1>9
<1> QED
  BY <1>5, <1>9, <1>10

\* Removing the batch at the front of a queue leaves the rest of it.
LEMMA RemoveFront ==
    ASSUME NEW q \in Seq(Batch), Len(q) > 0
    PROVE  RemoveFirst(q, q[1]) = Tail(q)
<1> DEFINE I == {i \in 1 .. Len(q) : q[i] = q[1]}
<1>1. 1 \in I /\ I \in SUBSET Int /\ \A y \in I : 1 =< y
  OBVIOUS
<1>2. RemoveFirst(q, q[1]) = RemoveAt(q, Min(I))
  BY <1>1 DEF RemoveFirst, SelectInSeq
<1> HIDE DEF I
<1>3. Min(I) = 1
  BY <1>1, MinIs
<1>4. RemoveFirst(q, q[1]) = SubSeq(q, 1, 0) \o SubSeq(q, 2, Len(q))
  BY <1>2, <1>3 DEF RemoveAt
<1>5. SubSeq(q, 1, 0) = <<>> /\ SubSeq(q, 2, Len(q)) = Tail(q)
  OBVIOUS
<1> QED
  BY <1>4, <1>5

----------------------------------------------------------------------------
\* The stream, step by step.

LEMMA InvFacts ==
    ASSUME IInv
    PROVE  /\ remote \in RemoteStore /\ currentUser \in Users
           /\ queue \in [Users -> Seq(Batch)] /\ queue[currentUser] \in Seq(Batch)
           /\ Sorted(queue[currentUser]) /\ \A u \in Users : Sorted(queue[u])
           /\ StreamInv(remote, queue[currentUser]) /\ StreamShape(remote)
           /\ nextBatchId \in Nat
<1>1. /\ remote \in RemoteStore /\ currentUser \in Users
      /\ queue \in [Users -> Seq(Batch)] /\ nextBatchId \in Nat
  BY DEF IInv, TypeOK
<1>2. \A u \in Users : Sorted(queue[u])
  BY DEF IInv, QueueInv, QueueOf
<1>3. StreamInv(remote, queue[currentUser])
  BY DEF IInv
<1>4. StreamShape(remote)
  BY <1>3 DEF StreamInv
<1> QED
  BY <1>1, <1>2, <1>3, <1>4

\* f is c with the pipeline refilled: the call under it is the same.
SameCall(c, f) ==
    /\ f \in RemoteStore
    /\ f.answers = c.answers /\ f.handshake = c.handshake /\ f.status = c.status
    /\ f.token = c.token /\ f.enabled = c.enabled
    /\ IsOpen(f) <=> IsOpen(c)
    /\ IsStarted(c) => f.state = c.state /\ f.asked = c.asked

\* fillWritePipeline does not disturb the call under way.
LEMMA FillKeepsCall ==
    ASSUME NEW c \in RemoteStore, StreamShape(c), c.enabled,
           NEW q \in Seq(Batch), Sorted(q), NEW k \in 0 .. Held(q), HoldsFirst(c, q, k)
    PROVE  SameCall(c, FillWritePipeline(c, q)) /\ StreamInv(FillWritePipeline(c, q), q)
<1> DEFINE f == FillWritePipeline(c, q)
<1>1. Filled(c, q, k, f) /\ StreamInv(f, q)
  BY FillKeeps
<1> HIDE DEF f
<1>2. IsOpen(f) <=> IsOpen(c)
  BY <1>1 DEF Filled, IsOpen, IsStarted
<1>3. SameCall(c, f)
  BY <1>1, <1>2 DEF Filled, SameCall, RemoteStore
<1> QED
  BY <1>1, <1>3 DEF f

\* WriteMutations appends a batch with the next id.
LEMMA AppendedQueue ==
    ASSUME NEW q \in Seq(Batch), Sorted(q), NEW b \in Batch,
           \A i \in 1 .. Len(q) : q[i].id < b.id
    PROVE  /\ Append(q, b) \in Seq(Batch) /\ Sorted(Append(q, b))
           /\ Held(q) \in 0 .. Held(Append(q, b))
           /\ Len(Append(q, b)) = Len(q) + 1
           /\ \A i \in 1 .. Len(q) : Append(q, b)[i] = q[i]
           /\ Append(q, b)[Len(q) + 1] = b
<1> DEFINE a == Append(q, b)
           n == Len(q)
<1>2. /\ a \in Seq(Batch) /\ Len(a) = n + 1 /\ n \in Nat
      /\ \A i \in 1 .. n : a[i] = q[i]
      /\ a[n + 1] = b
  BY AppendFacts
<1>3. Held(q) \in 0 .. Held(a)
  BY <1>2, MaxPendingWritesAssumption DEF Held
<1> HIDE DEF a, n
<1>4. Sorted(a)
  <2> SUFFICES ASSUME NEW i \in 1 .. n + 1, NEW j \in 1 .. n + 1, i < j
               PROVE  a[i].id < a[j].id
    BY <1>2 DEF Sorted
  <2>1. i \in 1 .. n /\ a[i] = q[i]
    BY <1>2
  <2>2. CASE j = n + 1
    BY <2>1, <2>2, <1>2 DEF n
  <2>3. CASE j # n + 1
    <3>1. j \in 1 .. n /\ a[j] = q[j]
      BY <2>3, <1>2
    <3> QED
      BY <2>1, <3>1 DEF Sorted, n
  <2> QED
    BY <2>2, <2>3
<1> QED
  BY <1>2, <1>3, <1>4 DEF a, n

\* The pipeline holds part of the queue, and some of it if there is any.
LEMMA HeldFacts ==
    ASSUME NEW q \in Seq(Batch)
    PROVE  /\ Len(q) \in Nat /\ Held(q) \in Nat /\ Held(q) <= Len(q)
           /\ Len(q) > 0 => Held(q) > 0
BY MaxPendingWritesAssumption DEF Held

\* What is left of a queue when its front is gone.
LEMMA TailQueue ==
    ASSUME NEW q \in Seq(Batch), Sorted(q), Len(q) > 0
    PROVE  /\ Tail(q) \in Seq(Batch) /\ Sorted(Tail(q))
           /\ Len(Tail(q)) = Len(q) - 1
           /\ \A i \in 1 .. Len(q) - 1 : Tail(q)[i] = q[i + 1]
           /\ Held(q) > 0 /\ Held(q) - 1 \in 0 .. Held(Tail(q)) /\ Held(q) - 1 <= Len(q) - 1
<1> DEFINE t == Tail(q)
           n == Len(q)
<1>1. /\ t \in Seq(Batch) /\ Len(t) = n - 1 /\ n \in Nat /\ n > 0
      /\ \A i \in 1 .. n - 1 : t[i] = q[i + 1]
  BY TailFacts
<1>2. Held(q) > 0 /\ Held(q) - 1 \in 0 .. Held(t) /\ Held(q) - 1 <= n - 1
  <2>1. Held(q) = (IF n < MaxPendingWrites THEN n ELSE MaxPendingWrites)
        /\ Held(t) = (IF n - 1 < MaxPendingWrites THEN n - 1 ELSE MaxPendingWrites)
    BY <1>1 DEF Held
  <2> HIDE DEF n, t
  <2> QED
    BY <2>1, <1>1, MaxPendingWritesAssumption
<1> HIDE DEF t, n
<1>3. Sorted(t)
  <2> SUFFICES ASSUME NEW i \in 1 .. n - 1, NEW j \in 1 .. n - 1, i < j
               PROVE  t[i].id < t[j].id
    BY <1>1 DEF Sorted
  <2>1. i + 1 \in 1 .. n /\ j + 1 \in 1 .. n /\ i + 1 < j + 1
    BY <1>1
  <2>2. q[i + 1].id < q[j + 1].id
    BY <2>1 DEF Sorted, n
  <2> QED
    BY <2>2, <1>1
<1> QED
  BY <1>1, <1>2, <1>3 DEF t, n

\* writeMutations does not disturb the call under way.
LEMMA StreamWriteMutations ==
    ASSUME IInv, WriteMutations
    PROVE  SameCall(remote, remote') /\ StreamInv(remote', queue'[currentUser'])
<1> DEFINE q == queue[currentUser]
           b == [id |-> nextBatchId, write |-> Head(tasks).write]
           a == Append(q, b)
<1>1. /\ remote' = FillWritePipeline(remote, queue'[currentUser])
      /\ queue' = [queue EXCEPT ![currentUser] = a] /\ currentUser' = currentUser
  BY DEF WriteMutations
<1>2. nextBatchId \in Nat \ {0} /\ Head(tasks).write \in Writes
  <2>1. tasks \in Seq(Task) /\ tasks # <<>>
    BY DEF IInv, TypeOK, WriteMutations
  <2>2. Head(tasks) \in Task /\ Head(tasks).task = "write"
    BY <2>1, TailFacts DEF WriteMutations
  <2>3. Head(tasks).write \in Writes
    BY <2>2 DEF Task
  <2> QED
    BY <2>3 DEF IInv, TypeOK
<1>3. b \in Batch /\ \A i \in 1 .. Len(q) : q[i].id < b.id
  BY <1>2, InvFacts DEF IInv, QueueInv, QueueOf, Batch
<1> HIDE DEF b
<1>4. /\ a \in Seq(Batch) /\ Sorted(a) /\ Held(q) \in 0 .. Held(a) /\ Len(a) = Len(q) + 1
      /\ \A i \in 1 .. Len(q) : a[i] = q[i]
  BY <1>3, InvFacts, AppendedQueue
<1> HIDE DEF a
<1>5. queue'[currentUser'] = a /\ remote' = FillWritePipeline(remote, a)
  BY <1>1, InvFacts
<1>6. CASE remote.enabled
  <2>1. HoldsFirst(remote, q, Held(q)) /\ Held(q) <= Len(q)
    BY <1>6, InvFacts, HeldFacts DEF StreamInv
  <2>2. HoldsFirst(remote, a, Held(q))
    <3>1. Len(q) \in Nat /\ Held(q) \in Int
      BY InvFacts, <1>4
    <3>2. \A i \in 1 .. Held(q) : i \in 1 .. Len(q)
      BY <2>1, <3>1
    <3> QED
      BY <2>1, <3>2, <1>4 DEF HoldsFirst
  <2> HIDE DEF q
  <2>3. SameCall(remote, FillWritePipeline(remote, a)) /\ StreamInv(FillWritePipeline(remote, a), a)
    BY <1>4, <1>6, <2>2, InvFacts, FillKeepsCall
  <2> QED
    BY <2>3, <1>5
<1>7. CASE ~remote.enabled
  <2>1. remote.pipeline \in Seq(Batch) /\ Len(remote.pipeline) = 0
    BY <1>7, InvFacts DEF StreamInv, HoldsFirst, RemoteStore
  <2>2. remote.pipeline = <<>>
    BY <2>1
  <2>3. remote' = remote
    BY <2>2, <1>4, <1>5, <1>7, InvFacts, FillDisabled
  <2>4. StreamInv(remote, a)
    BY <2>1, <1>7, InvFacts DEF StreamInv, HoldsFirst
  <2>5. SameCall(remote, remote)
    BY InvFacts DEF SameCall
  <2> QED
    BY <2>3, <2>4, <2>5, <1>5
<1> QED
  BY <1>6, <1>7, InvFacts DEF RemoteStore

\* The front of the pipeline is the front of the queue.
LEMMA PipelineFront ==
    ASSUME IInv, remote.pipeline # <<>>
    PROVE  /\ remote.enabled /\ Len(queue[currentUser]) > 0
           /\ Head(remote.pipeline) = queue[currentUser][1]
           /\ remote.pipeline[1] = queue[currentUser][1]
           /\ queue[currentUser][1] \in Batch
<1> DEFINE q == queue[currentUser]
           p == remote.pipeline
<1>1. p \in Seq(Batch) /\ q \in Seq(Batch)
  BY InvFacts DEF RemoteStore
<1>2. Len(p) > 0 /\ Head(p) = p[1] /\ Head(p) \in Batch /\ Len(p) \in Nat
  BY <1>1, TailFacts
<1>3. HoldsFirst(remote, q, IF remote.enabled THEN Held(q) ELSE 0)
  BY InvFacts DEF StreamInv
<1>4. Len(p) = (IF remote.enabled THEN Held(q) ELSE 0) /\ \A i \in 1 .. Len(p) : p[i] = q[i]
  BY <1>3 DEF HoldsFirst
<1>5. Held(q) \in Nat /\ Held(q) <= Len(q) /\ Len(q) \in Nat
  BY <1>1, HeldFacts
<1> HIDE DEF p, q
<1>6. remote.enabled /\ Len(q) > 0 /\ 1 \in 1 .. Len(p)
  BY <1>2, <1>4, <1>5
<1>7. p[1] = q[1] /\ q[1] \in Batch
  BY <1>2, <1>4, <1>6
<1> QED
  BY <1>2, <1>6, <1>7 DEF p, q

\* What HandleSettledWrite does to the front of the queue: its caller is told,
\* if there is one, and so are those who waited for it.
Settles(result) ==
    LET first == queue[currentUser][1]
    IN  /\ Len(queue[currentUser]) > 0
        /\ queue' = [queue EXCEPT ![currentUser] = Tail(queue[currentUser])]
        /\ callbacks' = [callbacks EXCEPT ![currentUser] = callbacks[currentUser] \ {first}]
        /\ outcome' = [w \in Writes |->
                          IF first \in callbacks[currentUser] /\ w = first.write
                          THEN result ELSE outcome[w]]
        /\ waits' = {x \in waits : x.id # first.id}
        /\ released' = released \cup UNION {x.writes : x \in waits \ waits'}

\* What settling the head of the pipeline does to queue, callbacks and waits.
LEMMA Settled ==
    ASSUME IInv, remote.pipeline # <<>>, NEW result,
           HandleSettledWrite(Head(remote.pipeline), result)
    PROVE  Settles(result)
<1> DEFINE q == queue[currentUser]
           first == q[1]
           told == {c \in callbacks[currentUser] : c.id = first.id}
<1>1. /\ Len(q) > 0 /\ Head(remote.pipeline) = first /\ first \in Batch
  BY PipelineFront
<1>2. q \in Seq(Batch) /\ queue \in [Users -> Seq(Batch)] /\ currentUser \in Users /\ Sorted(q)
  BY InvFacts
<1>3. queue' = [queue EXCEPT ![currentUser] = Tail(q)]
  <2>1. RemoveFirst(q, first) = Tail(q)
    BY <1>1, <1>2, RemoveFront
  <2>2. queue' = [queue EXCEPT ![currentUser] = RemoveFirst(q, first)]
    BY <1>1, <1>2 DEF HandleSettledWrite, RemoveMutationBatch
  <2> QED
    BY <2>1, <2>2
<1>4. /\ waits' = {x \in waits : x.id # first.id}
      /\ released' = released \cup UNION {x.writes : x \in waits \ waits'}
  BY <1>1 DEF HandleSettledWrite, TriggerPendingWriteCallbacks
<1>5. \A c \in callbacks[currentUser] : c.id = first.id <=> c = first
  <2> SUFFICES ASSUME NEW c \in callbacks[currentUser], c.id = first.id PROVE c = first
    OBVIOUS
  <2>1. c \in Range(q)
    BY <1>2 DEF IInv, SettledInv
  <2>2. PICK i \in 1 .. Len(q) : c = q[i]
    BY <2>1, <1>2 DEF Range
  <2>3. q[i].id \in Nat /\ q[1].id \in Nat /\ 1 \in 1 .. Len(q)
    BY <1>1, <1>2, BatchFields
  <2>4. ~(1 < i)
    BY <2>2, <2>3, <1>2 DEF Sorted
  <2> QED
    BY <2>2, <2>4
<1>6. told = callbacks[currentUser] \cap {first}
  BY <1>5
<1>7. /\ callbacks' = [callbacks EXCEPT ![currentUser] = @ \ told]
      /\ outcome' = [w \in Writes |-> IF \E c \in told : c.write = w THEN result ELSE outcome[w]]
  BY <1>1 DEF HandleSettledWrite, NotifyUser
<1> HIDE DEF q, told
<1>8. callbacks' = [callbacks EXCEPT ![currentUser] = callbacks[currentUser] \ {first}]
  <2>1. callbacks[currentUser] \ told = callbacks[currentUser] \ {first}
    BY <1>6
  <2> HIDE DEF first
  <2> QED
    BY <2>1, <1>7, <1>2 DEF IInv, TypeOK
<1>9. outcome' = [w \in Writes |-> IF first \in callbacks[currentUser] /\ w = first.write
                                   THEN result ELSE outcome[w]]
  <2>1. \A w : (\E c \in told : c.write = w) <=> first \in callbacks[currentUser] /\ w = first.write
    BY <1>6
  <2> QED
    BY <2>1, <1>7
<1> QED
  BY <1>1, <1>3, <1>4, <1>8, <1>9 DEF Settles, q

\* Whatever closes the stream, or finds it closed, leaves nothing under way,
\* and the answers that were not read are lost.
Offline ==
    /\ remote' \in RemoteStore
    /\ StreamInv(remote', queue'[currentUser'])
    /\ ~IsOpen(remote')
    /\ lost' = lost \cup (Range(remote.answers) \ {Handshake})
    /\ UNCHANGED <<log, refused, accepted, issued, authUser>>

\* A stream that is not open has nothing in flight that could be lost.
LEMMA ClosedFacts ==
    ASSUME IInv, ~IsOpen(remote)
    PROVE  /\ remote.answers = <<>> /\ ~remote.handshake /\ Quiet(remote)
           /\ lost = lost \cup (Range(remote.answers) \ {Handshake})
<1>1. Quiet(remote) /\ ~remote.handshake
  BY InvFacts DEF StreamShape
<1>2. remote.answers = <<>>
  BY <1>1 DEF Quiet
<1>3. Range(<<>>) = {}
  BY DEF Range
<1> QED
  BY <1>1, <1>2, <1>3

\* A stream that is ready to start is not open.
LEMMA ReadyIsOffline ==
    ASSUME NEW c, NEW q, NEW g, Ready(c, q, g)
    PROVE  g \in RemoteStore /\ StreamInv(g, q) /\ ~IsOpen(g)
BY DEF Ready

\* After a change of user the stream is down.
LEMMA OfflineHandleCredentialChange ==
    ASSUME IInv, HandleCredentialChange
    PROVE  Offline /\ currentUser' \in Users
<1>1. tasks \in Seq(Task) /\ tasks # <<>> /\ Head(tasks).task = "user"
  BY DEF IInv, TypeOK, HandleCredentialChange
<1>2. Head(tasks) \in Task
  BY <1>1, TailFacts
<1>3. currentUser' \in Users
  BY <1>1, <1>2 DEF Task, HandleCredentialChange
<1>4. queue[currentUser'] \in Seq(Batch) /\ Sorted(queue[currentUser']) /\ queue' = queue
  BY <1>3, InvFacts DEF HandleCredentialChange
<1>u. UNCHANGED <<log, refused, accepted, issued, authUser>>
  BY DEF HandleCredentialChange
<1>5. CASE remote.enabled
  <2>1. remote' = RestartNetwork(remote, queue[currentUser']) /\ LoseAnswers
    BY <1>5 DEF HandleCredentialChange
  <2>2. Ready(remote, queue[currentUser'], remote')
    BY <2>1, <1>4, InvFacts, Restarted
  <2> QED
    BY <2>1, <2>2, <1>u, <1>3, <1>4, ReadyIsOffline DEF Offline, LoseAnswers
<1>6. CASE ~remote.enabled
  <2>1. remote' = remote /\ lost' = lost
    BY <1>6 DEF HandleCredentialChange
  <2>2. ~IsOpen(remote)
    BY <1>6, InvFacts DEF StreamShape, IsOpen, IsStarted
  <2>3. StreamInv(remote, queue[currentUser'])
    BY <1>6, InvFacts DEF StreamInv, HoldsFirst
  <2>4. lost' = lost \cup (Range(remote.answers) \ {Handshake})
    BY <2>1, <2>2, ClosedFacts
  <2> QED
    BY <2>1, <2>2, <2>3, <2>4, <1>u, <1>3, <1>4, InvFacts DEF Offline
<1> QED
  BY <1>5, <1>6

\* Without a token the stream is down.
LEMMA OfflineTokenFails ==
    ASSUME IInv, TokenFails
    PROVE  Offline
<1>1. tasks \in Seq(Task) /\ tasks # <<>> /\ IsFreshToken(Head(tasks))
  BY DEF IInv, TypeOK, TokenFails, IsFreshToken
<1>2. remote.state = "Starting"
  <2>1. 1 \in 1 .. Len(tasks) /\ Head(tasks) = tasks[1]
    BY <1>1, TailFacts
  <2> QED
    BY <1>1, <2>1 DEF IInv, RequestInv
<1>3. IsStarted(remote) /\ ~IsOpen(remote) /\ ~HandleWriteError(remote, Unavailable)
  BY <1>2 DEF IsStarted, IsOpen, HandleWriteError, IsPermanentWriteError, Unavailable, Rejected
<1>4. remote' = CloseWithError(remote, Unavailable, queue[currentUser])
  BY DEF TokenFails
<1>5. Ready(remote, queue[currentUser], remote')
  BY <1>3, <1>4, InvFacts, ClosedAnew
<1>6. lost' = lost /\ queue' = queue /\ currentUser' = currentUser
      /\ UNCHANGED <<log, refused, accepted, issued, authUser>>
  BY DEF TokenFails, history, store
<1> QED
  BY <1>3, <1>5, <1>6, ClosedFacts, ReadyIsOffline DEF Offline

\* When the delay is over the stream asks for a token and is still down.
LEMMA OfflineBackoffElapses ==
    ASSUME IInv, BackoffElapses
    PROVE  Offline
<1> DEFINE c == remote
           g == [c EXCEPT !.state = "Starting", !.asked = c.asked \cup {TRUE}]
<1>1. c \in RemoteStore /\ c.state = "Backoff" /\ StreamInv(c, queue[currentUser])
  BY InvFacts DEF BackoffElapses
<1>2. IsStarted(c) /\ ~IsOpen(c)
  BY <1>1 DEF IsStarted, IsOpen
<1>3. remote' = g
  BY <1>1 DEF BackoffElapses, Start, RemoteStore
<1>4. c.asked \cup {TRUE} \in SUBSET BOOLEAN
  BY <1>1 DEF RemoteStore
<1>5. /\ g \in RemoteStore
      /\ g.state = "Starting" /\ g.enabled = c.enabled /\ g.pipeline = c.pipeline
      /\ g.handshake = c.handshake /\ g.idle = c.idle /\ g.wire = c.wire /\ g.answers = c.answers
      /\ g.status = c.status
  BY <1>1, <1>4 DEF RemoteStore
<1> HIDE DEF g
<1>6. IsStarted(g) /\ ~IsOpen(g)
  BY <1>5 DEF IsStarted, IsOpen
<1>7. StreamShape(g)
  BY <1>1, <1>2, <1>5, <1>6 DEF StreamInv, StreamShape, Quiet
<1>8. StreamInv(g, queue[currentUser])
  BY <1>1, <1>5, <1>7 DEF StreamInv, HoldsFirst
<1>9. lost' = lost /\ queue' = queue /\ currentUser' = currentUser
      /\ UNCHANGED <<log, refused, accepted, issued, authUser>>
  BY DEF BackoffElapses, history, store
<1> QED
  BY <1>2, <1>3, <1>5, <1>6, <1>8, <1>9, ClosedFacts DEF Offline

\* An idle stream is taken down.
LEMMA OfflineIdleTimeout ==
    ASSUME IInv, IdleTimeout
    PROVE  Offline
<1> DEFINE s == Stop(remote)
<1>1. /\ s \in RemoteStore /\ Closed(s) /\ ~s.handshake
      /\ s.enabled = remote.enabled /\ s.pipeline = remote.pipeline
  BY InvFacts, Stopped
<1>2. remote' = s /\ LoseAnswers /\ queue' = queue /\ currentUser' = currentUser
      /\ UNCHANGED <<log, refused, accepted, issued, authUser>>
  BY DEF IdleTimeout, store
<1> HIDE DEF s
<1>3. StreamInv(s, queue[currentUser])
  BY <1>1, InvFacts DEF StreamInv, HoldsFirst, StreamShape, Closed, IsOpen, IsStarted, Quiet
<1> QED
  BY <1>1, <1>2, <1>3 DEF Offline, LoseAnswers, Closed, IsOpen, IsStarted

\* The end of an open stream: the front of the queue is refused, or nothing
\* happens to the queues.
LEMMA OfflineStreamClosed ==
    ASSUME IInv, NEW status, StreamClosed(status), IsOpen(remote)
    PROVE  /\ Offline
           /\ \/ HandleWriteError(remote, status) /\ Settles("rejected")
              \/ UNCHANGED <<queue, callbacks, waits, outcome, released>>
<1> DEFINE q == queue[currentUser]
<1>0. IsStarted(remote)
  BY DEF IsOpen, IsStarted
<1>1. /\ LoseAnswers /\ currentUser' = currentUser
      /\ UNCHANGED <<log, refused, accepted, issued, authUser>>
      /\ remote' = CloseWithError(remote, status, queue'[currentUser])
  BY DEF StreamClosed
<1>2. CASE HandleWriteError(remote, status)
  <2>1. HandleSettledWrite(Head(remote.pipeline), "rejected") /\ remote.pipeline # <<>>
    BY <1>2 DEF StreamClosed, HandleWriteError
  <2>2. Settles("rejected")
    BY <2>1, Settled
  <2>3. Len(q) > 0 /\ queue'[currentUser] = Tail(q)
    BY <2>2, InvFacts DEF Settles
  <2>4. /\ Tail(q) \in Seq(Batch) /\ Sorted(Tail(q)) /\ Len(Tail(q)) = Len(q) - 1
        /\ \A i \in 1 .. Len(Tail(q)) : Tail(q)[i] = q[i + 1]
    BY <2>3, InvFacts, TailQueue
  <2> DEFINE r == Tail(q)
  <2> HIDE DEF r
  <2>5. /\ r \in Seq(Batch) /\ Sorted(r) /\ Len(r) = Len(q) - 1
        /\ \A i \in 1 .. Len(r) : r[i] = q[i + 1]
    BY <2>4 DEF r
  <2>6. q \in Seq(Batch) /\ remote \in RemoteStore /\ StreamInv(remote, q)
    BY InvFacts
  <2> HIDE DEF q
  <2>7. Ready(remote, r, CloseWithError(remote, status, r))
    BY <2>5, <2>6, <1>0, <1>2, ClosedOverWrite
  <2>8. Ready(remote, queue'[currentUser'], remote')
    BY <2>7, <2>3, <1>1 DEF r
  <2> QED
    BY <1>1, <1>2, <2>2, <2>8, ReadyIsOffline DEF Offline, LoseAnswers
<1>3. CASE ~HandleWriteError(remote, status)
  <2>1. UNCHANGED <<queue, callbacks, waits, outcome, released>>
    BY <1>3 DEF StreamClosed
  <2>2. Ready(remote, q, CloseWithError(remote, status, q))
    BY <1>0, <1>3, InvFacts, ClosedAnew
  <2>3. Ready(remote, queue'[currentUser'], remote')
    BY <2>1, <2>2, <1>1
  <2> QED
    BY <1>1, <2>1, <2>3, ReadyIsOffline DEF Offline, LoseAnswers
<1> QED
  BY <1>2, <1>3

\* A stream the backend has ended was open.
LEMMA FinishedWasOpen ==
    ASSUME IInv, remote.status # "none"
    PROVE  IsOpen(remote)
BY InvFacts DEF StreamShape, Quiet

\* A change of connectivity takes the stream down.
LEMMA OfflineConnectivityChanges ==
    ASSUME IInv, NEW available \in BOOLEAN, ConnectivityChanges(available)
    PROVE  Offline
<1> DEFINE q == queue[currentUser]
           finished == IF IsOpen(remote) THEN CloseWithError(remote, Unavailable, q) ELSE remote
<1>1. /\ remote' = (IF available /\ remote.enabled THEN RestartNetwork(finished, q) ELSE finished)
      /\ LoseAnswers /\ queue' = queue /\ currentUser' = currentUser
      /\ UNCHANGED <<log, refused, accepted, issued, authUser>>
  BY DEF ConnectivityChanges, store
<1>2. finished \in RemoteStore /\ StreamInv(finished, q) /\ ~IsOpen(finished)
  <2>1. CASE IsOpen(remote)
    <3>1. IsStarted(remote) /\ ~HandleWriteError(remote, Unavailable)
      BY <2>1 DEF IsOpen, IsStarted, HandleWriteError, IsPermanentWriteError, Unavailable, Rejected
    <3>2. Ready(remote, q, CloseWithError(remote, Unavailable, q))
      BY <3>1, InvFacts, ClosedAnew
    <3> QED
      BY <2>1, <3>2, ReadyIsOffline
  <2>2. CASE ~IsOpen(remote)
    BY <2>2, InvFacts
  <2> QED
    BY <2>1, <2>2
<1> HIDE DEF finished
<1>3. Ready(finished, q, RestartNetwork(finished, q))
  BY <1>2, InvFacts, Restarted
<1>4. remote' \in RemoteStore /\ StreamInv(remote', q) /\ ~IsOpen(remote')
  BY <1>1, <1>2, <1>3, ReadyIsOffline
<1> QED
  BY <1>1, <1>4 DEF Offline, LoseAnswers

\* disableNetwork takes the stream down.
LEMMA OfflineDisableNetwork ==
    ASSUME IInv, DisableNetwork
    PROVE  Offline
<1>1. /\ remote' = DisableNetworkInternal(remote) /\ LoseAnswers
      /\ UNCHANGED <<log, refused, accepted, issued, authUser>>
  BY DEF DisableNetwork
<1>2. /\ remote' \in RemoteStore /\ Closed(remote') /\ \A r : StreamInv(remote', r)
  BY <1>1, InvFacts, Disabled
<1> QED
  BY <1>1, <1>2 DEF Offline, LoseAnswers, Closed, IsOpen, IsStarted

\* enableNetwork finds the stream down and leaves it so.
LEMMA OfflineReenableNetwork ==
    ASSUME IInv, ReenableNetwork
    PROVE  Offline /\ ~IsStarted(remote)
<1>1. /\ remote' = EnableNetwork(remote, queue[currentUser]) /\ ~remote.enabled
      /\ lost' = lost /\ queue' = queue /\ currentUser' = currentUser
      /\ UNCHANGED <<log, refused, accepted, issued, authUser>>
  BY DEF ReenableNetwork, store, history
<1>2. ~IsStarted(remote) /\ ~IsOpen(remote) /\ TRUE \notin remote.asked
  BY <1>1, InvFacts DEF StreamShape, IsOpen, IsStarted
<1>3. Closed(remote) /\ ~remote.handshake
  BY <1>2, ClosedFacts DEF Closed
<1>4. remote.pipeline = <<>>
  <2>1. remote.pipeline \in Seq(Batch) /\ Len(remote.pipeline) = 0
    BY <1>1, InvFacts DEF StreamInv, HoldsFirst, RemoteStore
  <2> QED
    BY <2>1
<1>5. Ready(remote, queue[currentUser], remote')
  BY <1>1, <1>3, <1>4, InvFacts, Enabled
<1> QED
  BY <1>1, <1>2, <1>5, ClosedFacts, ReadyIsOffline DEF Offline

\* A client that starts again has no open stream.
LEMMA OfflineRestart ==
    ASSUME IInv, Restart
    PROVE  Offline
<1>1. /\ remote' = EnableNetwork(Fresh, queue[authUser]) /\ LoseAnswers
      /\ queue' = queue /\ currentUser' = authUser
      /\ UNCHANGED <<log, refused, accepted, issued, authUser>>
  BY DEF Restart
<1>2. authUser \in Users /\ queue[authUser] \in Seq(Batch) /\ Sorted(queue[authUser])
  BY InvFacts DEF IInv, TypeOK
<1>3. <<>> \in Seq(Batch) /\ <<>> \in Seq(Wire)
  OBVIOUS
<1>4. Fresh \in RemoteStore
  <2>1. {} \in SUBSET BOOLEAN
    OBVIOUS
  <2> QED
    BY <1>2, <1>3, <2>1 DEF Fresh, RemoteStore
<1>5. Closed(Fresh) /\ ~Fresh.handshake /\ Fresh.pipeline = <<>>
  BY DEF Fresh, Closed, Quiet, IsStarted
<1>6. Ready(Fresh, queue[authUser], EnableNetwork(Fresh, queue[authUser]))
  BY <1>2, <1>4, <1>5, Enabled
<1> QED
  BY <1>1, <1>6, ReadyIsOffline DEF Offline, LoseAnswers

\* What is under way once the handshake is complete, in terms of the queue.
LEMMA UnderWay ==
    ASSUME IInv, remote.handshake
    PROVE  /\ remote.enabled /\ IsOpen(remote)
           /\ Len(remote.answers) \in Nat /\ Len(remote.wire) \in Nat /\ Len(queue[currentUser]) \in Nat
           /\ Taken(remote) \in Nat /\ Len(remote.answers) <= Taken(remote)
           /\ Taken(remote) + Len(remote.wire) = Len(remote.pipeline)
           /\ Taken(remote) + Len(remote.wire) <= Len(queue[currentUser])
           /\ \A i \in 1 .. Len(remote.answers) :
                 remote.answers[i] = queue[currentUser][i].write /\ remote.answers[i] # Handshake
           /\ \A i \in 1 .. Len(remote.wire) :
                 remote.wire[i] = queue[currentUser][Taken(remote) + i].write
<1> DEFINE q == queue[currentUser]
           c == remote
           a == Len(c.answers)
           t == Taken(c)
           w == Len(c.wire)
           p == Len(c.pipeline)
<1>1. c \in RemoteStore /\ q \in Seq(Batch) /\ StreamInv(c, q) /\ StreamShape(c)
  BY InvFacts
<1>2. IsOpen(c) /\ LinedUp(c) /\ c.enabled
  BY <1>1 DEF StreamShape, IsStarted, IsOpen
<1>3. p = Held(q) /\ \A i \in 1 .. p : c.pipeline[i] = q[i]
  BY <1>1, <1>2 DEF StreamInv, HoldsFirst
<1>4. Held(q) <= Len(q) /\ Len(q) \in Nat /\ w \in Nat /\ p \in Nat
  BY <1>1, HeldFacts DEF RemoteStore
<1>5. a \in Nat /\ t \in Nat /\ (t = a \/ t = a + 1)
  BY <1>1, TakenFacts
<1>6. /\ t + w = p
      /\ \A i \in 1 .. a : c.answers[i] = c.pipeline[i].write
      /\ \A i \in 1 .. w : c.wire[i] = c.pipeline[t + i].write
  BY <1>2 DEF LinedUp
<1>7. \A i \in 1 .. Len(q) : q[i].write \in Writes
  BY <1>1, BatchFields
<1> HIDE DEF a, t, w, p, q
<1>8. t + w <= Len(q) /\ a <= t
  BY <1>3, <1>4, <1>5, <1>6
<1>9. ASSUME NEW i \in 1 .. a
      PROVE  c.answers[i] = q[i].write /\ c.answers[i] # Handshake
  <2>1. i \in 1 .. p /\ i \in 1 .. Len(q)
    BY <1>4, <1>5, <1>6, <1>8
  <2>2. c.answers[i] = q[i].write /\ q[i].write \in Writes
    BY <2>1, <1>3, <1>6, <1>7
  <2>3. 0 \notin Writes
    BY BoundsAssumption DEF Writes
  <2> QED
    BY <2>2, <2>3 DEF Handshake
<1>10. ASSUME NEW i \in 1 .. w
       PROVE  c.wire[i] = q[t + i].write
  <2>1. t + i \in 1 .. p
    BY <1>4, <1>5, <1>6
  <2> QED
    BY <2>1, <1>3, <1>6
<1> QED
  BY <1>2, <1>4, <1>5, <1>6, <1>8, <1>9, <1>10 DEF a, t, w, p, q

\* g is c after the backend has taken the next message of the stream, and has
\* answered it or ended the stream.
Takes(c, g) ==
    /\ c.status = "none" /\ Len(c.wire) > 0
    /\ g \in RemoteStore
    /\ g.enabled = c.enabled /\ g.pipeline = c.pipeline /\ g.state = c.state
    /\ g.handshake = c.handshake /\ g.idle = c.idle /\ g.asked = c.asked /\ g.token = c.token
    /\ Len(g.wire) = Len(c.wire) - 1
    /\ \A i \in 1 .. Len(c.wire) - 1 : g.wire[i] = c.wire[i + 1]
    /\ \/ /\ g.status = "none" /\ Len(g.answers) = Len(c.answers) + 1
          /\ g.answers[Len(c.answers) + 1] = c.wire[1]
       \/ g.status # "none" /\ Len(g.answers) = Len(c.answers)
    /\ \A i \in 1 .. Len(c.answers) : g.answers[i] = c.answers[i]

\* The backend takes a message and answers it.
LEMMA TakesAnswering ==
    ASSUME NEW c \in RemoteStore, c.status = "none", c.wire # <<>>
    PROVE  Takes(c, [c EXCEPT !.wire = Tail(@), !.answers = Append(@, Head(c.wire))])
<1> DEFINE w == Tail(c.wire)
           a == Append(c.answers, Head(c.wire))
           g == [c EXCEPT !.wire = w, !.answers = a]
<1>1. c.wire \in Seq(Wire) /\ c.answers \in Seq(Wire)
  BY DEF RemoteStore
<1>2. /\ Len(c.wire) > 0 /\ Head(c.wire) = c.wire[1] /\ Head(c.wire) \in Wire
      /\ w \in Seq(Wire) /\ Len(w) = Len(c.wire) - 1
      /\ \A i \in 1 .. Len(c.wire) - 1 : w[i] = c.wire[i + 1]
  BY <1>1, TailFacts
<1>3. /\ a \in Seq(Wire) /\ Len(a) = Len(c.answers) + 1
      /\ \A i \in 1 .. Len(c.answers) : a[i] = c.answers[i]
      /\ a[Len(c.answers) + 1] = c.wire[1]
  BY <1>1, <1>2, AppendFacts
<1>g. g = [c EXCEPT !.wire = Tail(@), !.answers = Append(@, Head(c.wire))]
  BY DEF RemoteStore
<1> HIDE DEF w, a
<1>4. /\ g \in RemoteStore /\ g.wire = w /\ g.answers = a /\ g.status = c.status
      /\ g.enabled = c.enabled /\ g.pipeline = c.pipeline /\ g.state = c.state
      /\ g.handshake = c.handshake /\ g.idle = c.idle /\ g.asked = c.asked /\ g.token = c.token
  BY <1>2, <1>3 DEF RemoteStore
<1> HIDE DEF g
<1>5. Takes(c, g)
  BY <1>2, <1>3, <1>4 DEF Takes
<1> QED
  BY <1>5, <1>g

\* The backend takes a message and ends the stream.
LEMMA TakesEnding ==
    ASSUME NEW c \in RemoteStore, c.status = "none", c.wire # <<>>, NEW s \in {Rejected, Aborted}
    PROVE  Takes(c, [c EXCEPT !.wire = Tail(@), !.status = s])
<1> DEFINE w == Tail(c.wire)
           g == [c EXCEPT !.wire = w, !.status = s]
<1>1. c.wire \in Seq(Wire)
  BY DEF RemoteStore
<1>2. /\ Len(c.wire) > 0 /\ w \in Seq(Wire) /\ Len(w) = Len(c.wire) - 1
      /\ \A i \in 1 .. Len(c.wire) - 1 : w[i] = c.wire[i + 1]
  BY <1>1, TailFacts
<1>g. g = [c EXCEPT !.wire = Tail(@), !.status = s]
  BY DEF RemoteStore
<1> HIDE DEF w
<1>4. /\ g \in RemoteStore /\ g.wire = w /\ g.answers = c.answers /\ g.status = s
      /\ g.enabled = c.enabled /\ g.pipeline = c.pipeline /\ g.state = c.state
      /\ g.handshake = c.handshake /\ g.idle = c.idle /\ g.asked = c.asked /\ g.token = c.token
  BY <1>2 DEF RemoteStore
<1>5. s # "none"
  BY DEF Rejected, Aborted
<1> HIDE DEF g
<1>6. Takes(c, g)
  BY <1>2, <1>4, <1>5 DEF Takes
<1> QED
  BY <1>6, <1>g

\* Taking a message keeps the stream in step with the queue.
LEMMA TakesKeeps ==
    ASSUME NEW c \in RemoteStore, NEW q, StreamInv(c, q), NEW g, Takes(c, g)
    PROVE  StreamInv(g, q) /\ IsOpen(c) /\ IsOpen(g) /\ Taken(g) = Taken(c) + 1
<1> DEFINE a == Len(c.answers)
           w == Len(c.wire)
           t == Taken(c)
           ga == Len(g.answers)
<1>1. c.status = "none" /\ w > 0 /\ StreamShape(c) /\ g \in RemoteStore
  BY DEF Takes, StreamInv
<1>2. IsOpen(c) /\ IsOpen(g)
  <2>1. c.wire # <<>>
    BY <1>1
  <2> QED
    BY <1>1, <2>1 DEF StreamShape, Quiet, Takes, IsOpen
<1>3. a \in Nat /\ w \in Nat /\ t = a
  BY <1>1, TakenFacts DEF RemoteStore
<1>w. Len(g.wire) = w - 1 /\ \A i \in 1 .. w - 1 : g.wire[i] = c.wire[i + 1]
  BY DEF Takes
<1>a. /\ \A i \in 1 .. a : g.answers[i] = c.answers[i]
      /\ \/ g.status = "none" /\ ga = a + 1 /\ g.answers[a + 1] = c.wire[1]
         \/ g.status # "none" /\ ga = a
  BY DEF Takes
<1>4. Taken(g) = t + 1
  <2>1. /\ g.status = "none" => Taken(g) = ga
        /\ g.status # "none" => Taken(g) = ga + 1
    BY <1>1, TakenFacts
  <2> QED
    BY <2>1, <1>a, <1>3
<1> HIDE DEF a, w, t, ga
<1>5. CASE c.handshake
  <2>1. LinedUp(c) /\ g.pipeline = c.pipeline
    BY <1>1, <1>5 DEF StreamShape, Takes
  <2>2. /\ t + w = Len(c.pipeline)
        /\ \A i \in 1 .. a : c.answers[i] = c.pipeline[i].write
        /\ \A i \in 1 .. w : c.wire[i] = c.pipeline[t + i].write
    BY <2>1 DEF LinedUp, a, w, t
  <2>3. (t + 1) + (w - 1) = Len(c.pipeline)
    BY <2>2, <1>1, <1>3
  <2>4. ASSUME NEW i \in 1 .. ga PROVE g.answers[i] = c.pipeline[i].write
    <3>1. CASE i \in 1 .. a
      BY <3>1, <2>2, <1>a
    <3>2. CASE i \notin 1 .. a
      <4>1. i = a + 1 /\ 1 \in 1 .. w /\ i = t + 1 /\ g.answers[a + 1] = c.wire[1]
        BY <3>2, <1>a, <1>3, <1>1
      <4> QED
        BY <4>1, <2>2
    <3> QED
      BY <3>1, <3>2
  <2>5. ASSUME NEW i \in 1 .. w - 1 PROVE g.wire[i] = c.pipeline[(t + 1) + i].write
    <3>1. i + 1 \in 1 .. w /\ t + (i + 1) = (t + 1) + i
      BY <1>3
    <3> QED
      BY <3>1, <2>2, <1>w
  <2>6. LinedUp(g)
    BY <2>1, <2>3, <2>4, <2>5, <1>4, <1>w DEF LinedUp, ga
  <2> QED
    BY <1>2, <1>4, <1>5, <2>6 DEF StreamInv, StreamShape, HoldsFirst, Takes, IsOpen, IsStarted, t
<1>6. CASE ~c.handshake
  <2>1. Greeting(c)
    BY <1>1, <1>2, <1>6 DEF StreamShape
  <2>2. /\ t + w = 1
        /\ \A i \in 1 .. w : c.wire[i] = Handshake
    BY <2>1 DEF Greeting, w, t
  <2>3. w = 1 /\ a = 0
    BY <2>2, <1>1, <1>3
  <2>4. ASSUME NEW i \in 1 .. ga PROVE g.answers[i] = Handshake
    <3>1. i = 1 /\ g.answers[1] = c.wire[1] /\ 1 \in 1 .. w
      BY <2>3, <1>a
    <3> QED
      BY <3>1, <2>2
  <2>5. Taken(g) + Len(g.wire) = 1 /\ \A i \in 1 .. Len(g.wire) : g.wire[i] = Handshake
    BY <2>3, <1>3, <1>4, <1>w
  <2>6. Greeting(g)
    BY <2>4, <2>5 DEF Greeting, ga
  <2> QED
    BY <1>2, <1>4, <1>6, <2>6 DEF StreamInv, StreamShape, HoldsFirst, Takes, IsOpen, IsStarted, t
<1> QED
  BY <1>5, <1>6, <1>1 DEF RemoteStore

\* The call is opened: the handshake is on its way.
LEMMA StreamResume ==
    ASSUME IInv, ResumeStartWithCredentials, Head(tasks).fresh
    PROVE  /\ remote' \in RemoteStore /\ StreamInv(remote', queue[currentUser])
           /\ remote'.token = Head(tasks).user /\ ~remote'.handshake /\ remote'.status = "none"
           /\ remote.state = "Starting"
<1> DEFINE c == remote
           a == [c EXCEPT !.state = "Open", !.token = Head(tasks).user]
           g == [a EXCEPT !.wire = <<Handshake>>, !.idle = FALSE]
<1>1. tasks \in Seq(Task) /\ tasks # <<>> /\ Head(tasks).task = "token"
  BY DEF IInv, TypeOK, ResumeStartWithCredentials
<1>2. Head(tasks) \in Task /\ Head(tasks) = tasks[1] /\ 1 \in 1 .. Len(tasks)
  BY <1>1, TailFacts
<1>3. Head(tasks).user \in Users /\ IsFreshToken(tasks[1])
  BY <1>1, <1>2 DEF Task, IsFreshToken
<1>4. c.state = "Starting" /\ TRUE \notin c.asked
  BY <1>2, <1>3 DEF IInv, RequestInv
<1>5. c \in RemoteStore /\ StreamInv(c, queue[currentUser]) /\ StreamShape(c)
  BY InvFacts
<1>6. Quiet(c) /\ ~c.handshake /\ IsStarted(c)
  BY <1>4, ClosedFacts DEF IsOpen, IsStarted
<1>7. <<Handshake>> \in Seq(Wire) /\ <<Handshake>> # <<>>
  BY DEF Wire
<1>8. /\ a \in RemoteStore /\ a.enabled = c.enabled /\ a.pipeline = c.pipeline /\ a.state = "Open"
      /\ a.handshake = c.handshake /\ a.asked = c.asked /\ a.token = Head(tasks).user
      /\ a.wire = c.wire /\ a.answers = c.answers /\ a.status = c.status
  BY <1>3, <1>5 DEF RemoteStore
<1>9. remote' = Write(a, <<Handshake>>)
  BY DEF ResumeStartWithCredentials
<1> HIDE DEF a
<1>10. remote' = g
  <2>1. a.wire \o <<Handshake>> = <<Handshake>>
    BY <1>6, <1>7, <1>8 DEF Quiet
  <2> QED
    BY <2>1, <1>7, <1>8, <1>9 DEF Write, RemoteStore
<1>11. /\ g \in RemoteStore /\ g.enabled = c.enabled /\ g.pipeline = c.pipeline /\ g.state = "Open"
       /\ g.handshake = c.handshake /\ g.asked = c.asked /\ g.token = Head(tasks).user
       /\ g.wire = <<Handshake>> /\ g.answers = c.answers /\ g.status = c.status /\ ~g.idle
  BY <1>7, <1>8 DEF RemoteStore
<1> HIDE DEF g
<1>12. Greeting(g)
  <2>1. g.answers = <<>> /\ g.status = "none"
    BY <1>6, <1>11 DEF Quiet
  <2>2. Taken(g) = 0
    BY <2>1, <1>11, TakenFacts
  <2>3. Len(g.wire) = 1 /\ g.wire[1] = Handshake
    BY <1>11
  <2> QED
    BY <2>1, <2>2, <2>3 DEF Greeting
<1>13. StreamShape(g)
  BY <1>4, <1>5, <1>6, <1>11, <1>12 DEF StreamShape, IsOpen, IsStarted
<1>14. StreamInv(g, queue[currentUser])
  BY <1>5, <1>11, <1>13 DEF StreamInv, HoldsFirst
<1> QED
  BY <1>4, <1>6, <1>10, <1>11, <1>14 DEF Quiet

\* A token is handed over.
LEMMA StreamTokenArrives ==
    ASSUME IInv, NEW fresh \in BOOLEAN, TokenArrives(fresh)
    PROVE  /\ remote'.state = remote.state /\ remote'.asked = remote.asked \ {fresh}
           /\ remote' \in RemoteStore /\ StreamInv(remote', queue[currentUser])
           /\ remote'.answers = remote.answers /\ remote'.handshake = remote.handshake
           /\ remote'.status = remote.status /\ remote'.token = remote.token
<1> DEFINE c == remote
           b == c.asked \ {fresh}
           g == [c EXCEPT !.asked = b]
<1>1. c \in RemoteStore /\ StreamInv(c, queue[currentUser]) /\ StreamShape(c)
  BY InvFacts
<1>2. b \in SUBSET BOOLEAN
  BY <1>1 DEF RemoteStore
<1>3. remote' = g
  BY <1>1 DEF TokenArrives, RemoteStore
<1>b. TRUE \in b => TRUE \in c.asked
  OBVIOUS
<1> HIDE DEF b
<1>4. /\ g \in RemoteStore /\ g.enabled = c.enabled /\ g.pipeline = c.pipeline /\ g.state = c.state
      /\ g.handshake = c.handshake /\ g.idle = c.idle /\ g.asked = b /\ g.token = c.token
      /\ g.wire = c.wire /\ g.answers = c.answers /\ g.status = c.status
  BY <1>1, <1>2 DEF RemoteStore
<1> HIDE DEF g
<1>5. StreamShape(g)
  <2>1. /\ IsOpen(g) <=> IsOpen(c)
        /\ IsStarted(g) <=> IsStarted(c)
        /\ Quiet(g) <=> Quiet(c)
        /\ Greeting(g) <=> Greeting(c)
        /\ LinedUp(g) <=> LinedUp(c)
    BY <1>4 DEF IsOpen, IsStarted, Quiet, Greeting, LinedUp, Taken
  <2> QED
    BY <2>1, <1>1, <1>4, <1>b DEF StreamShape
<1>6. StreamInv(g, queue[currentUser])
  BY <1>1, <1>4, <1>5 DEF StreamInv, HoldsFirst
<1> QED
  BY <1>3, <1>4, <1>6 DEF b

\* The handshake is complete: the whole pipeline is on its way.
LEMMA StreamHandshakeComplete ==
    ASSUME IInv, OnWriteStreamHandshakeComplete
    PROVE  /\ remote' \in RemoteStore /\ StreamInv(remote', queue[currentUser])
           /\ remote'.answers = <<>> /\ remote'.handshake /\ remote'.status = "none"
           /\ remote'.token = remote.token /\ remote'.state = remote.state
           /\ remote'.asked = remote.asked /\ IsOpen(remote)
<1> DEFINE c == remote
           m == WriteOf(c.pipeline)
           a == [c EXCEPT !.handshake = TRUE, !.answers = <<>>]
           g == [a EXCEPT !.wire = m, !.idle = FALSE]
<1>1. c \in RemoteStore /\ StreamInv(c, queue[currentUser]) /\ StreamShape(c)
  BY InvFacts
<1>2. c.answers # <<>> /\ ~c.handshake
  BY DEF OnWriteStreamHandshakeComplete
<1>3. IsOpen(c) /\ IsStarted(c) /\ Greeting(c)
  BY <1>1, <1>2 DEF StreamShape, Quiet, IsOpen, IsStarted
<1>4. Tail(c.answers) = <<>> /\ c.wire = <<>> /\ c.status = "none"
  <2> DEFINE n == Len(c.answers)
             w == Len(c.wire)
             t == Taken(c)
  <2>1. n \in Nat /\ n > 0 /\ w \in Nat /\ c.answers \in Seq(Wire) /\ c.wire \in Seq(Wire)
    BY <1>1, <1>2 DEF RemoteStore
  <2>2. /\ c.status = "none" => t = n
        /\ c.status # "none" => t = n + 1
    BY <1>1, TakenFacts
  <2>3. t + w = 1
    BY <1>3 DEF Greeting
  <2> HIDE DEF n, w, t
  <2>4. n = 1 /\ w = 0 /\ c.status = "none"
    BY <2>1, <2>2, <2>3
  <2>5. Tail(c.answers) \in Seq(Wire) /\ Len(Tail(c.answers)) = n - 1
    BY <1>2, <2>1, TailFacts DEF n
  <2> DEFINE rest == Tail(c.answers)
  <2>r. rest \in Seq(Wire) /\ Len(rest) = 0
    BY <2>4, <2>5
  <2> HIDE DEF rest
  <2>6. rest = <<>>
    BY <2>r
  <2>7. c.wire = <<>>
    BY <2>1, <2>4 DEF w
  <2> QED
    BY <2>4, <2>6, <2>7 DEF rest
<1>5. /\ m \in Seq(Wire) /\ Len(m) = Len(c.pipeline)
      /\ \A i \in 1 .. Len(c.pipeline) : m[i] = c.pipeline[i].write
  <2>1. c.pipeline \in Seq(Batch) /\ Len(c.pipeline) \in Nat
    BY <1>1 DEF RemoteStore
  <2>2. \A i \in 1 .. Len(c.pipeline) : c.pipeline[i].write \in Wire
    <3>1. \A i \in 1 .. Len(c.pipeline) : c.pipeline[i].write \in Writes
      BY <2>1, BatchFields
    <3> QED
      BY <3>1 DEF Wire
  <2>3. m = [i \in 1 .. Len(c.pipeline) |-> c.pipeline[i].write]
    BY <2>1 DEF WriteOf
  <2>4. m \in [1 .. Len(c.pipeline) -> Wire]
    BY <2>2, <2>3
  <2>5. m \in Seq(Wire) /\ Len(m) = Len(c.pipeline)
    BY <2>1, <2>4, FunctionIsSeq
  <2> QED
    BY <2>3, <2>5
<1>6. Len(c.pipeline) > 0
  BY <1>1, <1>2, <1>3 DEF StreamShape
<1>7. m # <<>>
  BY <1>5, <1>6
<1>a. remote' = Write([c EXCEPT !.handshake = TRUE, !.answers = Tail(@)], m)
  BY DEF OnWriteStreamHandshakeComplete
<1> HIDE DEF m
<1>8. remote' = Write(a, m)
  BY <1>a, <1>1, <1>4 DEF RemoteStore
<1>9. /\ a \in RemoteStore /\ a.enabled = c.enabled /\ a.pipeline = c.pipeline /\ a.state = c.state
      /\ a.handshake /\ a.asked = c.asked /\ a.token = c.token
      /\ a.wire = c.wire /\ a.answers = <<>> /\ a.status = c.status
  <2>1. <<>> \in Seq(Wire)
    OBVIOUS
  <2> QED
    BY <2>1, <1>1 DEF RemoteStore
<1> HIDE DEF a
<1>10. remote' = g
  <2>1. a.wire \o m = m
    BY <1>4, <1>5, <1>9
  <2> QED
    BY <2>1, <1>7, <1>8, <1>9 DEF Write, RemoteStore
<1>11. /\ g \in RemoteStore /\ g.enabled = c.enabled /\ g.pipeline = c.pipeline /\ g.state = c.state
       /\ g.handshake /\ g.asked = c.asked /\ g.token = c.token
       /\ g.wire = m /\ g.answers = <<>> /\ g.status = "none" /\ ~g.idle
  BY <1>4, <1>5, <1>9 DEF RemoteStore
<1> HIDE DEF g
<1>12. LinedUp(g)
  <2>1. Taken(g) = 0 /\ Len(g.answers) = 0
    BY <1>11, TakenFacts
  <2> DEFINE n == Len(c.pipeline)
  <2>2. Len(g.wire) = n /\ Len(g.pipeline) = n /\ \A i \in 1 .. n : g.wire[i] = g.pipeline[i].write
    BY <1>5, <1>11
  <2>3. n \in Nat
    BY <1>1 DEF RemoteStore
  <2> HIDE DEF n
  <2>4. 0 + n = n /\ \A i \in 1 .. n : 0 + i = i
    BY <2>3
  <2> QED
    BY <2>1, <2>2, <2>4 DEF LinedUp
<1>13. IsOpen(g) /\ IsStarted(g)
  BY <1>3, <1>11 DEF IsOpen, IsStarted
<1>14. StreamShape(g)
  BY <1>1, <1>3, <1>11, <1>12, <1>13 DEF StreamShape
<1>15. StreamInv(g, queue[currentUser])
  BY <1>1, <1>11, <1>14 DEF StreamInv, HoldsFirst
<1> QED
  BY <1>3, <1>10, <1>11, <1>15

\* An answer is read: the front of the queue is settled, and the rest of the
\* call is for what is left of it.
LEMMA StreamMutationResult ==
    ASSUME IInv, OnWriteStreamMutationResult
    PROVE  /\ Settles("ok")
           /\ remote' \in RemoteStore /\ StreamInv(remote', queue'[currentUser])
           /\ remote'.answers = Tail(remote.answers) /\ remote'.handshake
           /\ remote'.status = remote.status /\ remote'.token = remote.token
           /\ remote'.state = remote.state /\ remote'.asked = remote.asked
           /\ remote.answers # <<>> /\ remote.handshake
<1> DEFINE c == remote
           q == queue[currentUser]
           r == Tail(q)
           a == Tail(c.answers)
           p == Tail(c.pipeline)
           d == [c EXCEPT !.answers = a, !.pipeline = p]
<1>1. c \in RemoteStore /\ StreamInv(c, q) /\ StreamShape(c) /\ q \in Seq(Batch) /\ Sorted(q)
  BY InvFacts
<1>2. c.answers # <<>> /\ c.handshake
  BY DEF OnWriteStreamMutationResult
<1>3. /\ c.enabled /\ IsOpen(c) /\ LinedUp(c)
      /\ Len(c.answers) \in Nat /\ Len(c.wire) \in Nat /\ Taken(c) \in Nat
      /\ Len(c.answers) <= Taken(c) /\ Taken(c) + Len(c.wire) = Len(c.pipeline)
  BY <1>1, <1>2, UnderWay DEF StreamShape
<1>4. c.answers \in Seq(Wire) /\ Len(c.answers) > 0 /\ c.pipeline \in Seq(Batch)
  BY <1>1, <1>2 DEF RemoteStore
<1>5. Len(c.pipeline) > 0 /\ c.pipeline # <<>> /\ Len(c.pipeline) \in Nat
  <2> DEFINE la == Len(c.answers)
             lw == Len(c.wire)
             t == Taken(c)
             lp == Len(c.pipeline)
  <2>1. la > 0 /\ la \in Nat /\ lw \in Nat /\ t \in Nat /\ la <= t /\ t + lw = lp
    BY <1>3, <1>4
  <2> HIDE DEF la, lw, t, lp
  <2>2. lp > 0 /\ lp \in Nat
    BY <2>1
  <2> QED
    BY <2>2, <1>4 DEF lp
<1>6. Settles("ok")
  BY <1>5, Settled DEF OnWriteStreamMutationResult
<1>7. Len(q) > 0 /\ queue'[currentUser] = r
  BY <1>6, InvFacts DEF Settles
<1>8. /\ r \in Seq(Batch) /\ Sorted(r) /\ Len(r) = Len(q) - 1
      /\ \A i \in 1 .. Len(q) - 1 : r[i] = q[i + 1]
      /\ Held(q) > 0 /\ Held(q) - 1 \in 0 .. Held(r) /\ Held(q) - 1 <= Len(q) - 1
      /\ Held(q) \in Nat /\ Len(q) \in Nat
  BY <1>1, <1>7, TailQueue, HeldFacts
<1>9. /\ a \in Seq(Wire) /\ Len(a) = Len(c.answers) - 1
      /\ \A i \in 1 .. Len(c.answers) - 1 : a[i] = c.answers[i + 1]
  BY <1>2, <1>4, TailFacts
<1>10. /\ p \in Seq(Batch) /\ Len(p) = Len(c.pipeline) - 1
       /\ \A i \in 1 .. Len(c.pipeline) - 1 : p[i] = c.pipeline[i + 1]
  BY <1>4, <1>5, TailFacts
<1>11. remote' = FillWritePipeline(d, r)
  <2>1. d = [c EXCEPT !.answers = Tail(@), !.pipeline = Tail(@)]
    BY <1>1 DEF RemoteStore
  <2> QED
    BY <2>1, <1>7 DEF OnWriteStreamMutationResult
<1> HIDE DEF r, a, p
<1>12. /\ d \in RemoteStore /\ d.enabled = c.enabled /\ d.pipeline = p /\ d.state = c.state
       /\ d.handshake = c.handshake /\ d.idle = c.idle /\ d.asked = c.asked /\ d.token = c.token
       /\ d.wire = c.wire /\ d.answers = a /\ d.status = c.status
  BY <1>1, <1>9, <1>10 DEF RemoteStore
<1>13. IsOpen(d) /\ IsStarted(d)
  BY <1>3, <1>12 DEF IsOpen, IsStarted
<1> HIDE DEF d
<1>14. LinedUp(d)
  <2> DEFINE la == Len(c.answers)
             lw == Len(c.wire)
             t == Taken(c)
             lp == Len(c.pipeline)
  <2>1. la > 0 /\ la \in Nat /\ lw \in Nat /\ t \in Nat /\ la <= t /\ t + lw = lp /\ lp \in Nat
    BY <1>3, <1>4, <1>5
  <2>2. Len(a) = la - 1 /\ Len(p) = lp - 1
    BY <1>9, <1>10
  <2>3. Taken(d) = t - 1
    <3>1. /\ c.status = "none" => t = la /\ Taken(d) = Len(a)
          /\ c.status # "none" => t = la + 1 /\ Taken(d) = Len(a) + 1
      BY <1>1, <1>12, TakenFacts
    <3> HIDE DEF la, lw, t, lp
    <3> QED
      BY <3>1, <2>1, <2>2
  <2>4. /\ \A i \in 1 .. la : c.answers[i] = c.pipeline[i].write
        /\ \A i \in 1 .. lw : c.wire[i] = c.pipeline[t + i].write
        /\ \A i \in 1 .. la - 1 : a[i] = c.answers[i + 1]
        /\ \A i \in 1 .. lp - 1 : p[i] = c.pipeline[i + 1]
    BY <1>3, <1>9, <1>10 DEF LinedUp
  <2> HIDE DEF la, lw, t, lp
  <2>5. ASSUME NEW i \in 1 .. la - 1 PROVE a[i] = p[i].write
    <3>1. i + 1 \in 1 .. la /\ i \in 1 .. lp - 1
      BY <2>1
    <3> QED
      BY <3>1, <2>4
  <2>6. ASSUME NEW i \in 1 .. lw PROVE c.wire[i] = p[(t - 1) + i].write
    <3>1. (t - 1) + i \in 1 .. lp - 1 /\ ((t - 1) + i) + 1 = t + i
      BY <2>1
    <3> QED
      BY <3>1, <2>4
  <2>7. (t - 1) + lw = lp - 1
    BY <2>1
  <2>8. Len(d.answers) = la - 1 /\ Len(d.wire) = lw /\ Len(d.pipeline) = lp - 1
    BY <2>2, <1>12 DEF lw
  <2> QED
    BY <2>3, <2>5, <2>6, <2>7, <2>8, <1>12 DEF LinedUp
<1>15. StreamShape(d)
  <2>1. ~d.idle
    BY <1>1, <1>5, <1>12 DEF StreamShape
  <2> QED
    BY <2>1, <1>1, <1>2, <1>3, <1>12, <1>13, <1>14 DEF StreamShape
<1>16. HoldsFirst(d, r, Held(q) - 1)
  <2> DEFINE h == Held(q)
             n == Len(q)
  <2>1. Len(c.pipeline) = h /\ \A i \in 1 .. h : c.pipeline[i] = q[i]
    BY <1>1, <1>3 DEF StreamInv, HoldsFirst
  <2>2. /\ Len(p) = h - 1 /\ \A i \in 1 .. h - 1 : p[i] = c.pipeline[i + 1]
        /\ \A i \in 1 .. n - 1 : r[i] = q[i + 1]
        /\ h \in Nat /\ n \in Nat /\ h - 1 <= n - 1
    BY <2>1, <1>8, <1>10
  <2> HIDE DEF h, n
  <2>3. ASSUME NEW i \in 1 .. h - 1 PROVE p[i] = r[i]
    <3>1. i + 1 \in 1 .. h /\ i \in 1 .. n - 1
      BY <2>2
    <3> QED
      BY <3>1, <2>1, <2>2
  <2> QED
    BY <2>2, <2>3, <1>12 DEF HoldsFirst, h
<1>17. SameCall(d, FillWritePipeline(d, r)) /\ StreamInv(FillWritePipeline(d, r), r)
  <2> DEFINE k == Held(q) - 1
  <2>1. k \in 0 .. Held(r) /\ HoldsFirst(d, r, k)
    BY <1>8, <1>16
  <2> HIDE DEF k
  <2> QED
    BY <2>1, <1>3, <1>8, <1>12, <1>15, FillKeepsCall
<1>18. SameCall(d, remote') /\ StreamInv(remote', r)
  BY <1>11, <1>17
<1> QED
  BY <1>2, <1>6, <1>7, <1>12, <1>13, <1>18 DEF SameCall, a

----------------------------------------------------------------------------
\* The kinds of steps there are.

Kept == UNCHANGED <<queue, currentUser, nextBatchId, callbacks, waits, accepted, outcome, released>>

\* The answers still to be read are the same.
CallKept ==
    /\ UnreadCommits' = UnreadCommits
    /\ UnreadCommits # 0 => remote'.answers = remote.answers
    /\ remote'.handshake /\ remote'.status = Rejected =>
          remote.handshake /\ remote.status = Rejected /\ remote'.answers = remote.answers

\* No queue, no history and no answer is concerned.
Internal == Kept /\ CallKept /\ UNCHANGED <<log, refused, lost>>

\* The stream is closed, over no write.
Drop == Kept /\ Offline

\* The stream is closed over the front of the queue.
Rejection ==
    /\ Offline /\ Settles("rejected") /\ UNCHANGED <<currentUser, nextBatchId>>
    /\ remote.handshake /\ remote.status = Rejected

StreamKept == remote' \in RemoteStore /\ StreamInv(remote', queue'[currentUser'])

\* A stream that is down is in step with any queue.
LEMMA OfflineKeepsStream ==
    ASSUME Offline
    PROVE  StreamKept
BY DEF Offline, StreamKept

\* Steps that do not touch the stream.
LEMMA RemoteSame ==
    ASSUME IInv, remote' = remote, queue' = queue, currentUser' = currentUser
    PROVE  StreamKept /\ CallKept
<1>1. StreamKept
  BY InvFacts DEF StreamKept
<1>2. CallKept
  BY DEF CallKept, UnreadCommits
<1> QED
  BY <1>1, <1>2

\* On a stream whose handshake is complete only writes are under way.
LEMMA HandshakeComesFirst ==
    ASSUME IInv, remote.wire # <<>>
    PROVE  Head(remote.wire) = Handshake <=> ~remote.handshake
<1>1. remote.wire \in Seq(Wire) /\ remote \in RemoteStore /\ StreamShape(remote)
  BY InvFacts DEF RemoteStore
<1>2. Len(remote.wire) > 0 /\ Head(remote.wire) = remote.wire[1] /\ 1 \in 1 .. Len(remote.wire)
  BY <1>1, TailFacts
<1>3. CASE remote.handshake
  <2> DEFINE n == Taken(remote) + 1
             w == Len(remote.wire)
  <2>1. remote.wire[1] = queue[currentUser][n].write
    BY <1>2, <1>3, UnderWay
  <2>2. n \in 1 .. Len(queue[currentUser])
    <3> DEFINE t == Taken(remote)
               l == Len(queue[currentUser])
    <3>1. t \in Nat /\ w \in Nat /\ l \in Nat /\ t + w <= l /\ w > 0
      BY <1>2, <1>3, UnderWay
    <3> HIDE DEF t, l, w
    <3> QED
      BY <3>1 DEF t, l
  <2> HIDE DEF n
  <2>3. queue[currentUser][n].write \in Writes
    BY <2>2, InvFacts, BatchFields
  <2>4. 0 \notin Writes
    BY BoundsAssumption DEF Writes
  <2> QED
    BY <2>1, <2>3, <2>4, <1>2, <1>3 DEF Handshake
<1>4. CASE ~remote.handshake
  <2>1. IsOpen(remote)
    BY <1>1 DEF StreamShape, Quiet
  <2>2. Greeting(remote)
    BY <1>1, <1>4, <2>1 DEF StreamShape
  <2>3. remote.wire[1] = Handshake
    BY <2>2, <1>2 DEF Greeting
  <2> QED
    BY <2>3, <1>2, <1>4
<1> QED
  BY <1>3, <1>4

\* A step of the backend keeps the stream in step with the queue.
LEMMA ServerTakes ==
    ASSUME IInv, NEW g, Takes(remote, g), remote' = g, queue' = queue, currentUser' = currentUser
    PROVE  StreamKept
<1>1. StreamInv(g, queue[currentUser]) /\ g \in RemoteStore
  BY InvFacts, TakesKeeps DEF Takes
<1> QED
  BY <1>1 DEF StreamKept

\* The steps of the worker queue and of the application that leave the stream
\* and the queues alone.
LEMMA InternalSteps ==
    ASSUME IInv,
           \/ IssueWrite \/ WaitForPendingWrites \/ (\E u \in Users : AuthStateChanges(u))
           \/ (\E fresh \in BOOLEAN : TokenArrives(fresh)) \/ ResumeStartWithCredentials
           \/ ServerHandshake \/ ServerGivesUp \/ OnWriteStreamHandshakeComplete
           \/ UNCHANGED vars
    PROVE  StreamKept /\ Internal
<1>u. Kept /\ UNCHANGED <<log, refused, lost>>
  BY DEF IssueWrite, WaitForPendingWrites, AuthStateChanges, TokenArrives, ResumeStartWithCredentials,
     ServerHandshake, ServerGivesUp, OnWriteStreamHandshakeComplete, vars, store, history, Kept
<1>q. queue' = queue /\ currentUser' = currentUser
  BY <1>u DEF Kept
<1>r. remote \in RemoteStore
  BY InvFacts
<1> SUFFICES StreamKept /\ CallKept
  BY <1>u DEF Internal
<1>1. CASE remote' = remote
  BY <1>1, <1>q, RemoteSame
<1>2. ASSUME NEW fresh \in BOOLEAN, TokenArrives(fresh) PROVE StreamKept /\ CallKept
  <2>1. StreamKept
    BY <1>2, <1>q, StreamTokenArrives DEF StreamKept
  <2>2. CallKept
    BY <1>2, StreamTokenArrives DEF CallKept, UnreadCommits
  <2> QED
    BY <2>1, <2>2
<1>3. CASE ResumeStartWithCredentials
  <2>1. CASE Head(tasks).fresh
    <3>1. StreamKept
      BY <1>3, <2>1, <1>q, StreamResume DEF StreamKept
    <3>2. ~remote'.handshake /\ remote.state = "Starting"
      BY <1>3, <2>1, StreamResume
    <3>3. ~remote.handshake
      BY <3>2, ClosedFacts DEF IsOpen
    <3>4. CallKept
      BY <3>2, <3>3 DEF CallKept, UnreadCommits
    <3> QED
      BY <3>1, <3>4
  <2>2. CASE ~Head(tasks).fresh
    BY <1>3, <2>2, <1>1 DEF ResumeStartWithCredentials
  <2> QED
    BY <2>1, <2>2
<1>4. CASE ServerHandshake
  <2> DEFINE g == [remote EXCEPT !.wire = Tail(@), !.answers = Append(@, Head(remote.wire))]
  <2>1. remote' = g /\ remote.status = "none" /\ remote.wire # <<>> /\ Head(remote.wire) = Handshake
    BY <1>4 DEF ServerHandshake
  <2>2. Takes(remote, g)
    BY <2>1, <1>r, TakesAnswering
  <2> HIDE DEF g
  <2>3. StreamKept
    BY <2>1, <2>2, <1>q, ServerTakes
  <2>4. ~remote.handshake /\ ~remote'.handshake
    BY <2>1, <2>2, HandshakeComesFirst DEF Takes
  <2> QED
    BY <2>3, <2>4 DEF CallKept, UnreadCommits
<1>5. CASE ServerGivesUp
  <2> DEFINE s == IF Head(remote.wire) = Handshake THEN Rejected ELSE Aborted
             g == [remote EXCEPT !.wire = Tail(@), !.status = s]
  <2>1. remote' = g /\ remote.status = "none" /\ remote.wire # <<>>
    BY <1>5 DEF ServerGivesUp
  <2>2. s \in {Rejected, Aborted}
    OBVIOUS
  <2>s. remote.handshake => s # Rejected
    BY <2>1, HandshakeComesFirst DEF Rejected, Aborted
  <2> HIDE DEF s
  <2>3. Takes(remote, g)
    BY <2>1, <2>2, <1>r, TakesEnding
  <2>4. g.status = s /\ g.answers = remote.answers /\ g.handshake = remote.handshake
    BY <1>r DEF RemoteStore
  <2> HIDE DEF g
  <2>5. StreamKept
    BY <2>1, <2>3, <1>q, ServerTakes
  <2> QED
    BY <2>1, <2>4, <2>5, <2>s DEF CallKept, UnreadCommits
<1>6. CASE OnWriteStreamHandshakeComplete
  <2>1. StreamKept
    BY <1>6, <1>q, StreamHandshakeComplete DEF StreamKept
  <2>2. remote'.answers = <<>> /\ remote'.status = "none" /\ ~remote.handshake
    BY <1>6, StreamHandshakeComplete DEF OnWriteStreamHandshakeComplete
  <2>3. UnreadCommits = 0 /\ UnreadCommits' = 0
    BY <2>2 DEF UnreadCommits
  <2> QED
    BY <2>1, <2>2, <2>3 DEF CallKept, Rejected
<1>7. IssueWrite \/ WaitForPendingWrites \/ (\E u \in Users : AuthStateChanges(u)) \/ UNCHANGED vars
      => remote' = remote
  BY DEF IssueWrite, WaitForPendingWrites, AuthStateChanges, vars
<1> QED
  BY <1>1, <1>2, <1>3, <1>4, <1>5, <1>6, <1>7

\* The steps that end a stream drop what was in flight, or settle a refusal.
LEMMA DropSteps ==
    ASSUME IInv,
           \/ TokenFails \/ BackoffElapses \/ IdleTimeout \/ StreamBreaks \/ OnStreamFinish
           \/ (\E available \in BOOLEAN : ConnectivityChanges(available))
           \/ DisableNetwork \/ ReenableNetwork
    PROVE  StreamKept /\ (Drop \/ Rejection)
<1>1. CASE \/ TokenFails \/ BackoffElapses \/ IdleTimeout
           \/ (\E available \in BOOLEAN : ConnectivityChanges(available))
           \/ DisableNetwork \/ ReenableNetwork
  <2>1. Offline
    BY <1>1, OfflineTokenFails, OfflineBackoffElapses, OfflineIdleTimeout,
       OfflineConnectivityChanges, OfflineDisableNetwork, OfflineReenableNetwork
  <2>2. Kept
    BY <1>1 DEF TokenFails, BackoffElapses, IdleTimeout, ConnectivityChanges, DisableNetwork,
       ReenableNetwork, store, history, Kept
  <2> QED
    BY <2>1, <2>2, OfflineKeepsStream DEF Drop
<1>2. CASE StreamBreaks
  <2>1. IsOpen(remote) /\ StreamClosed(Unavailable) /\ ~HandleWriteError(remote, Unavailable)
    BY <1>2 DEF StreamBreaks, HandleWriteError, IsPermanentWriteError, Unavailable, Rejected
  <2>2. Offline /\ UNCHANGED <<queue, callbacks, waits, outcome, released>>
    BY <2>1, OfflineStreamClosed
  <2>3. Kept
    BY <2>1, <2>2 DEF StreamClosed, Kept
  <2> QED
    BY <2>2, <2>3, OfflineKeepsStream DEF Drop
<1>3. CASE OnStreamFinish
  <2>1. IsOpen(remote) /\ StreamClosed(remote.status)
    BY <1>3, FinishedWasOpen DEF OnStreamFinish
  <2>2. /\ Offline /\ UNCHANGED <<currentUser, nextBatchId, accepted>>
        /\ \/ HandleWriteError(remote, remote.status) /\ Settles("rejected")
           \/ UNCHANGED <<queue, callbacks, waits, outcome, released>>
    BY <2>1, OfflineStreamClosed DEF StreamClosed
  <2> QED
    BY <2>2, OfflineKeepsStream DEF Drop, Rejection, Kept, HandleWriteError, IsPermanentWriteError
<1> QED
  BY <1>1, <1>2, <1>3

\* The backend applies or refuses the next write.
LEMMA ServerSteps ==
    ASSUME IInv, ServerCommit \/ ServerRefuse
    PROVE  /\ StreamKept /\ Kept /\ remote.handshake /\ remote'.handshake
           /\ remote.status = "none" /\ Len(remote.wire) > 0
           /\ Head(remote.wire) = queue[currentUser][Len(remote.answers) + 1].write
           /\ Len(remote.answers) + 1 \in 1 .. Len(queue[currentUser])
           /\ Head(remote.wire) \in Writes
           /\ ServerCommit => /\ remote'.answers = Append(remote.answers, Head(remote.wire))
                              /\ remote'.status = "none"
           /\ ServerRefuse => remote'.answers = remote.answers
<1> DEFINE g1 == [remote EXCEPT !.wire = Tail(@), !.answers = Append(@, Head(remote.wire))]
           g2 == [remote EXCEPT !.wire = Tail(@), !.status = Rejected]
<1>0. remote \in RemoteStore /\ queue[currentUser] \in Seq(Batch)
  BY InvFacts
<1>1. remote.status = "none" /\ remote.wire # <<>> /\ Head(remote.wire) # Handshake /\ Kept
  BY DEF ServerCommit, ServerRefuse, Kept, store
<1>2. remote.handshake
  BY <1>1, HandshakeComesFirst
<1>3. /\ g1.answers = Append(remote.answers, Head(remote.wire)) /\ g1.status = remote.status
      /\ g2.answers = remote.answers /\ g1.handshake = remote.handshake /\ g2.handshake = remote.handshake
  BY <1>0 DEF RemoteStore
<1>4. Takes(remote, g1) /\ Takes(remote, g2)
  BY <1>0, <1>1, TakesAnswering, TakesEnding
<1>5. (ServerCommit => remote' = g1) /\ (ServerRefuse => remote' = g2)
  BY DEF ServerCommit, ServerRefuse
<1> HIDE DEF g1, g2
<1>6. StreamKept
  BY <1>1, <1>4, <1>5, ServerTakes DEF Kept
<1>7. Len(remote.wire) > 0 /\ Head(remote.wire) = remote.wire[1] /\ 1 \in 1 .. Len(remote.wire)
  BY <1>0, <1>1, TailFacts DEF RemoteStore
<1> DEFINE n == Len(remote.answers)
<1>8. Taken(remote) = n
  BY <1>0, <1>1, TakenFacts
<1>9. /\ remote.wire[1] = queue[currentUser][n + 1].write
      /\ n + 1 \in 1 .. Len(queue[currentUser])
  <2> DEFINE l == Len(queue[currentUser])
             w == Len(remote.wire)
  <2>1. n \in Nat /\ w \in Nat /\ l \in Nat /\ n + w <= l /\ w > 0
    BY <1>2, <1>7, <1>8, UnderWay
  <2>2. remote.wire[1] = queue[currentUser][n + 1].write
    BY <1>2, <1>7, <1>8, UnderWay
  <2> HIDE DEF l, w, n
  <2>3. n + 1 \in 1 .. l
    BY <2>1
  <2> QED
    BY <2>2, <2>3 DEF l
<1> HIDE DEF n
<1>10. queue[currentUser][n + 1].write \in Writes
  BY <1>0, <1>9, BatchFields
<1> QED
  BY <1>1, <1>2, <1>3, <1>5, <1>6, <1>7, <1>9, <1>10 DEF n

\* Every step is of one of these kinds.
LEMMA StepKinds ==
    ASSUME IInv, [Next]_vars
    PROVE  /\ StreamKept
           /\ \/ Internal \/ Drop \/ Rejection
              \/ HandleCredentialChange /\ Offline
              \/ (Kill \/ KillInAcknowledge) /\ Offline
              \/ WriteMutations \/ RegisterPendingWritesCallback
              \/ ServerCommit \/ ServerRefuse \/ OnWriteStreamMutationResult
<1>1. CASE \/ IssueWrite \/ WaitForPendingWrites \/ (\E u \in Users : AuthStateChanges(u))
           \/ (\E fresh \in BOOLEAN : TokenArrives(fresh)) \/ ResumeStartWithCredentials
           \/ ServerHandshake \/ ServerGivesUp \/ OnWriteStreamHandshakeComplete
           \/ UNCHANGED vars
  BY <1>1, InternalSteps
<1>2. CASE \/ TokenFails \/ BackoffElapses \/ IdleTimeout \/ StreamBreaks \/ OnStreamFinish
           \/ (\E available \in BOOLEAN : ConnectivityChanges(available))
           \/ DisableNetwork \/ ReenableNetwork
  BY <1>2, DropSteps
<1>3. CASE HandleCredentialChange
  BY <1>3, OfflineHandleCredentialChange, OfflineKeepsStream
<1>4. CASE Kill \/ KillInAcknowledge
  BY <1>4, OfflineRestart, OfflineKeepsStream DEF Kill, KillInAcknowledge
<1>5. CASE WriteMutations
  BY <1>5, StreamWriteMutations DEF StreamKept, SameCall
<1>6. CASE RegisterPendingWritesCallback
  BY <1>6, RemoteSame DEF RegisterPendingWritesCallback
<1>7. CASE ServerCommit \/ ServerRefuse
  BY <1>7, ServerSteps
<1>8. CASE OnWriteStreamMutationResult
  <2>1. currentUser' = currentUser
    BY <1>8 DEF OnWriteStreamMutationResult
  <2> QED
    BY <1>8, <2>1, StreamMutationResult DEF StreamKept
<1> QED
  BY <1>1, <1>2, <1>3, <1>4, <1>5, <1>6, <1>7, <1>8 DEF Next, Client, Server, Device

----------------------------------------------------------------------------
\* The queues, step by step.

LEMMA HeadTask ==
    ASSUME IInv, tasks # <<>>
    PROVE  /\ tasks \in Seq(Task) /\ Head(tasks) \in Task /\ Head(tasks) = tasks[1]
           /\ Len(tasks) \in Nat /\ 1 \in 1 .. Len(tasks)
           /\ Tail(tasks) \in Seq(Task) /\ Len(Tail(tasks)) = Len(tasks) - 1
           /\ \A i \in 1 .. Len(tasks) - 1 : Tail(tasks)[i] = tasks[i + 1]
           /\ Head(tasks).task = "write" => Head(tasks).write \in Writes
<1>1. tasks \in Seq(Task)
  BY DEF IInv, TypeOK
<1>2. /\ Head(tasks) \in Task /\ Head(tasks) = tasks[1]
      /\ Len(tasks) \in Nat /\ Len(tasks) > 0
      /\ Tail(tasks) \in Seq(Task) /\ Len(Tail(tasks)) = Len(tasks) - 1
      /\ \A i \in 1 .. Len(tasks) - 1 : Tail(tasks)[i] = tasks[i + 1]
  BY <1>1, TailFacts
<1>3. Head(tasks).task = "write" => Head(tasks).write \in Writes
  BY <1>2 DEF Task
<1> QED
  BY <1>1, <1>2, <1>3

\* The batch WriteMutations makes, and what it appends it to.
LEMMA NewBatch ==
    ASSUME IInv, WriteMutations
    PROVE  LET w == Head(tasks).write
               b == [id |-> nextBatchId, write |-> w]
           IN  /\ b \in Batch /\ w \in Writes /\ IsWriteTask(tasks[1]) /\ tasks[1].write = w
               /\ queue' = [queue EXCEPT ![currentUser] = Append(queue[currentUser], b)]
               /\ accepted' = [accepted EXCEPT ![currentUser] = Append(accepted[currentUser], w)]
               /\ nextBatchId' = nextBatchId + 1
<1> DEFINE w == Head(tasks).write
           b == [id |-> nextBatchId, write |-> w]
<1>1. tasks # <<>> /\ Head(tasks).task = "write"
  BY DEF WriteMutations
<1>2. w \in Writes /\ IsWriteTask(tasks[1]) /\ tasks[1].write = w
  BY <1>1, HeadTask DEF IsWriteTask
<1>3. b \in Batch
  BY <1>2 DEF Batch, IInv, TypeOK
<1>4. /\ queue' = [queue EXCEPT ![currentUser] = Append(@, b)]
      /\ accepted' = [accepted EXCEPT ![currentUser] = Append(@, b.write)]
      /\ nextBatchId' = nextBatchId + 1
  BY DEF WriteMutations
<1>5. b.write = w
  OBVIOUS
<1> HIDE DEF w, b
<1> QED
  BY <1>2, <1>3, <1>4, <1>5, InvFacts DEF IInv, TypeOK, w, b

\* A settled queue is the one before without its front.
Settling ==
    /\ Len(queue[currentUser]) > 0
    /\ queue' = [queue EXCEPT ![currentUser] = Tail(queue[currentUser])]
    /\ UNCHANGED <<accepted, currentUser, nextBatchId>>

\* The steps that settle a write: an answer, and a refusal that was read.
LEMMA SettlingSteps ==
    ASSUME IInv, Rejection \/ OnWriteStreamMutationResult
    PROVE  Settling
<1>1. CASE Rejection
  BY <1>1 DEF Rejection, Offline, Settles, Settling
<1>2. CASE OnWriteStreamMutationResult
  BY <1>2, StreamMutationResult DEF OnWriteStreamMutationResult, Settles, Settling
<1> QED
  BY <1>1, <1>2

\* Steps that leave the queues alone.
LEMMA QueueSame ==
    ASSUME IInv, [Next]_vars, ~WriteMutations, ~Rejection, ~OnWriteStreamMutationResult
    PROVE  UNCHANGED <<queue, accepted>>
<1>1. CASE Internal \/ Drop
  BY <1>1 DEF Internal, Drop, Kept
<1>2. CASE HandleCredentialChange \/ RegisterPendingWritesCallback
  BY <1>2 DEF HandleCredentialChange, RegisterPendingWritesCallback, history
<1>3. CASE Kill \/ KillInAcknowledge
  BY <1>3 DEF Kill, KillInAcknowledge, Restart
<1>4. CASE ServerCommit \/ ServerRefuse
  BY <1>4 DEF ServerCommit, ServerRefuse, store
<1> QED
  BY <1>1, <1>2, <1>3, <1>4, StepKinds

\* No step breaks the order of the queues.
LEMMA QueueStep ==
    ASSUME IInv, [Next]_vars
    PROVE  /\ QueueInv'
           /\ nextBatchId' \in Nat \ {0}
<1>0. /\ queue \in [Users -> Seq(Batch)] /\ accepted \in [Users -> Seq(Writes)]
      /\ currentUser \in Users /\ nextBatchId \in Nat \ {0} /\ TypeOK /\ QueueInv
  BY DEF IInv, TypeOK
<1>1. CASE WriteMutations
  <2> DEFINE u == currentUser
             q == queue[u]
             a == accepted[u]
             w == Head(tasks).write
             b == [id |-> nextBatchId, write |-> w]
             nq == Append(q, b)
             na == Append(a, w)
  <2>1. /\ b \in Batch /\ w \in Writes
        /\ queue' = [queue EXCEPT ![u] = nq]
        /\ accepted' = [accepted EXCEPT ![u] = na]
        /\ nextBatchId' = nextBatchId + 1
    BY <1>1, NewBatch
  <2>2. q \in Seq(Batch) /\ a \in Seq(Writes) /\ QueueOf(q, a, nextBatchId)
    BY <1>0 DEF QueueInv
  <2>b. b.id = nextBatchId /\ b.write = w
    OBVIOUS
  <2> HIDE DEF w, b
  <2>3. \A i \in 1 .. Len(q) : q[i].id < b.id
    BY <2>2, <2>b DEF QueueOf
  <2>4. /\ nq \in Seq(Batch) /\ Sorted(nq) /\ Len(nq) = Len(q) + 1
        /\ \A i \in 1 .. Len(q) : nq[i] = q[i]
        /\ nq[Len(q) + 1] = b
    <3>1. Sorted(q)
      BY <2>2 DEF QueueOf
    <3> QED
      BY <2>1, <2>2, <2>3, <3>1, AppendedQueue
  <2>5. /\ na \in Seq(Writes) /\ Len(na) = Len(a) + 1
        /\ \A i \in 1 .. Len(a) : na[i] = a[i]
        /\ na[Len(a) + 1] = w
    BY <2>1, <2>2, AppendFacts
  <2> DEFINE lq == Len(q)
             la == Len(a)
  <2>6. lq \in Nat /\ la \in Nat /\ lq <= la /\ Len(nq) = lq + 1 /\ Len(na) = la + 1
    BY <2>2, <2>4, <2>5 DEF QueueOf
  <2>7. \A i \in 1 .. lq : q[i].id \in Nat
    BY <2>2, BatchFields
  <2>q. /\ \A i \in 1 .. lq : nq[i] = q[i] /\ q[i].id < nextBatchId /\ q[i].write = a[(la - lq) + i]
        /\ nq[lq + 1] = b /\ na[la + 1] = w
        /\ \A i \in 1 .. la : na[i] = a[i]
    BY <2>2, <2>4, <2>5 DEF QueueOf
  <2> HIDE DEF q, a, nq, na, lq, la
  <2>8. ASSUME NEW i \in 1 .. lq + 1
        PROVE  nq[i].id < nextBatchId + 1 /\ nq[i].write = na[((la + 1) - (lq + 1)) + i]
    <3>0. (la + 1) - (lq + 1) = la - lq
      BY <2>6
    <3>1. CASE i \in 1 .. lq
      <4>1. (la - lq) + i \in 1 .. la
        BY <2>6, <3>1
      <4>2. na[(la - lq) + i] = a[(la - lq) + i]
        BY <4>1, <2>q
      <4>3. nq[i].id < nextBatchId + 1
        <5>1. nq[i].id < nextBatchId /\ nq[i].id \in Nat
          BY <3>1, <2>q, <2>7
        <5>2. nextBatchId \in Nat
          BY <1>0
        <5> QED
          BY <5>1, <5>2
      <4> QED
        BY <3>0, <3>1, <4>2, <4>3, <2>q
    <3>2. CASE i \notin 1 .. lq
      <4>1. i = lq + 1 /\ (la - lq) + i = la + 1
        BY <2>6, <3>2
      <4> QED
        BY <3>0, <4>1, <2>q, <2>b, <1>0
    <3> QED
      BY <3>1, <3>2
  <2>9. QueueOf(nq, na, nextBatchId + 1)
    <3>1. Len(nq) <= Len(na)
      BY <2>6
    <3> QED
      BY <3>1, <2>4, <2>6, <2>8, Zenon DEF QueueOf
  <2>10. ASSUME NEW v \in Users
         PROVE  QueueOf(queue[v], accepted[v], nextBatchId + 1)
    <3>1. QueueOf(queue[v], accepted[v], nextBatchId) /\ queue[v] \in Seq(Batch)
      BY <1>0 DEF QueueInv
    <3>2. \A i \in 1 .. Len(queue[v]) : queue[v][i].id \in Nat
      BY <3>1, BatchFields
    <3> QED
      BY <3>1, <3>2, <1>0 DEF QueueOf
  <2>11. ASSUME NEW v \in Users
         PROVE  QueueOf(queue'[v], accepted'[v], nextBatchId')
    <3>1. CASE v = u
      BY <3>1, <2>1, <2>9, <1>0
    <3>2. CASE v # u
      BY <3>2, <2>1, <2>10, <1>0
    <3> QED
      BY <3>1, <3>2
  <2> QED
    BY <2>1, <2>11, <1>0 DEF QueueInv
<1>2. CASE Rejection \/ OnWriteStreamMutationResult
  <2> DEFINE u == currentUser
             q == queue[u]
             a == accepted[u]
             t == Tail(q)
             lq == Len(q)
             la == Len(a)
  <2>1. Len(q) > 0 /\ queue' = [queue EXCEPT ![u] = t] /\ accepted' = accepted /\ nextBatchId' = nextBatchId
    BY <1>2, SettlingSteps DEF Settling
  <2>2. q \in Seq(Batch) /\ a \in Seq(Writes) /\ QueueOf(q, a, nextBatchId)
    BY <1>0 DEF QueueInv
  <2>3. t \in Seq(Batch) /\ Sorted(t) /\ Len(t) = Len(q) - 1 /\ \A i \in 1 .. Len(q) - 1 : t[i] = q[i + 1]
    BY <2>1, <2>2, TailQueue DEF QueueOf
  <2>4. lq \in Nat /\ la \in Nat /\ lq <= la /\ Len(t) = lq - 1 /\ lq > 0
    BY <2>1, <2>2, <2>3 DEF QueueOf
  <2>5. /\ \A i \in 1 .. lq : q[i].id < nextBatchId /\ q[i].write = a[(la - lq) + i]
        /\ \A i \in 1 .. lq - 1 : t[i] = q[i + 1]
    BY <2>2, <2>3 DEF QueueOf
  <2> HIDE DEF q, a, t, lq, la
  <2>6. ASSUME NEW i \in 1 .. lq - 1
        PROVE  t[i].id < nextBatchId /\ t[i].write = a[(la - (lq - 1)) + i]
    <3>1. i + 1 \in 1 .. lq /\ (la - lq) + (i + 1) = (la - (lq - 1)) + i
      BY <2>4
    <3> QED
      BY <3>1, <2>5
  <2>7. lq - 1 <= la
    BY <2>4
  <2>8. QueueOf(t, a, nextBatchId)
    BY <2>3, <2>4, <2>6, <2>7 DEF QueueOf, la
  <2>9. ASSUME NEW v \in Users
        PROVE  QueueOf(queue'[v], accepted'[v], nextBatchId')
    BY <2>1, <2>8, <1>0 DEF QueueInv, a
  <2> QED
    BY <2>1, <2>9, <1>0 DEF QueueInv
<1>3. CASE ~WriteMutations /\ ~Rejection /\ ~OnWriteStreamMutationResult
  <2>1. queue' = queue /\ accepted' = accepted
    BY <1>3, QueueSame
  <2>2. nextBatchId' = nextBatchId \/ nextBatchId' = LoadNextBatchIdFromDb(queue)
    BY <1>3, StepKinds DEF Internal, Drop, Kept, HandleCredentialChange, Kill, KillInAcknowledge, Restart,
       RegisterPendingWritesCallback, ServerCommit, ServerRefuse, store
  <2>3. /\ LoadNextBatchIdFromDb(queue) \in Nat \ {0}
        /\ \A u \in Users : QueueOf(queue[u], accepted[u], LoadNextBatchIdFromDb(queue))
    BY <1>0, NextIdAbove DEF QueueInv, QueueOf
  <2> QED
    BY <2>1, <2>2, <2>3, <1>0 DEF QueueInv
<1> QED
  BY <1>1, <1>2, <1>3

\* A write comes into a queue once: it is not among those accepted before.
LEMMA AcceptedStep ==
    ASSUME IInv, [Next]_vars
    PROVE  AcceptedOnce'
<1>0. accepted \in [Users -> Seq(Writes)] /\ currentUser \in Users /\ AcceptedOnce
  BY DEF IInv, TypeOK
<1>1. CASE WriteMutations
  <2> DEFINE w == Head(tasks).write
             c == currentUser
             a == accepted[c]
             na == Append(a, w)
  <2>1. w \in Writes /\ accepted' = [accepted EXCEPT ![c] = na] /\ IsWriteTask(tasks[1]) /\ tasks[1].write = w
    BY <1>1, NewBatch
  <2>2. \A u \in Users : \A k \in 1 .. Len(accepted[u]) : accepted[u][k] # w
    <3>1. 1 \in 1 .. Len(tasks)
      BY <1>1, HeadTask DEF WriteMutations
    <3> QED
      BY <2>1, <3>1 DEF IInv, WriteTaskInv
  <2>3. /\ a \in Seq(Writes) /\ Len(na) = Len(a) + 1
        /\ \A i \in 1 .. Len(a) : na[i] = a[i]
        /\ na[Len(a) + 1] = w
    BY <1>0, <2>1, AppendFacts
  <2> HIDE DEF w, na
  <2>4. ASSUME NEW u \in Users, NEW i \in 1 .. Len(accepted'[u])
        PROVE  \/ i \in 1 .. Len(accepted[u]) /\ accepted'[u][i] = accepted[u][i]
               \/ u = c /\ i = Len(a) + 1 /\ accepted'[u][i] = w
    <3>1. CASE u = c
      <4>1. accepted'[u] = na
        BY <3>1, <2>1, <1>0
      <4>2. i \in 1 .. Len(a) \/ i = Len(a) + 1
        BY <4>1, <2>3
      <4> QED
        BY <3>1, <4>1, <4>2, <2>3
    <3>2. CASE u # c
      BY <3>2, <2>1, <1>0
    <3> QED
      BY <3>1, <3>2
  <2>5. ASSUME NEW u \in Users, NEW v \in Users,
               NEW i \in 1 .. Len(accepted'[u]), NEW j \in 1 .. Len(accepted'[v]),
               accepted'[u][i] = accepted'[v][j]
        PROVE  u = v /\ i = j
    <3>1. \/ i \in 1 .. Len(accepted[u]) /\ accepted'[u][i] = accepted[u][i]
          \/ u = c /\ i = Len(a) + 1 /\ accepted'[u][i] = w
      BY <2>4
    <3>2. \/ j \in 1 .. Len(accepted[v]) /\ accepted'[v][j] = accepted[v][j]
          \/ v = c /\ j = Len(a) + 1 /\ accepted'[v][j] = w
      BY <2>4
    <3> QED
      <4>1. CASE i \in 1 .. Len(accepted[u]) /\ j \in 1 .. Len(accepted[v])
                  /\ accepted[u][i] = accepted[v][j]
        BY <4>1, <1>0, Zenon DEF AcceptedOnce
      <4> HIDE DEF a, c
      <4> QED
        BY <4>1, <3>1, <3>2, <2>2, <2>5
  <2> QED
    BY <2>5, Zenon DEF AcceptedOnce
<1>2. CASE ~WriteMutations
  <2>1. accepted' = accepted
    BY <1>2, QueueSame, SettlingSteps DEF Settling
  <2> QED
    BY <2>1, <1>0 DEF AcceptedOnce
<1> QED
  BY <1>1, <1>2

----------------------------------------------------------------------------
\* The worker queue, step by step.

\* t is task o, or o with its token gone stale.
SameTask(t, o) ==
    /\ t.task = o.task
    /\ IsUserTask(o) \/ o.task = "token" => t.user = o.user
    /\ IsWriteTask(o) => t.write = o.write
    /\ IsFreshToken(t) => IsFreshToken(o)

\* new is what is left of the worker queue without its first n tasks.
Later(new, n) ==
    /\ new \in Seq(Task) /\ n \in {0, 1} /\ Len(new) + n = Len(tasks)
    /\ \A i \in 1 .. Len(new) : SameTask(new[i], tasks[i + n])

NoFresh(new) == \A i \in 1 .. Len(new) : ~IsFreshToken(new[i])

\* Tasks whose tokens have become stale keep their order.
LEMMA StaleTasks ==
    ASSUME IInv
    PROVE  /\ Later(StaleTokens, 0) /\ NoFresh(StaleTokens)
           /\ tasks # <<>> => Later(Tail(StaleTokens), 1) /\ NoFresh(Tail(StaleTokens))
<1> DEFINE n == Len(tasks)
           s == StaleTokens
<1>1. tasks \in Seq(Task) /\ n \in Nat /\ DOMAIN tasks = 1 .. n
  BY DEF IInv, TypeOK
<1>2. s = [i \in 1 .. n |->
              IF tasks[i].task = "token" THEN [tasks[i] EXCEPT !.fresh = FALSE] ELSE tasks[i]]
  BY <1>1 DEF StaleTokens
<1> HIDE DEF s
<1>3. ASSUME NEW i \in 1 .. n
      PROVE  s[i] \in Task /\ SameTask(s[i], tasks[i]) /\ ~IsFreshToken(s[i])
  <2>1. tasks[i] \in Task
    BY <1>1
  <2>2. CASE tasks[i].task = "token"
    <3>1. tasks[i] \in [task : {"token"}, user : Users, fresh : BOOLEAN]
      BY <2>1, <2>2 DEF Task
    <3>2. s[i] = [tasks[i] EXCEPT !.fresh = FALSE]
      BY <1>2, <2>2
    <3>3. /\ s[i] \in [task : {"token"}, user : Users, fresh : BOOLEAN]
          /\ s[i].task = "token" /\ s[i].user = tasks[i].user /\ s[i].fresh = FALSE
      BY <3>1, <3>2
    <3> QED
      BY <3>3, <2>2 DEF Task, SameTask, IsUserTask, IsWriteTask, IsFreshToken
  <2>3. CASE tasks[i].task # "token"
    BY <1>2, <2>1, <2>3 DEF SameTask, IsUserTask, IsWriteTask, IsFreshToken
  <2> QED
    BY <2>2, <2>3
<1>4. s \in [1 .. n -> Task]
  BY <1>2, <1>3
<1>5. s \in Seq(Task) /\ Len(s) = n
  BY <1>1, <1>4, FunctionIsSeq
<1>6. Later(s, 0) /\ NoFresh(s)
  BY <1>1, <1>3, <1>5 DEF Later, NoFresh
<1>7. ASSUME tasks # <<>> PROVE Later(Tail(s), 1) /\ NoFresh(Tail(s))
  <2>1. n > 0
    BY <1>1, <1>7
  <2>2. s # <<>>
    BY <1>5, <2>1
  <2> DEFINE t == Tail(s)
  <2>3. t \in Seq(Task) /\ Len(t) = n - 1 /\ \A i \in 1 .. n - 1 : t[i] = s[i + 1]
    BY <1>5, <2>2, TailFacts
  <2> HIDE DEF t, n
  <2>4. ASSUME NEW i \in 1 .. n - 1 PROVE SameTask(t[i], tasks[i + 1]) /\ ~IsFreshToken(t[i])
    <3>1. i + 1 \in 1 .. n
      BY <1>1
    <3> QED
      BY <3>1, <1>3, <2>3
  <2>5. Later(t, 1)
    <3>1. Len(t) + 1 = n
      BY <1>1, <2>3
    <3> QED
      BY <3>1, <2>3, <2>4 DEF Later, n
  <2>6. NoFresh(t)
    BY <2>3, <2>4 DEF NoFresh
  <2> QED
    BY <2>5, <2>6 DEF t
<1> QED
  BY <1>6, <1>7 DEF s

\* The tasks left after one has run keep their order.
LEMMA PlainTasks ==
    ASSUME IInv
    PROVE  Later(tasks, 0) /\ (tasks # <<>> => Later(Tail(tasks), 1))
<1>1. tasks \in Seq(Task) /\ Len(tasks) \in Nat
  BY DEF IInv, TypeOK
<1>2. \A t : SameTask(t, t)
  BY DEF SameTask
<1>3. Later(tasks, 0)
  <2>1. Len(tasks) + 0 = Len(tasks) /\ \A i \in 1 .. Len(tasks) : i + 0 = i
    BY <1>1
  <2> QED
    BY <1>1, <1>2, <2>1 DEF Later
<1>4. ASSUME tasks # <<>> PROVE Later(Tail(tasks), 1)
  <2>1. /\ Tail(tasks) \in Seq(Task) /\ Len(Tail(tasks)) = Len(tasks) - 1
        /\ \A i \in 1 .. Len(tasks) - 1 : Tail(tasks)[i] = tasks[i + 1]
    BY <1>4, HeadTask
  <2> DEFINE t == Tail(tasks)
  <2>2. t \in Seq(Task) /\ Len(t) + 1 = Len(tasks) /\ \A i \in 1 .. Len(t) : t[i] = tasks[i + 1]
    BY <1>1, <2>1
  <2> HIDE DEF t
  <2>3. Later(t, 1)
    BY <1>2, <2>2 DEF Later
  <2> QED
    BY <2>3 DEF t
<1> QED
  BY <1>3, <1>4

\* While the stream is not starting no token is fresh.
LEMMA NoFreshUnlessStarting ==
    ASSUME IInv, remote.state # "Starting" \/ TRUE \in remote.asked, NEW new, NEW n, Later(new, n)
    PROVE  NoFresh(new)
<1>1. \A i \in 1 .. Len(tasks) : ~IsFreshToken(tasks[i])
  BY DEF IInv, RequestInv
<1>2. \A i \in 1 .. Len(new) : i + n \in 1 .. Len(tasks)
  BY DEF Later
<1> QED
  BY <1>1, <1>2 DEF Later, NoFresh, SameTask

\* What a step that runs a task, or none, does to the worker queue.
Running(n) ==
    /\ Later(tasks', n) /\ UNCHANGED <<issued, authUser>>
    /\ n = 1 => tasks # <<>>
    /\ currentUser' = IF n = 1 /\ IsUserTask(tasks[1]) THEN tasks[1].user ELSE currentUser
    /\ UNCHANGED accepted \/ (n = 1 /\ WriteMutations)
    /\ NoFresh(tasks') \/ (IsStarted(remote) => /\ remote'.state = remote.state
                                                /\ remote'.asked = remote.asked)

\* Every other step runs the first task, or none.
LEMMA RunningSteps ==
    ASSUME IInv, [Next]_vars,
           ~IssueWrite, ~WaitForPendingWrites, \A u \in Users : ~AuthStateChanges(u),
           \A fresh \in BOOLEAN : ~TokenArrives(fresh), ~Kill, ~KillInAcknowledge
    PROVE  Running(0) \/ Running(1)
<1>1. CASE WriteMutations
  <2>1. /\ tasks # <<>> /\ Head(tasks).task = "write" /\ tasks' = Tail(tasks)
        /\ UNCHANGED <<issued, authUser, currentUser>>
    BY <1>1 DEF WriteMutations
  <2>2. Later(tasks', 1) /\ ~IsUserTask(tasks[1])
    BY <2>1, PlainTasks, HeadTask DEF IsUserTask
  <2>3. SameCall(remote, remote')
    BY <1>1, StreamWriteMutations
  <2> QED
    BY <1>1, <2>1, <2>2, <2>3 DEF Running, SameCall
<1>2. CASE RegisterPendingWritesCallback
  <2>1. /\ tasks # <<>> /\ Head(tasks).task = "wait" /\ tasks' = Tail(tasks)
        /\ UNCHANGED <<issued, authUser, currentUser, accepted, remote>>
    BY <1>2 DEF RegisterPendingWritesCallback, history
  <2>2. Later(tasks', 1) /\ ~IsUserTask(tasks[1])
    BY <2>1, PlainTasks, HeadTask DEF IsUserTask
  <2> QED
    BY <2>1, <2>2 DEF Running
<1>3. CASE HandleCredentialChange
  <2>1. /\ tasks # <<>> /\ Head(tasks).task = "user" /\ currentUser' = Head(tasks).user
        /\ UNCHANGED <<issued, authUser, accepted>>
    BY <1>3 DEF HandleCredentialChange
  <2>2. IsUserTask(tasks[1]) /\ currentUser' = tasks[1].user
    BY <2>1, HeadTask DEF IsUserTask
  <2>3. CASE remote.enabled /\ IsStarted(remote)
    <3>1. tasks' = Tail(StaleTokens)
      BY <1>3, <2>3 DEF HandleCredentialChange
    <3>2. Later(tasks', 1) /\ NoFresh(tasks')
      BY <2>1, <3>1, StaleTasks
    <3> QED
      BY <2>1, <2>2, <3>2 DEF Running
  <2>4. CASE ~(remote.enabled /\ IsStarted(remote))
    <3>1. tasks' = Tail(tasks)
      BY <1>3, <2>4 DEF HandleCredentialChange
    <3>2. Later(tasks', 1)
      BY <2>1, <3>1, PlainTasks
    <3>3. ~IsStarted(remote)
      BY <2>4, InvFacts DEF StreamShape
    <3> QED
      BY <2>1, <2>2, <3>2, <3>3 DEF Running
  <2> QED
    BY <2>3, <2>4
<1>4. CASE ResumeStartWithCredentials
  <2>1. /\ tasks # <<>> /\ Head(tasks).task = "token" /\ tasks' = Tail(tasks)
        /\ UNCHANGED <<issued, authUser, currentUser, accepted>>
    BY <1>4 DEF ResumeStartWithCredentials, history, store
  <2>2. Later(tasks', 1) /\ ~IsUserTask(tasks[1])
    BY <2>1, PlainTasks, HeadTask DEF IsUserTask
  <2>3. CASE Head(tasks).fresh
    <3>1. IsFreshToken(tasks[1])
      BY <2>1, <2>3, HeadTask DEF IsFreshToken
    <3>2. \A i \in 1 .. Len(tasks') : i + 1 \in 1 .. Len(tasks) /\ tasks'[i] = tasks[i + 1] /\ i + 1 # 1
      BY <2>1, HeadTask
    <3>3. NoFresh(tasks')
      BY <2>1, <3>1, <3>2, HeadTask DEF NoFresh, IInv, RequestInv
    <3> QED
      BY <2>1, <2>2, <3>3 DEF Running
  <2>4. CASE ~Head(tasks).fresh
    <3>1. remote' = remote
      BY <1>4, <2>4 DEF ResumeStartWithCredentials
    <3> QED
      BY <2>1, <2>2, <3>1 DEF Running
  <2> QED
    BY <2>3, <2>4
<1>5. CASE TokenFails
  <2>1. /\ tasks # <<>> /\ Head(tasks).task = "token" /\ tasks' = Tail(StaleTokens)
        /\ UNCHANGED <<issued, authUser, currentUser, accepted>>
    BY <1>5 DEF TokenFails, history, store
  <2>2. Later(tasks', 1) /\ NoFresh(tasks') /\ ~IsUserTask(tasks[1])
    BY <2>1, StaleTasks, HeadTask DEF IsUserTask
  <2> QED
    BY <2>1, <2>2 DEF Running
<1>6. CASE BackoffElapses
  <2>1. /\ remote.state = "Backoff" /\ tasks' = tasks
        /\ UNCHANGED <<issued, authUser, currentUser, accepted>>
    BY <1>6 DEF BackoffElapses, history, store
  <2>2. Later(tasks', 0) /\ NoFresh(tasks')
    BY <2>1, PlainTasks, NoFreshUnlessStarting
  <2> QED
    BY <2>1, <2>2 DEF Running
<1>7. CASE IdleTimeout \/ OnStreamFinish \/ StreamBreaks
  <2>1. tasks' = StaleTokens /\ UNCHANGED <<issued, authUser, currentUser, accepted>>
    BY <1>7 DEF IdleTimeout, OnStreamFinish, StreamBreaks, StreamClosed, store
  <2>2. Later(tasks', 0) /\ NoFresh(tasks')
    BY <2>1, StaleTasks
  <2> QED
    BY <2>1, <2>2 DEF Running
<1>8. CASE DisableNetwork \/ ReenableNetwork \/ (\E available \in BOOLEAN : ConnectivityChanges(available))
  <2>1. UNCHANGED <<issued, authUser, currentUser, accepted>>
    BY <1>8 DEF DisableNetwork, ReenableNetwork, ConnectivityChanges, history, store
  <2>2. \/ tasks' = StaleTokens
        \/ tasks' = tasks /\ (~IsStarted(remote) \/ remote' = remote)
    <3>1. CASE DisableNetwork
      BY <3>1 DEF DisableNetwork
    <3>2. CASE ReenableNetwork
      BY <3>2, OfflineReenableNetwork DEF ReenableNetwork
    <3>3. ASSUME NEW available \in BOOLEAN, ConnectivityChanges(available)
          PROVE  \/ tasks' = StaleTokens
                 \/ tasks' = tasks /\ (~IsStarted(remote) \/ remote' = remote)
      BY <3>3 DEF ConnectivityChanges
    <3> QED
      BY <1>8, <3>1, <3>2, <3>3
  <2>3. CASE tasks' = StaleTokens
    BY <2>1, <2>3, StaleTasks DEF Running
  <2>4. CASE tasks' = tasks /\ (~IsStarted(remote) \/ remote' = remote)
    BY <2>1, <2>4, PlainTasks DEF Running
  <2> QED
    BY <2>2, <2>3, <2>4
<1>9. CASE ServerHandshake \/ ServerCommit \/ ServerRefuse \/ ServerGivesUp
  <2>1. tasks' = tasks /\ UNCHANGED <<issued, authUser, currentUser, accepted>>
    BY <1>9 DEF ServerHandshake, ServerCommit, ServerRefuse, ServerGivesUp, history, store
  <2>2. remote'.state = remote.state /\ remote'.asked = remote.asked
    BY <1>9, InvFacts DEF ServerHandshake, ServerCommit, ServerRefuse, ServerGivesUp, RemoteStore
  <2> QED
    BY <2>1, <2>2, PlainTasks DEF Running
<1>10. CASE OnWriteStreamHandshakeComplete \/ OnWriteStreamMutationResult
  <2>1. tasks' = tasks /\ UNCHANGED <<issued, authUser, currentUser, accepted>>
    BY <1>10 DEF OnWriteStreamHandshakeComplete, OnWriteStreamMutationResult, history, store
  <2>2. remote'.state = remote.state /\ remote'.asked = remote.asked
    BY <1>10, StreamHandshakeComplete, StreamMutationResult
  <2> QED
    BY <2>1, <2>2, PlainTasks DEF Running
<1>11. CASE UNCHANGED vars
  <2>1. UNCHANGED <<tasks, issued, authUser, currentUser, accepted, remote>>
    BY <1>11 DEF vars, history, store
  <2> QED
    BY <2>1, PlainTasks DEF Running
<1> QED
  BY <1>1, <1>2, <1>3, <1>4, <1>5, <1>6, <1>7, <1>8, <1>9, <1>10, <1>11
     DEF Next, Client, Server, Device

\* What a step that puts task t into the worker queue does.
Posting(t) ==
    /\ t \in Task /\ tasks' = Append(tasks, t) /\ UNCHANGED <<currentUser, accepted>>
    /\ issued' \in Seq(Users) /\ Len(issued) <= Len(issued')
    /\ \A i \in 1 .. Len(issued) : issued'[i] = issued[i]
    /\ authUser' \in Users /\ authUser' = IF IsUserTask(t) THEN t.user ELSE authUser
    /\ IsWriteTask(t) =>
          t.write = Len(issued) + 1 /\ Len(issued') = Len(issued) + 1 /\ issued'[t.write] = authUser
    /\ t.task = "token" => t.user = authUser
    /\ remote'.state = remote.state /\ remote'.token = remote.token
    /\ TRUE \in remote'.asked => TRUE \in remote.asked
    /\ IsFreshToken(t) => TRUE \in remote.asked /\ TRUE \notin remote'.asked

\* The calls of the application and of FirebaseAuth post one task.
LEMMA PostingSteps ==
    ASSUME IInv,
           \/ IssueWrite \/ WaitForPendingWrites \/ (\E u \in Users : AuthStateChanges(u))
           \/ (\E fresh \in BOOLEAN : TokenArrives(fresh))
    PROVE  \E t : Posting(t)
<1>0. /\ issued \in Seq(Users) /\ Len(issued) \in Nat /\ authUser \in Users
      /\ Len(issued) <= Len(issued)
  BY DEF IInv, TypeOK
<1>1. CASE IssueWrite
  <2> DEFINE t == [task |-> "write", write |-> Len(issued) + 1]
  <2>1. /\ issued' = Append(issued, authUser) /\ Len(issued) < MaxWrites
        /\ tasks' = Append(tasks, [task |-> "write", write |-> Len(issued')])
        /\ UNCHANGED <<currentUser, accepted, remote, authUser>>
    BY <1>1 DEF IssueWrite, store
  <2>2. /\ issued' \in Seq(Users) /\ Len(issued') = Len(issued) + 1
        /\ \A i \in 1 .. Len(issued) : issued'[i] = issued[i]
        /\ issued'[Len(issued) + 1] = authUser
    BY <2>1, <1>0, AppendFacts
  <2>3. Len(issued) + 1 \in Writes
    BY <2>1, <1>0, BoundsAssumption DEF Writes
  <2>4. t \in Task /\ tasks' = Append(tasks, t) /\ t.task = "write" /\ t.write = Len(issued) + 1
    BY <2>1, <2>2, <2>3 DEF Task
  <2> HIDE DEF t
  <2>5. Len(issued) <= Len(issued')
    BY <2>2, <1>0
  <2>6. Posting(t)
    BY <2>1, <2>2, <2>4, <2>5, <1>0 DEF Posting, IsUserTask, IsWriteTask, IsFreshToken
  <2> QED
    BY <2>6
<1>2. CASE WaitForPendingWrites
  <2> DEFINE t == [task |-> "wait"]
  <2>1. tasks' = Append(tasks, t) /\ UNCHANGED <<currentUser, accepted, remote, authUser, issued>>
    BY <1>2 DEF WaitForPendingWrites, store, history
  <2>2. t \in Task /\ t.task = "wait"
    BY DEF Task
  <2> HIDE DEF t
  <2>3. Posting(t)
    BY <2>1, <2>2, <1>0 DEF Posting, IsUserTask, IsWriteTask, IsFreshToken
  <2> QED
    BY <2>3
<1>3. ASSUME NEW u \in Users, AuthStateChanges(u) PROVE \E t : Posting(t)
  <2> DEFINE t == [task |-> "user", user |-> u]
  <2>1. tasks' = Append(tasks, t) /\ authUser' = u /\ UNCHANGED <<currentUser, accepted, remote, issued>>
    BY <1>3 DEF AuthStateChanges, store, history
  <2>2. t \in Task /\ t.task = "user" /\ t.user = u
    BY DEF Task
  <2> HIDE DEF t
  <2>3. Posting(t)
    BY <2>1, <2>2, <1>0 DEF Posting, IsUserTask, IsWriteTask, IsFreshToken
  <2> QED
    BY <2>3
<1>4. ASSUME NEW fresh \in BOOLEAN, TokenArrives(fresh) PROVE \E t : Posting(t)
  <2> DEFINE t == [task |-> "token", user |-> authUser, fresh |-> fresh]
  <2>1. tasks' = Append(tasks, t) /\ UNCHANGED <<currentUser, accepted, issued, authUser>>
    BY <1>4 DEF TokenArrives, store, history
  <2>2. t \in Task /\ t.task = "token" /\ t.user = authUser /\ t.fresh = fresh
    BY <1>0 DEF Task
  <2>3. /\ remote'.state = remote.state /\ remote'.token = remote.token
        /\ remote'.asked = remote.asked \ {fresh} /\ fresh \in remote.asked
    BY <1>4, StreamTokenArrives DEF TokenArrives
  <2>4. /\ TRUE \in remote'.asked => TRUE \in remote.asked
        /\ fresh => TRUE \in remote.asked /\ TRUE \notin remote'.asked
    BY <2>3
  <2> HIDE DEF t
  <2>5. Posting(t)
    BY <2>1, <2>2, <2>3, <2>4, <1>0 DEF Posting, IsUserTask, IsWriteTask, IsFreshToken
  <2> QED
    BY <2>5
<1> QED
  BY <1>1, <1>2, <1>3, <1>4

\* The three kinds of steps, as the worker queue sees them.
LEMMA TaskKinds ==
    ASSUME IInv, [Next]_vars
    PROVE  (\E t : Posting(t)) \/ Running(0) \/ Running(1) \/ (Kill \/ KillInAcknowledge)
BY PostingSteps, RunningSteps

\* The task posted is the last.
LEMMA PostedTasks ==
    ASSUME IInv, NEW t, Posting(t)
    PROVE  /\ tasks' \in Seq(Task) /\ Len(tasks) \in Nat /\ Len(tasks') = Len(tasks) + 1
           /\ \A i \in 1 .. Len(tasks) : tasks'[i] = tasks[i]
           /\ tasks'[Len(tasks) + 1] = t
<1>1. tasks \in Seq(Task) /\ t \in Task /\ tasks' = Append(tasks, t)
  BY DEF IInv, TypeOK, Posting
<1> QED
  BY <1>1, AppendFacts

\* At most one token is fresh, and only while the stream waits for it.
LEMMA RequestStep ==
    ASSUME IInv, [Next]_vars
    PROVE  RequestInv'
<1>1. ASSUME NEW t, Posting(t) PROVE RequestInv'
  <2> DEFINE n == Len(tasks)
  <2>1. /\ n \in Nat /\ Len(tasks') = n + 1
        /\ \A i \in 1 .. n : tasks'[i] = tasks[i]
        /\ tasks'[n + 1] = t
    BY <1>1, PostedTasks
  <2>r. /\ \A i \in 1 .. n : IsFreshToken(tasks[i]) => remote.state = "Starting" /\ TRUE \notin remote.asked
        /\ \A i, j \in 1 .. n : IsFreshToken(tasks[i]) /\ IsFreshToken(tasks[j]) => i = j
    BY DEF IInv, RequestInv
  <2>p. /\ remote'.state = remote.state
        /\ TRUE \in remote'.asked => TRUE \in remote.asked
        /\ IsFreshToken(t) => TRUE \in remote.asked /\ TRUE \notin remote'.asked
    BY <1>1 DEF Posting
  <2>s. TRUE \in remote.asked => remote.state = "Starting"
    BY InvFacts DEF StreamShape
  <2> HIDE DEF n
  <2>2. \A i \in 1 .. n + 1 : i \in 1 .. n \/ i = n + 1
    BY <2>1
  <2>3. \A i \in 1 .. n + 1 : IsFreshToken(tasks'[i]) => remote'.state = "Starting" /\ TRUE \notin remote'.asked
    BY <2>1, <2>2, <2>r, <2>p, <2>s
  <2>4. \A i, j \in 1 .. n + 1 : IsFreshToken(tasks'[i]) /\ IsFreshToken(tasks'[j]) => i = j
    BY <2>1, <2>2, <2>r, <2>p
  <2> QED
    BY <2>1, <2>3, <2>4 DEF RequestInv, IsFreshToken
<1>2. ASSUME NEW n, Running(n) PROVE RequestInv'
  <2>1. /\ Later(tasks', n)
        /\ NoFresh(tasks') \/ (IsStarted(remote) => /\ remote'.state = remote.state
                                                    /\ remote'.asked = remote.asked)
    BY <1>2 DEF Running
  <2>2. CASE NoFresh(tasks')
    BY <2>2 DEF NoFresh, RequestInv, IsFreshToken
  <2>3. CASE ~NoFresh(tasks')
    <3>1. remote.state = "Starting"
      BY <2>1, <2>3, NoFreshUnlessStarting
    <3>2. remote'.state = remote.state /\ remote'.asked = remote.asked
      BY <2>1, <2>3, <3>1 DEF IsStarted
    <3>3. /\ n \in {0, 1} /\ \A i \in 1 .. Len(tasks') : i + n \in 1 .. Len(tasks)
          /\ \A i \in 1 .. Len(tasks') : IsFreshToken(tasks'[i]) => IsFreshToken(tasks[i + n])
      BY <2>1 DEF Later, SameTask
    <3>4. \A i, j \in 1 .. Len(tasks') : i + n = j + n => i = j
      BY <3>3
    <3>r. /\ \A i \in 1 .. Len(tasks) : IsFreshToken(tasks[i]) => remote.state = "Starting" /\ TRUE \notin remote.asked
          /\ \A i, j \in 1 .. Len(tasks) : IsFreshToken(tasks[i]) /\ IsFreshToken(tasks[j]) => i = j
      BY DEF IInv, RequestInv
    <3>5. /\ \A i \in 1 .. Len(tasks') :
                IsFreshToken(tasks'[i]) => remote'.state = "Starting" /\ TRUE \notin remote'.asked
          /\ \A i, j \in 1 .. Len(tasks') : IsFreshToken(tasks'[i]) /\ IsFreshToken(tasks'[j]) => i = j
      BY <3>2, <3>3, <3>4, <3>r
    <3> QED
      BY <3>5 DEF RequestInv, IsFreshToken
  <2> QED
    BY <2>2, <2>3
<1>3. CASE Kill \/ KillInAcknowledge
  <2>1. tasks' = <<>>
    BY <1>3 DEF Kill, KillInAcknowledge, Restart
  <2>2. Len(tasks') = 0
    BY <2>1
  <2> QED
    BY <2>2 DEF RequestInv
<1> QED
  BY <1>1, <1>2, <1>3, TaskKinds

\* A task put into the worker queue runs as the user FirebaseAuth has then.
LEMMA RunsAsPosting ==
    ASSUME IInv, NEW t, Posting(t)
    PROVE  \E s \in [1 .. Len(tasks') + 1 -> Users] : RunsAs(s, tasks', currentUser', authUser', issued')
<1> DEFINE n == Len(tasks)
<1>1. PICK s \in [1 .. n + 1 -> Users] : RunsAs(s, tasks, currentUser, authUser, issued)
  BY DEF IInv, TaskInv
<1>2. /\ n \in Nat /\ Len(tasks') = n + 1
      /\ \A i \in 1 .. n : tasks'[i] = tasks[i]
      /\ tasks'[n + 1] = t
  BY PostedTasks
<1> DEFINE r == [i \in 1 .. (n + 1) + 1 |-> IF i \in 1 .. n + 1 THEN s[i] ELSE authUser']
<1>3. authUser' \in Users /\ currentUser' = currentUser
  BY DEF Posting
<1>4. r \in [1 .. (n + 1) + 1 -> Users]
  BY <1>1, <1>3
<1>w. \A i \in 1 .. n : IsWriteTask(tasks[i]) => issued'[tasks[i].write] = issued[tasks[i].write]
  <2> SUFFICES ASSUME NEW i \in 1 .. n, IsWriteTask(tasks[i])
               PROVE  issued'[tasks[i].write] = issued[tasks[i].write]
    OBVIOUS
  <2>1. tasks[i].write <= Len(issued)
    BY DEF IInv, WriteTaskInv
  <2>2. tasks[i] \in Task
    BY DEF IInv, TypeOK
  <2>3. tasks[i].write \in Writes
    BY <2>2 DEF Task, IsWriteTask
  <2>4. tasks[i].write \in 1 .. Len(issued)
    BY <2>1, <2>3, BoundsAssumption DEF Writes, IInv, TypeOK
  <2> QED
    BY <2>4 DEF Posting
<1>s. /\ s[1] = currentUser
      /\ s[n + 1] = authUser
      /\ \A i \in 1 .. n :
            /\ s[i + 1] = IF IsUserTask(tasks[i]) THEN tasks[i].user ELSE s[i]
            /\ IsWriteTask(tasks[i]) => issued[tasks[i].write] = s[i]
            /\ tasks[i].task = "token" => tasks[i].user = s[i]
  BY <1>1 DEF RunsAs
<1>p. /\ authUser' = IF IsUserTask(t) THEN t.user ELSE authUser
      /\ IsWriteTask(t) => issued'[t.write] = authUser
      /\ t.task = "token" => t.user = authUser
  BY DEF Posting
<1> HIDE DEF n
<1>5. /\ \A i \in 1 .. n + 1 : r[i] = s[i]
      /\ r[(n + 1) + 1] = authUser'
  <2>1. \A i \in 1 .. n + 1 : i \in 1 .. (n + 1) + 1
    BY <1>2
  <2>2. (n + 1) + 1 \in 1 .. (n + 1) + 1 /\ (n + 1) + 1 \notin 1 .. n + 1
    BY <1>2
  <2> QED
    BY <2>1, <2>2
<1> HIDE DEF r
<1>6. r[1] = currentUser'
  <2>1. 1 \in 1 .. n + 1
    BY <1>2
  <2> QED
    BY <2>1, <1>3, <1>5, <1>s
<1>7. ASSUME NEW i \in 1 .. n + 1
      PROVE  /\ r[i + 1] = IF IsUserTask(tasks'[i]) THEN tasks'[i].user ELSE r[i]
             /\ IsWriteTask(tasks'[i]) => issued'[tasks'[i].write] = r[i]
             /\ tasks'[i].task = "token" => tasks'[i].user = r[i]
  <2>1. CASE i \in 1 .. n
    <3>1. i + 1 \in 1 .. n + 1
      BY <2>1, <1>2
    <3>2. r[i + 1] = s[i + 1] /\ r[i] = s[i] /\ tasks'[i] = tasks[i]
      BY <3>1, <2>1, <1>2, <1>5
    <3> QED
      BY <3>2, <2>1, <1>s, <1>w
  <2>2. CASE i \notin 1 .. n
    <3>1. i = n + 1
      BY <2>2, <1>2
    <3>2. r[i + 1] = authUser' /\ r[i] = authUser /\ tasks'[i] = t
      BY <3>1, <1>2, <1>5, <1>s
    <3> QED
      BY <3>2, <1>p
  <2> QED
    BY <2>1, <2>2
<1>8. RunsAs(r, tasks', currentUser', authUser', issued')
  BY <1>2, <1>5, <1>6, <1>7 DEF RunsAs, IsUserTask, IsWriteTask
<1> QED
  BY <1>2, <1>4, <1>8 DEF r

\* When a task is run, the next one runs as the user it leaves signed in.
LEMMA RunsAsRunning ==
    ASSUME IInv, NEW n, Running(n)
    PROVE  \E s \in [1 .. Len(tasks') + 1 -> Users] : RunsAs(s, tasks', currentUser', authUser', issued')
<1> DEFINE m == Len(tasks')
<1>1. /\ tasks' \in Seq(Task) /\ m \in Nat /\ n \in {0, 1} /\ m + n = Len(tasks)
      /\ \A i \in 1 .. m : SameTask(tasks'[i], tasks[i + n])
      /\ issued' = issued /\ authUser' = authUser
      /\ currentUser' = IF n = 1 /\ IsUserTask(tasks[1]) THEN tasks[1].user ELSE currentUser
  BY DEF Running, Later
<1>2. PICK s \in [1 .. Len(tasks) + 1 -> Users] : RunsAs(s, tasks, currentUser, authUser, issued)
  BY DEF IInv, TaskInv
<1>s. /\ s[1] = currentUser
      /\ s[Len(tasks) + 1] = authUser
      /\ \A i \in 1 .. Len(tasks) :
            /\ s[i + 1] = IF IsUserTask(tasks[i]) THEN tasks[i].user ELSE s[i]
            /\ IsWriteTask(tasks[i]) => issued[tasks[i].write] = s[i]
            /\ tasks[i].task = "token" => tasks[i].user = s[i]
  BY <1>2 DEF RunsAs
<1> DEFINE r == [i \in 1 .. m + 1 |-> s[i + n]]
<1> HIDE DEF m
<1>3. \A i \in 1 .. m + 1 : i + n \in 1 .. Len(tasks) + 1
  BY <1>1
<1>4. r \in [1 .. m + 1 -> Users] /\ \A i \in 1 .. m + 1 : r[i] = s[i + n]
  BY <1>2, <1>3
<1> HIDE DEF r
<1>5. r[1] = currentUser'
  <2>1. r[1] = s[1 + n]
    BY <1>1, <1>4
  <2>2. CASE n = 0
    BY <2>1, <2>2, <1>1, <1>s
  <2>3. CASE n = 1
    <3>1. 1 \in 1 .. Len(tasks) /\ r[1] = s[1 + 1]
      BY <2>1, <2>3, <1>1
    <3> QED
      BY <3>1, <2>3, <1>1, <1>s
  <2> QED
    BY <2>2, <2>3, <1>1
<1>6. r[m + 1] = authUser'
  <2>1. m + 1 \in 1 .. m + 1 /\ (m + 1) + n = Len(tasks) + 1
    BY <1>1
  <2> QED
    BY <2>1, <1>1, <1>4, <1>s
<1>7. ASSUME NEW i \in 1 .. m
      PROVE  /\ r[i + 1] = IF IsUserTask(tasks'[i]) THEN tasks'[i].user ELSE r[i]
             /\ IsWriteTask(tasks'[i]) => issued'[tasks'[i].write] = r[i]
             /\ tasks'[i].task = "token" => tasks'[i].user = r[i]
  <2>1. /\ i + 1 \in 1 .. m + 1 /\ i \in 1 .. m + 1 /\ i + n \in 1 .. Len(tasks)
        /\ (i + 1) + n = (i + n) + 1
    BY <1>1
  <2>2. r[i + 1] = s[(i + n) + 1] /\ r[i] = s[i + n]
    BY <2>1, <1>4
  <2> DEFINE o == tasks[i + n]
             x == s[i + n]
             y == s[(i + n) + 1]
  <2>3. /\ y = IF IsUserTask(o) THEN o.user ELSE x
        /\ IsWriteTask(o) => issued[o.write] = x
        /\ o.task = "token" => o.user = x
    BY <2>1, <1>s
  <2>4. SameTask(tasks'[i], o)
    BY <1>1
  <2> HIDE DEF o, x, y
  <2> QED
    BY <2>2, <2>3, <2>4, <1>1 DEF SameTask, IsUserTask, IsWriteTask, x, y
<1>8. RunsAs(r, tasks', currentUser', authUser', issued')
  BY <1>5, <1>6, <1>7 DEF RunsAs, IsUserTask, IsWriteTask, m
<1> QED
  BY <1>4, <1>8 DEF m

\* The task at the front of the worker queue belongs to the current user.
LEMMA HeadIsCurrent ==
    ASSUME IInv, tasks # <<>>
    PROVE  /\ IsWriteTask(tasks[1]) => issued[tasks[1].write] = currentUser
           /\ tasks[1].task = "token" => tasks[1].user = currentUser
<1>1. PICK s \in [1 .. Len(tasks) + 1 -> Users] : RunsAs(s, tasks, currentUser, authUser, issued)
  BY DEF IInv, TaskInv
<1>2. 1 \in 1 .. Len(tasks)
  BY HeadTask
<1> QED
  BY <1>1, <1>2 DEF RunsAs

\* A call is opened with a token of the current user, and closed when the
\* user changes.
LEMMA TokenStep ==
    ASSUME IInv, [Next]_vars, IsOpen(remote')
    PROVE  remote'.token = currentUser'
<1>t. IsOpen(remote) => remote.token = currentUser
  BY DEF IInv, TaskInv
<1>r. remote \in RemoteStore
  BY InvFacts
<1>o. ~Offline
  BY DEF Offline
<1>1. CASE \/ IssueWrite \/ WaitForPendingWrites \/ (\E u \in Users : AuthStateChanges(u))
           \/ RegisterPendingWritesCallback \/ UNCHANGED vars
  <2>1. remote' = remote /\ currentUser' = currentUser
    BY <1>1 DEF IssueWrite, WaitForPendingWrites, AuthStateChanges, RegisterPendingWritesCallback,
       vars, store
  <2> QED
    BY <2>1, <1>t
<1>2. ASSUME NEW fresh \in BOOLEAN, TokenArrives(fresh) PROVE remote'.token = currentUser'
  <2>1. remote'.state = remote.state /\ remote'.token = remote.token /\ currentUser' = currentUser
    BY <1>2, StreamTokenArrives DEF TokenArrives, store
  <2> QED
    BY <2>1, <1>t DEF IsOpen
<1>3. CASE ResumeStartWithCredentials
  <2>1. tasks # <<>> /\ Head(tasks).task = "token" /\ currentUser' = currentUser
    BY <1>3 DEF ResumeStartWithCredentials, store
  <2>2. Head(tasks).user = currentUser
    BY <2>1, HeadTask, HeadIsCurrent
  <2>3. CASE Head(tasks).fresh
    BY <1>3, <2>1, <2>2, <2>3, StreamResume
  <2>4. CASE ~Head(tasks).fresh
    BY <1>3, <1>t, <2>1, <2>4 DEF ResumeStartWithCredentials
  <2> QED
    BY <2>3, <2>4
<1>4. CASE ServerHandshake \/ ServerCommit \/ ServerRefuse \/ ServerGivesUp
  <2>1. currentUser' = currentUser
    BY <1>4 DEF ServerHandshake, ServerCommit, ServerRefuse, ServerGivesUp, store
  <2>2. remote'.state = remote.state /\ remote'.token = remote.token
    BY <1>4, <1>r DEF ServerHandshake, ServerCommit, ServerRefuse, ServerGivesUp, RemoteStore
  <2> QED
    BY <2>1, <2>2, <1>t DEF IsOpen
<1>5. CASE OnWriteStreamHandshakeComplete \/ OnWriteStreamMutationResult
  <2>1. currentUser' = currentUser
    BY <1>5 DEF OnWriteStreamHandshakeComplete, OnWriteStreamMutationResult, store
  <2>2. remote'.state = remote.state /\ remote'.token = remote.token
    BY <1>5, StreamHandshakeComplete, StreamMutationResult
  <2> QED
    BY <2>1, <2>2, <1>t DEF IsOpen
<1>6. CASE WriteMutations
  <2>1. currentUser' = currentUser
    BY <1>6 DEF WriteMutations
  <2> QED
    BY <1>6, <1>t, <2>1, StreamWriteMutations DEF SameCall
<1>7. CASE \/ TokenFails \/ BackoffElapses \/ IdleTimeout \/ StreamBreaks \/ OnStreamFinish
           \/ (\E available \in BOOLEAN : ConnectivityChanges(available))
           \/ DisableNetwork \/ ReenableNetwork
  BY <1>7, <1>o, DropSteps DEF Drop, Rejection
<1>8. CASE HandleCredentialChange \/ Kill \/ KillInAcknowledge
  BY <1>8, <1>o, OfflineHandleCredentialChange, OfflineRestart DEF Kill, KillInAcknowledge
<1> QED
  BY <1>1, <1>2, <1>3, <1>4, <1>5, <1>6, <1>7, <1>8 DEF Next, Client, Server, Device

\* Steps that put nothing into the worker queue issue no write.
LEMMA IssuedSame ==
    ASSUME Running(0) \/ Running(1) \/ Kill \/ KillInAcknowledge
    PROVE  issued' = issued
BY DEF Running, Kill, KillInAcknowledge, Restart

\* The writes of a user's queue were issued by that user.
LEMMA IssuerStep ==
    ASSUME IInv, [Next]_vars
    PROVE  \A u \in Users : \A i \in 1 .. Len(accepted'[u]) :
              accepted'[u][i] <= Len(issued') /\ issued'[accepted'[u][i]] = u
<1>0. /\ accepted \in [Users -> Seq(Writes)] /\ currentUser \in Users
      /\ issued \in Seq(Users) /\ Len(issued) \in Nat
  BY DEF IInv, TypeOK
<1>1. \A u \in Users : \A i \in 1 .. Len(accepted[u]) :
         accepted[u][i] <= Len(issued) /\ issued[accepted[u][i]] = u
  BY DEF IInv, TaskInv
<1>2. ASSUME NEW t, Posting(t) PROVE \A u \in Users : \A i \in 1 .. Len(accepted'[u]) :
              accepted'[u][i] <= Len(issued') /\ issued'[accepted'[u][i]] = u
  <2>1. /\ accepted' = accepted /\ Len(issued) <= Len(issued') /\ issued' \in Seq(Users)
        /\ \A i \in 1 .. Len(issued) : issued'[i] = issued[i]
    BY <1>2 DEF Posting
  <2>2. ASSUME NEW u \in Users, NEW i \in 1 .. Len(accepted[u])
        PROVE  accepted[u][i] <= Len(issued') /\ issued'[accepted[u][i]] = u
    <3>1. accepted[u][i] \in Nat \ {0}
      <4>1. accepted[u] \in Seq(Writes)
        BY <1>0
      <4>2. accepted[u][i] \in Writes
        BY <4>1
      <4> QED
        BY <4>2, BoundsAssumption DEF Writes
    <3>2. accepted[u][i] \in 1 .. Len(issued) /\ issued[accepted[u][i]] = u
      BY <3>1, <1>0, <1>1
    <3>3. Len(issued') \in Nat
      BY <2>1
    <3> DEFINE x == accepted[u][i]
               l == Len(issued)
               k == Len(issued')
    <3>4. x \in 1 .. l /\ l <= k /\ k \in Nat /\ l \in Nat /\ x \in Nat
      BY <3>1, <3>2, <3>3, <2>1, <1>0
    <3> HIDE DEF x, l, k
    <3>5. x <= k
      BY <3>4
    <3> QED
      BY <3>2, <3>5, <2>1 DEF x, k
  <2> QED
    BY <2>1, <2>2
<1>3. CASE WriteMutations
  <2> DEFINE w == Head(tasks).write
             a == accepted[currentUser]
             na == Append(a, w)
  <2>1. /\ w \in Writes /\ accepted' = [accepted EXCEPT ![currentUser] = na] /\ issued' = issued
        /\ IsWriteTask(tasks[1]) /\ tasks[1].write = w /\ tasks # <<>>
    BY <1>3, NewBatch DEF WriteMutations
  <2>2. w <= Len(issued) /\ issued[w] = currentUser
    BY <2>1, HeadTask, HeadIsCurrent DEF IInv, WriteTaskInv
  <2>3. /\ a \in Seq(Writes) /\ Len(na) = Len(a) + 1 /\ Len(a) \in Nat
        /\ \A i \in 1 .. Len(a) : na[i] = a[i]
        /\ na[Len(a) + 1] = w
    BY <1>0, <2>1, AppendFacts
  <2> HIDE DEF w, na
  <2>4. ASSUME NEW u \in Users, NEW i \in 1 .. Len(accepted'[u])
        PROVE  accepted'[u][i] <= Len(issued') /\ issued'[accepted'[u][i]] = u
    <3>1. CASE u = currentUser
      <4>1. accepted'[u] = na
        BY <3>1, <2>1, <1>0
      <4>2. CASE i \in 1 .. Len(a)
        BY <3>1, <4>1, <4>2, <2>1, <2>3, <1>1
      <4>3. CASE i \notin 1 .. Len(a)
        <5>1. i = Len(a) + 1
          BY <4>1, <4>3, <2>3
        <5> QED
          BY <3>1, <4>1, <5>1, <2>1, <2>2, <2>3
      <4> QED
        BY <4>2, <4>3
    <3>2. CASE u # currentUser
      BY <3>2, <2>1, <1>0, <1>1
    <3> QED
      BY <3>1, <3>2
  <2> QED
    BY <2>4
<1>4. CASE ~WriteMutations /\ issued' = issued
  <2>1. accepted' = accepted
    BY <1>4, QueueSame, SettlingSteps DEF Settling
  <2> QED
    BY <2>1, <1>1, <1>4
<1> QED
  BY <1>2, <1>3, <1>4, TaskKinds, IssuedSame

\* Tasks run as the user they were put into the queue for.
LEMMA TaskStep ==
    ASSUME IInv, [Next]_vars
    PROVE  TaskInv'
<1>1. \E s \in [1 .. Len(tasks') + 1 -> Users] : RunsAs(s, tasks', currentUser', authUser', issued')
  <2>1. CASE Kill \/ KillInAcknowledge
    <3>1. tasks' = <<>> /\ currentUser' = authUser /\ authUser' = authUser
      BY <2>1 DEF Kill, KillInAcknowledge, Restart
    <3>2. Len(tasks') = 0 /\ authUser \in Users
      BY <3>1 DEF IInv, TypeOK
    <3> DEFINE s == [i \in 1 .. 1 |-> authUser]
    <3>3. s \in [1 .. Len(tasks') + 1 -> Users] /\ s[1] = authUser
      BY <3>2
    <3> HIDE DEF s
    <3>4. RunsAs(s, tasks', currentUser', authUser', issued')
      BY <3>1, <3>2, <3>3 DEF RunsAs
    <3> QED
      BY <3>3, <3>4
  <2> QED
    BY <2>1, TaskKinds, RunsAsPosting, RunsAsRunning
<1>2. IsOpen(remote') => remote'.token = currentUser'
  BY TokenStep
<1>3. \A u \in Users : \A i \in 1 .. Len(accepted'[u]) :
         accepted'[u][i] <= Len(issued') /\ issued'[accepted'[u][i]] = u
  BY IssuerStep
<1> QED
  BY <1>1, <1>2, <1>3 DEF TaskInv, IsOpen, RunsAs, IsUserTask, IsWriteTask

\* A write waits in the worker queue once, until it is accepted.
LEMMA WriteTaskStep ==
    ASSUME IInv, [Next]_vars
    PROVE  WriteTaskInv'
<1>0. /\ accepted \in [Users -> Seq(Writes)] /\ currentUser \in Users
      /\ Len(issued) \in Nat /\ tasks \in Seq(Task)
  BY DEF IInv, TypeOK
<1>1. /\ \A i \in 1 .. Len(tasks) : IsWriteTask(tasks[i]) =>
            /\ tasks[i].write <= Len(issued)
            /\ \A u \in Users : \A k \in 1 .. Len(accepted[u]) : accepted[u][k] # tasks[i].write
      /\ \A i, j \in 1 .. Len(tasks) :
            IsWriteTask(tasks[i]) /\ IsWriteTask(tasks[j]) /\ tasks[i].write = tasks[j].write => i = j
  BY DEF IInv, WriteTaskInv
<1>w. \A i \in 1 .. Len(tasks) : IsWriteTask(tasks[i]) => tasks[i].write \in Nat
  <2>1. \A i \in 1 .. Len(tasks) : tasks[i] \in Task
    BY <1>0
  <2>2. \A i \in 1 .. Len(tasks) : IsWriteTask(tasks[i]) => tasks[i].write \in Writes
    BY <2>1 DEF IsWriteTask, Task
  <2>3. Writes \subseteq Nat
    BY BoundsAssumption DEF Writes
  <2> QED
    BY <2>2, <2>3
<1>2. ASSUME NEW t, Posting(t) PROVE WriteTaskInv'
  <2> DEFINE n == Len(tasks)
             l == Len(issued)
             k == Len(issued')
  <2>1. /\ n \in Nat /\ Len(tasks') = n + 1
        /\ \A i \in 1 .. n : tasks'[i] = tasks[i]
        /\ tasks'[n + 1] = t
    BY <1>2, PostedTasks
  <2>2. /\ accepted' = accepted /\ l <= k /\ l \in Nat /\ k \in Nat
        /\ IsWriteTask(t) => t.write = l + 1 /\ k = l + 1
    BY <1>0, <1>2 DEF Posting
  <2>3. \A u \in Users : \A i \in 1 .. Len(accepted[u]) : accepted[u][i] <= l /\ accepted[u][i] \in Nat
    <3>1. \A u \in Users : \A i \in 1 .. Len(accepted[u]) : accepted[u][i] \in Writes
      BY <1>0
    <3>2. Writes \subseteq Nat
      BY BoundsAssumption DEF Writes
    <3> QED
      BY <3>1, <3>2 DEF IInv, TaskInv
  <2>o. \A i \in 1 .. n : IsWriteTask(tasks[i]) => tasks[i].write <= l /\ tasks[i].write \in Nat
    BY <1>1, <1>w
  <2> HIDE DEF l, k, n
  <2>4. \A i \in 1 .. n + 1 : i \in 1 .. n \/ i = n + 1
    BY <2>1
  <2>5. \A x \in Nat : x <= l => x <= k /\ x # l + 1
    BY <2>2
  <2>6. IsWriteTask(t) => t.write <= k
    BY <2>2
  <2>7. ASSUME NEW i \in 1 .. n + 1, IsWriteTask(tasks'[i])
        PROVE  /\ tasks'[i].write <= k
               /\ \A u \in Users : \A m \in 1 .. Len(accepted'[u]) : accepted'[u][m] # tasks'[i].write
    <3>1. CASE i \in 1 .. n
      BY <3>1, <2>1, <2>2, <2>5, <2>7, <2>o, <1>1 DEF n
    <3>2. CASE i = n + 1
      BY <3>2, <2>1, <2>2, <2>3, <2>5, <2>6, <2>7
    <3> QED
      BY <3>1, <3>2, <2>4
  <2>8. ASSUME NEW i \in 1 .. n + 1, NEW j \in 1 .. n + 1, IsWriteTask(tasks'[i]), IsWriteTask(tasks'[j]),
               tasks'[i].write = tasks'[j].write
        PROVE  i = j
    <3>1. CASE i \in 1 .. n /\ j \in 1 .. n
      BY <3>1, <2>1, <2>8, <1>1 DEF n
    <3>2. CASE i \in 1 .. n /\ j = n + 1
      BY <3>2, <2>1, <2>2, <2>5, <2>8, <2>o
    <3>3. CASE i = n + 1 /\ j \in 1 .. n
      BY <3>3, <2>1, <2>2, <2>5, <2>8, <2>o
    <3> QED
      BY <3>1, <3>2, <3>3, <2>4
  <2> QED
    BY <2>1, <2>7, <2>8 DEF WriteTaskInv, IsWriteTask, k
<1>3. ASSUME NEW n, Running(n) PROVE WriteTaskInv'
  <2>1. /\ n \in {0, 1} /\ \A i \in 1 .. Len(tasks') : i + n \in 1 .. Len(tasks)
        /\ \A i \in 1 .. Len(tasks') : SameTask(tasks'[i], tasks[i + n])
        /\ issued' = issued
    BY <1>3 DEF Running, Later
  <2>2. \A i, j \in 1 .. Len(tasks') : i + n = j + n => i = j
    BY <2>1
  <2>3. \A i \in 1 .. Len(tasks') : IsWriteTask(tasks'[i]) =>
           IsWriteTask(tasks[i + n]) /\ tasks'[i].write = tasks[i + n].write
    BY <2>1 DEF SameTask, IsWriteTask
  <2>4. \A i, j \in 1 .. Len(tasks') :
           IsWriteTask(tasks'[i]) /\ IsWriteTask(tasks'[j]) /\ tasks'[i].write = tasks'[j].write => i = j
    BY <2>1, <2>2, <2>3, <1>1
  <2>5. \A i \in 1 .. Len(tasks') : IsWriteTask(tasks'[i]) =>
            /\ tasks'[i].write <= Len(issued')
            /\ \A u \in Users : \A k \in 1 .. Len(accepted[u]) : accepted[u][k] # tasks'[i].write
    BY <2>1, <2>3, <1>1
  <2>6. ASSUME NEW i \in 1 .. Len(tasks'), IsWriteTask(tasks'[i]),
               NEW u \in Users, NEW k \in 1 .. Len(accepted'[u])
        PROVE  accepted'[u][k] # tasks'[i].write
    <3>1. CASE accepted' = accepted
      BY <3>1, <2>5, <2>6
    <3>2. CASE n = 1 /\ WriteMutations
      <4> DEFINE w == Head(tasks).write
                 a == accepted[currentUser]
                 na == Append(a, w)
      <4>1. /\ w \in Writes /\ accepted' = [accepted EXCEPT ![currentUser] = na]
            /\ IsWriteTask(tasks[1]) /\ tasks[1].write = w /\ tasks # <<>>
        BY <3>2, NewBatch DEF WriteMutations
      <4>2. /\ a \in Seq(Writes) /\ Len(na) = Len(a) + 1 /\ Len(a) \in Nat
            /\ \A j \in 1 .. Len(a) : na[j] = a[j]
            /\ na[Len(a) + 1] = w
        BY <1>0, <4>1, AppendFacts
      <4> HIDE DEF w, na
      <4>3. 1 \in 1 .. Len(tasks) /\ i + 1 \in 1 .. Len(tasks) /\ i + 1 # 1
        BY <2>1, <3>2, <4>1, HeadTask
      <4>4. tasks'[i].write # w
        BY <4>1, <4>3, <3>2, <2>3, <2>6, <1>1
      <4>5. CASE u = currentUser
        <5>1. accepted'[u] = na
          BY <4>1, <4>5, <1>0
        <5>2. k \in 1 .. Len(a) \/ k = Len(a) + 1
          BY <5>1, <4>2
        <5>3. CASE k \in 1 .. Len(a)
          BY <5>1, <5>3, <4>2, <4>5, <2>5, <2>6
        <5>4. CASE k = Len(a) + 1
          BY <5>1, <5>4, <4>2, <4>4
        <5> QED
          BY <5>2, <5>3, <5>4
      <4>6. CASE u # currentUser
        <5>1. accepted'[u] = accepted[u]
          BY <4>1, <4>6, <1>0
        <5> QED
          BY <5>1, <2>5, <2>6
      <4> QED
        BY <4>5, <4>6
    <3> QED
      BY <3>1, <3>2, <1>3 DEF Running
  <2> QED
    BY <2>4, <2>5, <2>6 DEF WriteTaskInv, IsWriteTask
<1>4. CASE Kill \/ KillInAcknowledge
  <2>1. tasks' = <<>>
    BY <1>4 DEF Kill, KillInAcknowledge, Restart
  <2>2. Len(tasks') = 0
    BY <2>1
  <2> QED
    BY <2>2 DEF WriteTaskInv
<1> QED
  BY <1>2, <1>3, <1>4, TaskKinds

----------------------------------------------------------------------------
\* What was applied and what was answered, step by step.

LEMMA RangeFacts ==
    ASSUME NEW S, NEW s \in Seq(S), NEW e \in S
    PROVE  /\ \A x : x \in Range(s) <=> \E i \in 1 .. Len(s) : s[i] = x
           /\ Range(Append(s, e)) = Range(s) \cup {e}
<1>1. \A x : x \in Range(s) <=> \E i \in 1 .. Len(s) : s[i] = x
  BY DEF Range
<1> DEFINE t == Append(s, e)
<1>2. /\ t \in Seq(S) /\ Len(t) = Len(s) + 1 /\ Len(s) \in Nat
      /\ \A i \in 1 .. Len(s) : t[i] = s[i]
      /\ t[Len(s) + 1] = e
  BY AppendFacts
<1> HIDE DEF t
<1>3. \A x : x \in Range(t) <=> \E i \in 1 .. Len(t) : t[i] = x
  BY <1>2 DEF Range
<1>4. ASSUME NEW x \in Range(t) PROVE x \in Range(s) \cup {e}
  <2>1. PICK i \in 1 .. Len(t) : t[i] = x
    BY <1>3
  <2>2. i \in 1 .. Len(s) \/ i = Len(s) + 1
    BY <1>2
  <2> QED
    BY <2>1, <2>2, <1>1, <1>2
<1>5. ASSUME NEW x \in Range(s) \cup {e} PROVE x \in Range(t)
  <2>1. CASE x \in Range(s)
    <3>1. PICK i \in 1 .. Len(s) : s[i] = x
      BY <1>1, <2>1
    <3>2. i \in 1 .. Len(t)
      BY <1>2
    <3> QED
      BY <3>1, <3>2, <1>2, <1>3
  <2>2. CASE x = e
    <3>1. Len(s) + 1 \in 1 .. Len(t)
      BY <1>2
    <3> QED
      BY <2>2, <3>1, <1>2, <1>3
  <2> QED
    BY <2>1, <2>2
<1> QED
  BY <1>1, <1>4, <1>5 DEF t

\* The writes of a queue are the last ones accepted, so no two are the same.
LEMMA QueueWrites ==
    ASSUME IInv, NEW u \in Users
    PROVE  /\ Len(queue[u]) \in Nat /\ Len(accepted[u]) \in Nat
           /\ Answered(u) \in Nat /\ Answered(u) + Len(queue[u]) = Len(accepted[u])
           /\ \A n \in 1 .. Len(queue[u]) :
                 /\ Answered(u) + n \in 1 .. Len(accepted[u])
                 /\ queue[u][n].write = accepted[u][Answered(u) + n]
                 /\ queue[u][n].write \in Writes
<1>1. queue[u] \in Seq(Batch) /\ accepted[u] \in Seq(Writes) /\ QueueOf(queue[u], accepted[u], nextBatchId)
  BY DEF IInv, TypeOK, QueueInv
<1> DEFINE q == Len(queue[u])
           a == Len(accepted[u])
<1>2. q \in Nat /\ a \in Nat /\ q <= a /\ \A n \in 1 .. q : queue[u][n].write = accepted[u][(a - q) + n]
  <2>1. q \in Nat /\ a \in Nat
    BY <1>1
  <2>2. q <= a /\ \A n \in 1 .. q : queue[u][n].write = accepted[u][(a - q) + n]
    BY <1>1, Zenon DEF QueueOf
  <2> QED
    BY <2>1, <2>2
<1>3. Answered(u) = a - q
  BY DEF Answered
<1>4. \A n \in 1 .. q : queue[u][n].write \in Writes
  BY <1>1, BatchFields
<1> HIDE DEF q, a
<1>5. a - q \in Nat /\ (a - q) + q = a /\ \A n \in 1 .. q : (a - q) + n \in 1 .. a
  BY <1>2
<1> QED
  BY <1>2, <1>3, <1>4, <1>5 DEF q, a

\* A write is accepted once, by one user.
LEMMA AcceptedAt ==
    ASSUME IInv, NEW u \in Users, NEW v \in Users,
           NEW i \in 1 .. Len(accepted[u]), NEW j \in 1 .. Len(accepted[v]),
           accepted[u][i] = accepted[v][j]
    PROVE  u = v /\ i = j
BY Zenon DEF IInv, AcceptedOnce

\* A write is in one queue, once.
LEMMA DistinctWrites ==
    ASSUME IInv, NEW u \in Users, NEW v \in Users,
           NEW n \in 1 .. Len(queue[u]), NEW m \in 1 .. Len(queue[v]),
           queue[u][n].write = queue[v][m].write
    PROVE  u = v /\ n = m
<1>1. /\ Answered(u) + n \in 1 .. Len(accepted[u]) /\ queue[u][n].write = accepted[u][Answered(u) + n]
      /\ Answered(v) + m \in 1 .. Len(accepted[v]) /\ queue[v][m].write = accepted[v][Answered(v) + m]
      /\ Answered(u) \in Nat
  BY QueueWrites
<1> DEFINE i == Answered(u) + n
           j == Answered(v) + m
<1>2. u = v /\ i = j
  <2>1. i \in 1 .. Len(accepted[u]) /\ j \in 1 .. Len(accepted[v]) /\ accepted[u][i] = accepted[v][j]
    BY <1>1
  <2> HIDE DEF i, j
  <2> QED
    BY <2>1, AcceptedAt
<1>3. \A b \in Nat : b + n = b + m => n = m
  BY InvFacts
<1> QED
  BY <1>1, <1>2, <1>3

\* A write that has not left its queue is not among the answered ones.
LEMMA QueuedNotAnswered ==
    ASSUME IInv, NEW u \in Users, NEW v \in Users, NEW n \in 1 .. Len(queue[u])
    PROVE  queue[u][n].write \notin UpTo(accepted[v], Answered(v))
<1> SUFFICES ASSUME NEW i \in 1 .. Answered(v), queue[u][n].write = accepted[v][i]
             PROVE  FALSE
  BY DEF UpTo
<1>1. /\ Answered(u) + n \in 1 .. Len(accepted[u]) /\ queue[u][n].write = accepted[u][Answered(u) + n]
      /\ Answered(u) \in Nat /\ Answered(v) \in Nat /\ Len(queue[v]) \in Nat
      /\ Answered(v) + Len(queue[v]) = Len(accepted[v])
  BY QueueWrites
<1>2. i \in 1 .. Len(accepted[v])
  <2> DEFINE l == Len(accepted[v])
             q == Len(queue[v])
             d == Answered(v)
  <2>1. d + q = l /\ q \in Nat /\ d \in Nat /\ i \in 1 .. d
    BY <1>1
  <2> HIDE DEF l, q, d
  <2>2. i \in 1 .. l
    BY <2>1
  <2> QED
    BY <2>2 DEF l
<1> DEFINE j == Answered(u) + n
<1>3. u = v /\ j = i
  <2>1. j \in 1 .. Len(accepted[u]) /\ accepted[u][j] = accepted[v][i]
    BY <1>1
  <2> HIDE DEF j
  <2> QED
    BY <2>1, <1>2, AcceptedAt
<1>4. \A b \in Nat : \A c \in 1 .. b : b + n # c
  OBVIOUS
<1> QED
  BY <1>1, <1>3, <1>4

\* Whatever closes the stream loses the answers to what was applied of the queue.
LEMMA AppliedOffline ==
    ASSUME IInv, Offline, NEW u \in Users, NEW n \in 1 .. Len(queue[u]),
           queue[u][n].write \in Range(log)
    PROVE  queue[u][n].write \in lost'
<1>1. queue[u][n].write \in lost \/ (u = currentUser /\ n <= UnreadCommits)
  BY DEF IInv, AppliedInv
<1>2. lost' = lost \cup (Range(remote.answers) \ {Handshake})
  BY DEF Offline
<1>3. CASE u = currentUser /\ n <= UnreadCommits
  <2>1. remote.handshake /\ n <= Len(remote.answers)
    BY <1>3 DEF UnreadCommits
  <2>2. n \in 1 .. Len(remote.answers)
    BY <2>1, UnderWay
  <2>3. remote.answers[n] = queue[u][n].write /\ remote.answers[n] # Handshake
    BY <1>3, <2>1, <2>2, UnderWay
  <2>4. remote.answers \in Seq(Wire)
    BY InvFacts DEF RemoteStore
  <2>5. remote.answers[n] \in Range(remote.answers)
    BY <2>2, <2>4 DEF Range
  <2> QED
    BY <1>2, <2>3, <2>5
<1> QED
  BY <1>1, <1>2, <1>3

\* The queue a front is settled of, in both states.
LEMMA SettlingFacts ==
    ASSUME IInv, Settling
    PROVE  /\ \A u \in Users : u # currentUser => queue'[u] = queue[u]
           /\ queue'[currentUser] = Tail(queue[currentUser])
           /\ Len(queue[currentUser]) \in Nat /\ Len(queue[currentUser]) > 0
           /\ Len(queue'[currentUser]) = Len(queue[currentUser]) - 1
           /\ \A n \in 1 .. Len(queue[currentUser]) - 1 :
                 /\ queue'[currentUser][n] = queue[currentUser][n + 1]
                 /\ n + 1 \in 1 .. Len(queue[currentUser])
<1> DEFINE q == queue[currentUser]
           t == Tail(q)
<1>1. q \in Seq(Batch) /\ Len(q) > 0 /\ q # <<>> /\ queue' = [queue EXCEPT ![currentUser] = t]
  BY InvFacts DEF Settling
<1>2. /\ Len(q) \in Nat /\ Len(t) = Len(q) - 1
      /\ \A i \in 1 .. Len(q) - 1 : t[i] = q[i + 1]
  BY <1>1, TailFacts
<1> HIDE DEF t
<1>3. queue'[currentUser] = t /\ \A u \in Users : u # currentUser => queue'[u] = queue[u]
  BY <1>1, InvFacts
<1>4. \A n \in 1 .. Len(q) - 1 : n + 1 \in 1 .. Len(q)
  BY <1>2
<1> QED
  BY <1>1, <1>2, <1>3, <1>4 DEF t

\* The parts of AppliedInv, spelled out.
LEMMA AppliedParts ==
    ASSUME IInv
    PROVE  /\ \A i \in 1 .. Len(log) : \E u \in Users : log[i] \in UpTo(accepted[u], Len(accepted[u]))
           /\ \A u \in Users : \A n \in 1 .. Len(queue[u]) :
                 queue[u][n].write \in Range(log) =>
                     \/ queue[u][n].write \in lost
                     \/ u = currentUser /\ n <= UnreadCommits
           /\ \A n \in 1 .. UnreadCommits : remote.answers[n] \in Range(log)
           /\ remote.handshake /\ remote.status = Rejected =>
                 queue[currentUser][Len(remote.answers) + 1].write \in refused
           /\ log \in Seq(Writes) /\ Len(log) \in Nat
<1>1. log \in Seq(Writes)
  BY DEF IInv, TypeOK
<1>2. Len(log) \in Nat
  BY <1>1
<1> QED
  BY <1>1, <1>2, Zenon DEF IInv, AppliedInv

\* Nothing of what is applied is concerned, or all that is under way is lost.
LEMMA AppliedKept ==
    ASSUME IInv, UNCHANGED <<queue, accepted, log, refused>>,
           \/ Offline
           \/ CallKept /\ UNCHANGED <<currentUser, lost>>
    PROVE  AppliedInv'
<1>1. CASE CallKept /\ UNCHANGED <<currentUser, lost>>
  <2>1. /\ UnreadCommits' = UnreadCommits
        /\ UnreadCommits # 0 => remote'.answers = remote.answers
        /\ remote'.handshake /\ remote'.status = Rejected =>
              remote.handshake /\ remote.status = Rejected /\ remote'.answers = remote.answers
        /\ currentUser' = currentUser /\ lost' = lost
        /\ queue' = queue /\ accepted' = accepted /\ log' = log /\ refused' = refused
    BY <1>1 DEF CallKept
  <2>2. \A n \in 1 .. UnreadCommits : UnreadCommits # 0
    <3>1. UnreadCommits \in Nat
      BY InvFacts DEF UnreadCommits, RemoteStore
    <3> QED
      BY <3>1
  <2>3. \A n \in 1 .. UnreadCommits : remote'.answers[n] \in Range(log)
    BY <2>1, <2>2, AppliedParts
  <2>4. remote'.handshake /\ remote'.status = Rejected =>
           queue[currentUser][Len(remote'.answers) + 1].write \in refused
    BY <2>1, AppliedParts
  <2> QED
    BY <2>1, <2>3, <2>4, AppliedParts DEF AppliedInv
<1>2. CASE Offline
  <2>1. ~remote'.handshake
    BY <1>2 DEF Offline, StreamInv, StreamShape
  <2>2. UnreadCommits' = 0
    BY <2>1 DEF UnreadCommits
  <2>3. \A u \in Users : \A n \in 1 .. Len(queue[u]) :
           queue[u][n].write \in Range(log) => queue[u][n].write \in lost'
    BY <1>2, AppliedOffline
  <2> QED
    BY <2>1, <2>2, <2>3, AppliedParts DEF AppliedInv
<1> QED
  BY <1>1, <1>2

\* A refusal that is read applies nothing.
LEMMA AppliedRejection ==
    ASSUME IInv, Rejection
    PROVE  AppliedInv'
<1>1. Offline /\ Settling
  BY SettlingSteps DEF Rejection
<1>2. ~remote'.handshake
  BY <1>1 DEF Offline, StreamInv, StreamShape
<1>3. UnreadCommits' = 0
  BY <1>2 DEF UnreadCommits
<1>4. accepted' = accepted /\ log' = log
  BY <1>1 DEF Offline
<1>5. ASSUME NEW u \in Users, NEW n \in 1 .. Len(queue'[u]), queue'[u][n].write \in Range(log)
      PROVE  queue'[u][n].write \in lost'
  <2>1. CASE u # currentUser
    <3>1. queue'[u] = queue[u]
      BY <1>1, <2>1, SettlingFacts
    <3> QED
      BY <3>1, <1>1, <1>5, AppliedOffline
  <2>2. CASE u = currentUser
    <3>1. queue'[u][n] = queue[u][n + 1] /\ n + 1 \in 1 .. Len(queue[u])
      BY <1>1, <2>2, SettlingFacts
    <3> DEFINE m == n + 1
    <3> HIDE DEF m
    <3>2. queue'[u][n] = queue[u][m] /\ m \in 1 .. Len(queue[u])
      BY <3>1 DEF m
    <3> QED
      BY <3>2, <1>1, <1>5, AppliedOffline
  <2> QED
    BY <2>1, <2>2
<1> QED
  BY <1>2, <1>3, <1>4, <1>5, AppliedParts DEF AppliedInv

\* An answer that is read was applied, and leaves the queue.
LEMMA AppliedMutationResult ==
    ASSUME IInv, OnWriteStreamMutationResult
    PROVE  AppliedInv'
<1> DEFINE a == Len(remote.answers)
           q == queue[currentUser]
<1>1. /\ Settling /\ log' = log /\ lost' = lost /\ refused' = refused
      /\ accepted' = accepted /\ currentUser' = currentUser
  BY SettlingSteps DEF OnWriteStreamMutationResult, Settling
<1>2. /\ remote.handshake /\ remote'.handshake /\ remote'.answers = Tail(remote.answers)
      /\ remote'.status = remote.status /\ remote.answers # <<>>
  BY StreamMutationResult
<1>3. /\ a \in Nat /\ a > 0 /\ Len(remote'.answers) = a - 1
      /\ \A i \in 1 .. a - 1 : remote'.answers[i] = remote.answers[i + 1]
  BY <1>2, InvFacts, TailFacts DEF RemoteStore
<1>4. UnreadCommits = a /\ UnreadCommits' = a - 1
  BY <1>2, <1>3 DEF UnreadCommits
<1>p. /\ Len(q) \in Nat /\ a <= Len(q)
      /\ remote.status # "none" => a + 1 <= Len(q)
  <2> DEFINE t == Taken(remote)
             w == Len(remote.wire)
             l == Len(q)
  <2>1. t \in Nat /\ w \in Nat /\ l \in Nat /\ a <= t /\ t + w <= l
    BY <1>2, UnderWay
  <2>2. remote.status # "none" => t = a + 1
    BY InvFacts, TakenFacts
  <2> HIDE DEF t, w, l, a
  <2>3. a <= l /\ (remote.status # "none" => a + 1 <= l)
    BY <2>1, <2>2, <1>3
  <2> QED
    BY <2>1, <2>3 DEF l
<1> HIDE DEF a
<1>5. ASSUME NEW u \in Users, NEW n \in 1 .. Len(queue'[u]), queue'[u][n].write \in Range(log)
      PROVE  queue'[u][n].write \in lost \/ (u = currentUser /\ n <= a - 1)
  <2>1. CASE u # currentUser
    <3>1. queue'[u] = queue[u]
      BY <1>1, <2>1, SettlingFacts
    <3> QED
      BY <3>1, <2>1, <1>5, AppliedParts
  <2>2. CASE u = currentUser
    <3> DEFINE m == n + 1
    <3>1. queue'[u][n] = queue[u][m] /\ m \in 1 .. Len(queue[u])
      BY <1>1, <2>2, SettlingFacts
    <3>2. m <= a => n <= a - 1
      <4>1. n \in Nat
        BY <1>1, <2>2, SettlingFacts
      <4> QED
        BY <4>1, <1>3
    <3> HIDE DEF m
    <3> QED
      BY <3>1, <3>2, <2>2, <1>4, <1>5, AppliedParts
  <2> QED
    BY <2>1, <2>2
<1>6. ASSUME NEW n \in 1 .. a - 1 PROVE remote'.answers[n] \in Range(log)
  <2>1. n + 1 \in 1 .. a
    BY <1>3
  <2> QED
    BY <2>1, <1>3, <1>4, AppliedParts
<1>7. ASSUME remote.status = Rejected
      PROVE  queue'[currentUser][(a - 1) + 1].write \in refused
  <2>1. queue[currentUser][a + 1].write \in refused
    BY <1>2, <1>7, AppliedParts DEF a
  <2>2. a \in 1 .. Len(q) - 1 /\ (a - 1) + 1 = a
    BY <1>3, <1>7, <1>p DEF Rejected
  <2>3. queue'[currentUser][a] = queue[currentUser][a + 1]
    BY <1>1, <2>2, SettlingFacts
  <2> QED
    BY <2>1, <2>2, <2>3
<1> QED
  BY <1>1, <1>2, <1>3, <1>4, <1>5, <1>6, <1>7, AppliedParts DEF AppliedInv

\* A new write has not been applied.
LEMMA AppliedWriteMutations ==
    ASSUME IInv, WriteMutations
    PROVE  AppliedInv'
<1> DEFINE w == Head(tasks).write
           b == [id |-> nextBatchId, write |-> w]
           q == queue[currentUser]
           a == accepted[currentUser]
           nq == Append(q, b)
           na == Append(a, w)
<1>1. /\ b \in Batch /\ w \in Writes /\ IsWriteTask(tasks[1]) /\ tasks[1].write = w
      /\ queue' = [queue EXCEPT ![currentUser] = nq]
      /\ accepted' = [accepted EXCEPT ![currentUser] = na]
  BY NewBatch
<1>2. /\ tasks # <<>> /\ log' = log /\ lost' = lost /\ refused' = refused /\ currentUser' = currentUser
  BY DEF WriteMutations
<1>3. SameCall(remote, remote')
  BY StreamWriteMutations
<1>4. /\ UnreadCommits' = UnreadCommits /\ remote'.answers = remote.answers
      /\ remote'.handshake = remote.handshake /\ remote'.status = remote.status
  BY <1>3 DEF SameCall, UnreadCommits
<1>5. \A u \in Users : \A k \in 1 .. Len(accepted[u]) : accepted[u][k] # w
  BY <1>1, <1>2, HeadTask DEF IInv, WriteTaskInv
<1>6. w \notin Range(log)
  <2> SUFFICES ASSUME w \in Range(log) PROVE FALSE
    OBVIOUS
  <2>1. PICK i \in 1 .. Len(log) : log[i] = w
    <3> HIDE DEF w
    <3>1. log \in Seq(Writes) /\ w \in Writes
      BY <1>1, AppliedParts
    <3> QED
      BY <3>1, RangeFacts
  <2>2. PICK u \in Users : w \in UpTo(accepted[u], Len(accepted[u]))
    BY <2>1, AppliedParts
  <2> QED
    BY <2>2, <1>5 DEF UpTo
<1>b. b.write = w
  OBVIOUS
<1>7. /\ q \in Seq(Batch) /\ Len(q) \in Nat /\ Len(nq) = Len(q) + 1
      /\ \A i \in 1 .. Len(q) : nq[i] = q[i]
      /\ nq[Len(q) + 1] = b
  BY <1>1, InvFacts, AppendFacts
<1>8. /\ a \in Seq(Writes) /\ Len(a) \in Nat /\ Len(na) = Len(a) + 1
      /\ \A i \in 1 .. Len(a) : na[i] = a[i]
  <2>1. a \in Seq(Writes)
    BY DEF IInv, TypeOK
  <2> QED
    BY <2>1, <1>1, AppendFacts
<1> HIDE DEF w, b, nq, na
<1>9. queue'[currentUser] = nq /\ \A u \in Users : u # currentUser => queue'[u] = queue[u]
  BY <1>1, InvFacts
<1>10. accepted'[currentUser] = na /\ \A u \in Users : u # currentUser => accepted'[u] = accepted[u]
  BY <1>1, InvFacts DEF IInv, TypeOK
<1>11. \A u \in Users : UpTo(accepted[u], Len(accepted[u])) \subseteq UpTo(accepted'[u], Len(accepted'[u]))
  <2> SUFFICES ASSUME NEW u \in Users, NEW i \in 1 .. Len(accepted[u])
               PROVE  \E j \in 1 .. Len(accepted'[u]) : accepted'[u][j] = accepted[u][i]
    BY DEF UpTo
  <2>1. CASE u = currentUser
    <3>1. i \in 1 .. Len(na) /\ na[i] = a[i]
      BY <1>8, <2>1
    <3> QED
      BY <3>1, <2>1, <1>10
  <2>2. CASE u # currentUser
    BY <2>2, <1>10
  <2> QED
    BY <2>1, <2>2
<1>12. ASSUME NEW u \in Users, NEW n \in 1 .. Len(queue'[u]), queue'[u][n].write \in Range(log)
       PROVE  queue'[u][n].write \in lost \/ (u = currentUser /\ n <= UnreadCommits)
  <2>1. n \in 1 .. Len(queue[u]) /\ queue'[u][n] = queue[u][n]
    <3>1. CASE u = currentUser
      <4>1. n \in 1 .. Len(q) + 1
        BY <3>1, <1>7, <1>9
      <4>2. n # Len(q) + 1
        BY <3>1, <1>6, <1>7, <1>9, <1>12, <1>b
      <4>3. n \in 1 .. Len(q)
        BY <4>1, <4>2, <1>7
      <4> QED
        BY <3>1, <4>3, <1>7, <1>9
    <3>2. CASE u # currentUser
      BY <3>2, <1>9
    <3> QED
      BY <3>1, <3>2
  <2> QED
    BY <2>1, <1>12, AppliedParts
<1>13. ASSUME remote.handshake, remote.status = Rejected
       PROVE  queue'[currentUser][Len(remote.answers) + 1].write \in refused
  <2> DEFINE k == Len(remote.answers) + 1
  <2>1. queue[currentUser][k].write \in refused
    BY <1>13, AppliedParts
  <2>2. k \in 1 .. Len(q)
    <3> DEFINE t == Taken(remote)
               v == Len(remote.wire)
               l == Len(q)
               m == Len(remote.answers)
    <3>1. t \in Nat /\ v \in Nat /\ l \in Nat /\ t + v <= l /\ m \in Nat
      BY <1>13, UnderWay
    <3>2. t = m + 1
      BY <1>13, InvFacts, TakenFacts DEF Rejected
    <3> HIDE DEF t, v, l, m
    <3>3. m + 1 \in 1 .. l
      BY <3>1, <3>2
    <3> QED
      BY <3>3 DEF l, m
  <2> HIDE DEF k
  <2>3. queue'[currentUser][k] = queue[currentUser][k]
    BY <2>2, <1>7, <1>9
  <2>4. queue'[currentUser][k].write \in refused
    BY <2>1, <2>3
  <2> QED
    BY <2>4 DEF k
<1>14. \A i \in 1 .. Len(log) : \E u \in Users : log[i] \in UpTo(accepted'[u], Len(accepted'[u]))
  BY <1>11, AppliedParts
<1>15. \A n \in 1 .. UnreadCommits : remote.answers[n] \in Range(log)
  BY AppliedParts
<1> QED
  BY <1>2, <1>4, <1>12, <1>13, <1>14, <1>15 DEF AppliedInv

\* The backend applies a write again only if an answer to it was lost.
LEMMA AppliedServerCommit ==
    ASSUME IInv, ServerCommit
    PROVE  AppliedInv' /\ OnceUnlessLost'
<1> DEFINE w == Head(remote.wire)
           a == Len(remote.answers)
           k == a + 1
<1>1. /\ log' = Append(log, w) /\ UNCHANGED <<queue, accepted, currentUser, lost, refused>>
  BY DEF ServerCommit, store
<1>2. /\ remote.handshake /\ remote'.handshake /\ w = queue[currentUser][k].write
      /\ k \in 1 .. Len(queue[currentUser]) /\ w \in Writes
      /\ remote'.answers = Append(remote.answers, w) /\ remote'.status = "none"
  BY ServerSteps
<1>3. log \in Seq(Writes) /\ Len(log) \in Nat
  BY AppliedParts
<1>4. Range(log') = Range(log) \cup {w}
  BY <1>1, <1>2, <1>3, RangeFacts
<1>5. /\ Len(log') = Len(log) + 1
      /\ \A i \in 1 .. Len(log) : log'[i] = log[i]
      /\ log'[Len(log) + 1] = w
  BY <1>1, <1>2, <1>3, AppendFacts
<1>6. /\ a \in Nat /\ Len(remote'.answers) = a + 1
      /\ \A i \in 1 .. a : remote'.answers[i] = remote.answers[i]
      /\ remote'.answers[a + 1] = w
  <2>1. remote.answers \in Seq(Wire) /\ w \in Wire
    BY <1>2, InvFacts DEF RemoteStore, Wire
  <2> HIDE DEF w
  <2> QED
    BY <2>1, <1>2, AppendFacts
<1>7. UnreadCommits = a /\ UnreadCommits' = a + 1
  BY <1>2, <1>6 DEF UnreadCommits
<1>8. w \in Range(log) => w \in lost
  <2>1. w \in Range(log) => w \in lost \/ k <= a
    BY <1>2, <1>7, InvFacts, AppliedParts
  <2>2. ~(k <= a)
    BY <1>6
  <2> QED
    BY <2>1, <2>2
<1> HIDE DEF w, a, k
<1>k. k = a + 1
  BY DEF k
<1>9. ASSUME NEW i \in 1 .. Len(log')
      PROVE  (i \in 1 .. Len(log) /\ log'[i] = log[i]) \/ (i = Len(log) + 1 /\ log'[i] = w)
  <2>1. i \in 1 .. Len(log) \/ i = Len(log) + 1
    BY <1>3, <1>5
  <2> QED
    BY <2>1, <1>5
<1>10. ASSUME NEW i \in 1 .. Len(log')
       PROVE  \E u \in Users : log'[i] \in UpTo(accepted[u], Len(accepted[u]))
  <2>1. w \in UpTo(accepted[currentUser], Len(accepted[currentUser]))
    BY <1>2, InvFacts, QueueWrites DEF UpTo
  <2> QED
    BY <2>1, <1>9, InvFacts, AppliedParts
<1>11. ASSUME NEW u \in Users, NEW n \in 1 .. Len(queue[u]), queue[u][n].write \in Range(log')
       PROVE  queue[u][n].write \in lost \/ (u = currentUser /\ n <= a + 1)
  <2>1. CASE queue[u][n].write = w
    <3>1. u = currentUser /\ n = k
      BY <2>1, <1>2, InvFacts, DistinctWrites
    <3> QED
      BY <3>1, <1>k, <1>6
  <2>2. CASE queue[u][n].write \in Range(log)
    <3>1. queue[u][n].write \in lost \/ (u = currentUser /\ n <= a)
      BY <2>2, <1>7, AppliedParts
    <3>2. n <= a => n <= a + 1
      <4>1. n \in Nat
        BY QueueWrites
      <4> QED
        BY <4>1, <1>6
    <3> QED
      BY <3>1, <3>2
  <2> QED
    BY <2>1, <2>2, <1>4, <1>11
<1>12. ASSUME NEW n \in 1 .. a + 1 PROVE remote'.answers[n] \in Range(log')
  <2>1. CASE n \in 1 .. a
    BY <2>1, <1>4, <1>6, <1>7, AppliedParts
  <2>2. CASE n \notin 1 .. a
    <3>1. n = a + 1
      BY <2>2, <1>6
    <3> QED
      BY <3>1, <1>4, <1>6
  <2> QED
    BY <2>1, <2>2
<1>13. AppliedInv'
  BY <1>1, <1>2, <1>7, <1>10, <1>11, <1>12 DEF AppliedInv, Rejected
<1>14. OnceUnlessLost'
  <2>1. DOMAIN log' = 1 .. Len(log') /\ DOMAIN log = 1 .. Len(log)
    <3>1. log' \in Seq(Writes)
      BY <1>1, <1>2, <1>3, AppendFacts
    <3> QED
      BY <3>1, <1>3
  <2>2. \A i, j \in 1 .. Len(log) : i # j /\ log[i] = log[j] => log[i] \in lost
    BY <2>1 DEF IInv, OnceUnlessLost
  <2>3. \A i \in 1 .. Len(log) : log[i] \in Range(log)
    BY <1>3 DEF Range
  <2>4. ASSUME NEW i \in 1 .. Len(log'), NEW j \in 1 .. Len(log'), i # j, log'[i] = log'[j]
        PROVE  log'[i] \in lost
    <3>1. CASE i \in 1 .. Len(log) /\ j \in 1 .. Len(log) /\ log'[i] = log[i] /\ log'[j] = log[j]
      BY <3>1, <2>2, <2>4
    <3>2. CASE i = Len(log) + 1 /\ j \in 1 .. Len(log) /\ log'[i] = w /\ log'[j] = log[j]
      BY <3>2, <2>3, <2>4, <1>8
    <3>3. CASE j = Len(log) + 1 /\ i \in 1 .. Len(log) /\ log'[j] = w /\ log'[i] = log[i]
      BY <3>3, <2>3, <2>4, <1>8
    <3> QED
      BY <3>1, <3>2, <3>3, <2>4, <1>9
  <2> QED
    BY <2>1, <2>4, <1>1 DEF OnceUnlessLost
<1> QED
  BY <1>13, <1>14

\* The backend refuses the write that comes after those it answered.
LEMMA AppliedServerRefuse ==
    ASSUME IInv, ServerRefuse
    PROVE  AppliedInv'
<1> DEFINE w == Head(remote.wire)
<1>1. refused' = refused \cup {w} /\ UNCHANGED <<queue, accepted, currentUser, lost, log>>
  BY DEF ServerRefuse, store
<1>2. /\ remote.handshake /\ remote'.handshake /\ remote'.answers = remote.answers
      /\ w = queue[currentUser][Len(remote.answers) + 1].write
  BY ServerSteps
<1> HIDE DEF w
<1>3. UnreadCommits' = UnreadCommits
  BY <1>2 DEF UnreadCommits
<1>4. queue[currentUser][Len(remote.answers) + 1].write \in refused'
  BY <1>1, <1>2
<1> QED
  BY <1>1, <1>2, <1>3, <1>4, AppliedParts DEF AppliedInv

\* No step breaks what is known of the writes applied.
LEMMA AppliedStep ==
    ASSUME IInv, [Next]_vars
    PROVE  AppliedInv'
<1>1. CASE Internal \/ Drop
  BY <1>1, AppliedKept DEF Internal, Drop, Kept, Offline
<1>2. CASE HandleCredentialChange /\ Offline
  BY <1>2, AppliedKept DEF HandleCredentialChange
<1>3. CASE (Kill \/ KillInAcknowledge) /\ Offline
  BY <1>3, AppliedKept DEF Kill, KillInAcknowledge, Restart
<1>4. CASE RegisterPendingWritesCallback
  <2>1. UNCHANGED <<queue, accepted, log, refused, currentUser, lost, remote>>
    BY <1>4 DEF RegisterPendingWritesCallback, history
  <2> QED
    BY <2>1, RemoteSame, AppliedKept
<1> QED
  BY <1>1, <1>2, <1>3, <1>4, StepKinds, AppliedRejection, AppliedMutationResult,
     AppliedWriteMutations, AppliedServerCommit, AppliedServerRefuse

----------------------------------------------------------------------------
\* Who was told of what, step by step.

\* The parts of SettledInv.
LEMMA SettledParts ==
    ASSUME IInv
    PROVE  /\ \A w \in Writes : outcome[w] = "rejected" =>
                 \E u \in Users : w \in UpTo(accepted[u], Answered(u))
           /\ \A w \in released : \E u \in Users : w \in UpTo(accepted[u], Answered(u))
           /\ \A x \in waits : \E i \in 1 .. Len(queue[currentUser]) :
                 /\ queue[currentUser][i].id = x.id
                 /\ x.writes \subseteq UpTo(accepted[currentUser], Answered(currentUser) + i)
           /\ \A u \in Users : callbacks[u] \subseteq Range(queue[u])
BY Zenon DEF IInv, SettledInv

\* Steps that leave the queues alone, and tell nobody of a failure.
LEMMA SettledKept ==
    ASSUME IInv, UNCHANGED <<queue, accepted>>,
           \A w \in Writes : outcome'[w] = "rejected" => outcome[w] = "rejected",
           released' \subseteq released,
           waits' = {} \/ UNCHANGED <<waits, currentUser>>,
           \A u \in Users : callbacks'[u] \subseteq callbacks[u]
    PROVE  SettledInv'
<1>1. \A u \in Users : Answered(u)' = Answered(u)
  BY DEF Answered
<1>2. \A w \in Writes : outcome'[w] = "rejected" => \E u \in Users : w \in UpTo(accepted[u], Answered(u))
  BY SettledParts
<1>3. \A w \in released' : \E u \in Users : w \in UpTo(accepted[u], Answered(u))
  BY SettledParts
<1>4. \A u \in Users : callbacks'[u] \subseteq Range(queue[u])
  BY SettledParts
<1>5. \A x \in waits' : \E i \in 1 .. Len(queue'[currentUser']) :
         /\ queue'[currentUser'][i].id = x.id
         /\ x.writes \subseteq UpTo(accepted'[currentUser'], Answered(currentUser)' + i)
  <2>1. CASE waits' = {}
    BY <2>1
  <2>2. CASE UNCHANGED <<waits, currentUser>>
    <3>1. Answered(currentUser)' = Answered(currentUser)
      BY <2>2 DEF Answered
    <3> QED
      BY <2>2, <3>1, SettledParts
  <2> QED
    BY <2>1, <2>2
<1> QED
  BY <1>1, <1>2, <1>3, <1>4, <1>5 DEF SettledInv

\* A wait is filed under the last batch, for all the writes of the queue.
LEMMA SettledRegister ==
    ASSUME IInv, RegisterPendingWritesCallback
    PROVE  SettledInv'
<1> DEFINE q == queue[currentUser]
           n == Len(q)
           l == Last(q)
           p == Pending(currentUser)
<1>1. UNCHANGED <<queue, currentUser, accepted, outcome, released, callbacks>>
  BY DEF RegisterPendingWritesCallback, history
<1>2. \A u : Answered(u)' = Answered(u)
  BY <1>1 DEF Answered
<1>3. Answered(currentUser)' = Answered(currentUser)
  BY <1>1 DEF Answered
<1>4. CASE q = <<>>
  <2>1. waits' = waits
    BY <1>4 DEF RegisterPendingWritesCallback
  <2> QED
    BY <1>1, <2>1, SettledKept
<1>5. CASE q # <<>>
  <2>1. waits' = waits \cup {[id |-> l.id, writes |-> p]}
    BY <1>5 DEF RegisterPendingWritesCallback
  <2>2. q \in Seq(Batch) /\ n \in Nat /\ n \in 1 .. n /\ l = q[n]
    BY <1>5, InvFacts DEF Last
  <2>3. p \subseteq UpTo(accepted[currentUser], Answered(currentUser) + n)
    <3> SUFFICES ASSUME NEW w \in p PROVE w \in UpTo(accepted[currentUser], Answered(currentUser) + n)
      OBVIOUS
    <3>1. PICK i \in 1 .. n : w = q[i].write
      <4>1. DOMAIN q = 1 .. n
        BY <2>2
      <4> HIDE DEF q, n
      <4>2. p = Range([j \in DOMAIN q |-> q[j].write])
        BY DEF Pending, WriteOf, q
      <4>3. p = {q[j].write : j \in DOMAIN q}
        BY <4>2 DEF Range
      <4> QED
        BY <4>1, <4>3
    <3> DEFINE k == Answered(currentUser) + i
    <3>2. q[i].write = accepted[currentUser][k] /\ k \in 1 .. Answered(currentUser) + n
      BY InvFacts, QueueWrites
    <3> HIDE DEF k
    <3> QED
      BY <3>1, <3>2 DEF UpTo
  <2>4. ASSUME NEW x \in waits'
        PROVE  \E i \in 1 .. n :
                  q[i].id = x.id /\ x.writes \subseteq UpTo(accepted[currentUser], Answered(currentUser) + i)
    <3>1. CASE x \in waits
      BY <3>1, SettledParts
    <3>2. CASE x = [id |-> l.id, writes |-> p]
      <4>1. x.id = q[n].id /\ x.writes = p
        BY <3>2, <2>2
      <4> HIDE DEF p, q, n
      <4> QED
        BY <4>1, <2>2, <2>3
    <3> QED
      BY <3>1, <3>2, <2>1
  <2> QED
    BY <1>1, <1>2, <1>3, <2>4, SettledParts DEF SettledInv
<1> QED
  BY <1>4, <1>5

\* It does not count as answered.
LEMMA AnsweredWriteMutations ==
    ASSUME IInv, WriteMutations
    PROVE  \A u \in Users : Answered(u)' = Answered(u)
<1> DEFINE w == Head(tasks).write
           b == [id |-> nextBatchId, write |-> w]
           q == queue[currentUser]
           a == accepted[currentUser]
           nq == Append(q, b)
           na == Append(a, w)
<1>1. /\ b \in Batch /\ w \in Writes
      /\ queue' = [queue EXCEPT ![currentUser] = nq]
      /\ accepted' = [accepted EXCEPT ![currentUser] = na]
  BY NewBatch
<1>2. Len(q) \in Nat /\ Len(nq) = Len(q) + 1
  BY <1>1, InvFacts, AppendFacts
<1>3. Len(a) \in Nat /\ Len(na) = Len(a) + 1
  <2>1. a \in Seq(Writes)
    BY DEF IInv, TypeOK
  <2> QED
    BY <2>1, <1>1, AppendFacts
<1> HIDE DEF w, b, nq, na
<1>4. queue'[currentUser] = nq /\ \A u \in Users : u # currentUser => queue'[u] = queue[u]
  BY <1>1, InvFacts
<1>5. accepted'[currentUser] = na /\ \A u \in Users : u # currentUser => accepted'[u] = accepted[u]
  BY <1>1, InvFacts DEF IInv, TypeOK
<1> SUFFICES ASSUME NEW u \in Users PROVE Answered(u)' = Answered(u)
  OBVIOUS
<1>6. CASE u = currentUser
  <2> DEFINE m == Len(q)
             l == Len(a)
  <2>1. Answered(u)' = Len(na) - Len(nq) /\ Answered(u) = l - m
    BY <1>6, <1>4, <1>5 DEF Answered
  <2>2. m \in Nat /\ l \in Nat /\ Len(na) = l + 1 /\ Len(nq) = m + 1
    BY <1>2, <1>3
  <2> HIDE DEF m, l
  <2> QED
    BY <2>1, <2>2
<1>7. CASE u # currentUser
  BY <1>7, <1>4, <1>5 DEF Answered
<1> QED
  BY <1>6, <1>7

\* The new write is queued behind all others, with its callback.
LEMMA SettledWriteMutations ==
    ASSUME IInv, WriteMutations
    PROVE  SettledInv'
<1> DEFINE w == Head(tasks).write
           b == [id |-> nextBatchId, write |-> w]
           q == queue[currentUser]
           a == accepted[currentUser]
           nq == Append(q, b)
           na == Append(a, w)
<1>1. /\ b \in Batch /\ w \in Writes
      /\ queue' = [queue EXCEPT ![currentUser] = nq]
      /\ accepted' = [accepted EXCEPT ![currentUser] = na]
  BY NewBatch
<1>2. UNCHANGED <<currentUser, outcome, released, waits>>
  BY DEF WriteMutations
<1>3. \A u \in Users : callbacks'[u] \subseteq callbacks[u] \cup (IF u = currentUser THEN {b} ELSE {})
  BY InvFacts DEF WriteMutations, IInv, TypeOK
<1>7. /\ q \in Seq(Batch) /\ Len(q) \in Nat /\ Len(nq) = Len(q) + 1
      /\ \A i \in 1 .. Len(q) : nq[i] = q[i]
  BY <1>1, InvFacts, AppendFacts
<1>r. Range(nq) = Range(q) \cup {b}
  BY <1>1, <1>7, RangeFacts
<1>8. /\ a \in Seq(Writes) /\ Len(a) \in Nat /\ Len(na) = Len(a) + 1
      /\ \A i \in 1 .. Len(a) : na[i] = a[i]
  <2>1. a \in Seq(Writes)
    BY DEF IInv, TypeOK
  <2> QED
    BY <2>1, <1>1, AppendFacts
<1> HIDE DEF w, b, nq, na
<1>9. queue'[currentUser] = nq /\ \A u \in Users : u # currentUser => queue'[u] = queue[u]
  BY <1>1, InvFacts
<1>10. accepted'[currentUser] = na /\ \A u \in Users : u # currentUser => accepted'[u] = accepted[u]
  BY <1>1, InvFacts DEF IInv, TypeOK
<1>11. \A u \in Users : Answered(u)' = Answered(u)
  BY AnsweredWriteMutations
<1>12. ASSUME NEW u \in Users, NEW k \in 0 .. Len(accepted[u])
       PROVE  UpTo(accepted'[u], k) = UpTo(accepted[u], k)
  <2>1. \A i \in 1 .. k : accepted'[u][i] = accepted[u][i]
    <3>1. CASE u = currentUser
      <4>1. \A i \in 1 .. k : i \in 1 .. Len(a)
        BY <3>1, <1>8
      <4> QED
        BY <3>1, <4>1, <1>8, <1>10
    <3>2. CASE u # currentUser
      BY <3>2, <1>10
    <3> QED
      BY <3>1, <3>2
  <2> QED
    BY <2>1 DEF UpTo
<1>13. ASSUME NEW u \in Users PROVE UpTo(accepted'[u], Answered(u)) = UpTo(accepted[u], Answered(u))
  <2> DEFINE d == Answered(u)
             m == Len(queue[u])
             l == Len(accepted[u])
  <2>1. d \in Nat /\ m \in Nat /\ l \in Nat /\ d + m = l
    BY QueueWrites
  <2> HIDE DEF d, m, l
  <2>2. d \in 0 .. l
    BY <2>1
  <2>3. d \in 0 .. Len(accepted[u])
    BY <2>2 DEF l
  <2>4. UpTo(accepted'[u], d) = UpTo(accepted[u], d)
    BY <2>3, <1>12
  <2> QED
    BY <2>4 DEF d
<1>14. ASSUME NEW x \in waits
       PROVE  \E i \in 1 .. Len(nq) :
                 nq[i].id = x.id /\ x.writes \subseteq UpTo(na, Answered(currentUser) + i)
  <2>1. PICK i \in 1 .. Len(q) :
           q[i].id = x.id /\ x.writes \subseteq UpTo(a, Answered(currentUser) + i)
    BY SettledParts
  <2> DEFINE k == Answered(currentUser) + i
  <2>2. k \in 0 .. Len(accepted[currentUser])
    BY InvFacts, QueueWrites
  <2> HIDE DEF k
  <2>3. UpTo(na, k) = UpTo(a, k)
    BY <2>2, <1>10, <1>12, InvFacts
  <2>4. i \in 1 .. Len(nq) /\ nq[i] = q[i]
    BY <1>7
  <2>5. nq[i].id = x.id /\ x.writes \subseteq UpTo(na, Answered(currentUser) + i)
    BY <2>1, <2>3, <2>4 DEF k
  <2> QED
    BY <2>4, <2>5
<1>15. ASSUME NEW u \in Users PROVE callbacks'[u] \subseteq Range(queue'[u])
  <2>1. CASE u = currentUser
    BY <2>1, <1>3, <1>9, <1>r, SettledParts
  <2>2. CASE u # currentUser
    BY <2>2, <1>3, <1>9, SettledParts
  <2> QED
    BY <2>1, <2>2
<1>16. Answered(currentUser)' = Answered(currentUser)
  BY <1>2, <1>11, InvFacts DEF Answered
<1>17. \A y \in Writes : outcome'[y] = "rejected" =>
          \E u \in Users : y \in UpTo(accepted'[u], Answered(u)')
  BY <1>2, <1>11, <1>13, SettledParts
<1>18. \A y \in released' : \E u \in Users : y \in UpTo(accepted'[u], Answered(u)')
  BY <1>2, <1>11, <1>13, SettledParts
<1>19. \A x \in waits' : \E i \in 1 .. Len(queue'[currentUser']) :
          /\ queue'[currentUser'][i].id = x.id
          /\ x.writes \subseteq UpTo(accepted'[currentUser'], Answered(currentUser)' + i)
  BY <1>2, <1>9, <1>10, <1>14, <1>16
<1> QED
  BY <1>15, <1>17, <1>18, <1>19 DEF SettledInv

\* The front of the queue is settled: one more write is answered.
LEMMA SettlingAnswers ==
    ASSUME IInv, Settling
    PROVE  /\ Answered(currentUser) \in Nat
           /\ Answered(currentUser)' = Answered(currentUser) + 1
           /\ \A u \in Users : UpTo(accepted[u], Answered(u)) \subseteq UpTo(accepted'[u], Answered(u)')
           /\ queue[currentUser][1].write \in UpTo(accepted'[currentUser], Answered(currentUser)')
<1> DEFINE q == Len(queue[currentUser])
           a == Len(accepted[currentUser])
           d == Answered(currentUser)
<1>1. accepted' = accepted /\ currentUser' = currentUser
  BY DEF Settling
<1>2. /\ q \in Nat /\ q > 0 /\ Len(queue'[currentUser]) = q - 1
      /\ \A u \in Users : u # currentUser => queue'[u] = queue[u]
  BY SettlingFacts
<1>3. /\ a \in Nat /\ d \in Nat /\ d + q = a /\ d = a - q
      /\ \A n \in 1 .. q : queue[currentUser][n].write = accepted[currentUser][d + n]
  <2>1. d = a - q
    BY DEF Answered
  <2> QED
    BY <2>1, InvFacts, QueueWrites
<1>4. Answered(currentUser)' = a - Len(queue'[currentUser])
  BY <1>1 DEF Answered
<1> HIDE DEF q, a, d
<1>5. Answered(currentUser)' = d + 1 /\ 1 \in 1 .. q /\ d + 1 \in 1 .. d + 1 /\ \A i \in 1 .. d : i \in 1 .. d + 1
  <2>1. q \in Nat /\ q > 0 /\ a \in Nat /\ d \in Nat /\ d = a - q
    BY <1>2, <1>3
  <2>2. Answered(currentUser)' = a - (q - 1)
    BY <1>2, <1>4
  <2>3. a - (q - 1) = d + 1 /\ 1 \in 1 .. q /\ d + 1 \in 1 .. d + 1
    BY <2>1
  <2>4. \A i \in 1 .. d : i \in 1 .. d + 1
    BY <2>1
  <2> QED
    BY <2>2, <2>3, <2>4
<1>6. ASSUME NEW u \in Users PROVE UpTo(accepted[u], Answered(u)) \subseteq UpTo(accepted'[u], Answered(u)')
  <2>1. CASE u = currentUser
    <3>1. Answered(u) = d /\ Answered(u)' = d + 1
      BY <2>1, <1>1, <1>5 DEF d, Answered
    <3> QED
      BY <3>1, <1>1, <1>5 DEF UpTo
  <2>2. CASE u # currentUser
    BY <2>2, <1>1, <1>2 DEF Answered
  <2> QED
    BY <2>1, <2>2
<1>7. queue[currentUser][1].write \in UpTo(accepted'[currentUser], d + 1)
  BY <1>1, <1>3, <1>5 DEF UpTo
<1> QED
  BY <1>3, <1>5, <1>6, <1>7 DEF d

\* Settling a write records its outcome, once.
LEMMA SettledSettling ==
    ASSUME IInv, Settling, NEW result, Settles(result)
    PROVE  SettledInv'
<1> DEFINE q == queue[currentUser]
           first == q[1]
           d == Answered(currentUser)
           nq == queue'[currentUser]
<1>1. accepted' = accepted /\ currentUser' = currentUser
  BY DEF Settling
<1>2. /\ callbacks' = [callbacks EXCEPT ![currentUser] = callbacks[currentUser] \ {first}]
      /\ outcome' = [w \in Writes |-> IF first \in callbacks[currentUser] /\ w = first.write
                                      THEN result ELSE outcome[w]]
      /\ waits' = {x \in waits : x.id # first.id}
      /\ released' = released \cup UNION {x.writes : x \in waits \ waits'}
  BY DEF Settles
<1>3. /\ Len(q) \in Nat /\ Len(q) > 0 /\ Len(nq) = Len(q) - 1
      /\ \A n \in 1 .. Len(q) - 1 : nq[n] = q[n + 1]
      /\ \A u \in Users : u # currentUser => queue'[u] = queue[u]
  BY SettlingFacts
<1>4. d \in Nat /\ Answered(currentUser)' = d + 1
  BY SettlingAnswers
<1>5. \A u \in Users : UpTo(accepted[u], Answered(u)) \subseteq UpTo(accepted'[u], Answered(u)')
  BY SettlingAnswers
<1>6. first.write \in UpTo(accepted'[currentUser], Answered(currentUser)')
  BY SettlingAnswers
<1>7. ASSUME NEW x \in waits
      PROVE  \E i \in 1 .. Len(q) : q[i].id = x.id /\ x.writes \subseteq UpTo(accepted[currentUser], d + i)
  BY SettledParts
<1>8. \A i \in 1 .. Len(q) : q[i].id = first.id => i = 1
  <2> SUFFICES ASSUME NEW i \in 1 .. Len(q), q[i].id = first.id PROVE i = 1
    OBVIOUS
  <2>1. 1 \in 1 .. Len(q) /\ q[1].id \in Nat /\ q[i].id \in Nat
    BY <1>3, InvFacts, BatchFields
  <2>2. ~(1 < i)
    BY <2>1, InvFacts DEF Sorted
  <2> QED
    BY <2>2, <1>3
<1>9. Sorted(q) /\ currentUser \in Users
  BY InvFacts
<1>c. \A u \in Users : callbacks[u] \subseteq Range(queue[u])
  BY SettledParts
<1>t. /\ q \in Seq(Batch) /\ nq \in Seq(Batch) /\ callbacks \in [Users -> SUBSET Batch]
  <2>1. queue' = [queue EXCEPT ![currentUser] = Tail(q)]
    BY DEF Settling
  <2>2. q \in Seq(Batch) /\ Tail(q) \in Seq(Batch)
    <3>1. q \in Seq(Batch) /\ q # <<>>
      BY <1>3, InvFacts
    <3> QED
      BY <3>1, TailFacts
  <2> HIDE DEF q
  <2> QED
    BY <2>1, <2>2, InvFacts DEF IInv, TypeOK
<1>i. /\ \A i \in 1 .. Len(q) : i # 1 => i - 1 \in 1 .. Len(nq) /\ nq[i - 1] = q[i] /\ (d + 1) + (i - 1) = d + i
  <2> DEFINE l == Len(q)
  <2>1. l \in Nat /\ Len(nq) = l - 1 /\ \A n \in 1 .. l - 1 : nq[n] = q[n + 1]
    BY <1>3
  <2> HIDE DEF l, d, q, nq
  <2>2. ASSUME NEW i \in 1 .. l, i # 1
        PROVE i - 1 \in 1 .. l - 1 /\ (i - 1) + 1 = i /\ (d + 1) + (i - 1) = d + i
    BY <2>1, <1>4, <2>2
  <2> QED
    BY <2>1, <2>2 DEF l
<1> HIDE DEF q, first, d, nq
<1>10. ASSUME NEW w \in Writes, outcome'[w] = "rejected"
       PROVE  \E u \in Users : w \in UpTo(accepted'[u], Answered(u)')
  <2>1. CASE w = first.write
    <3>1. w \in UpTo(accepted'[currentUser], Answered(currentUser)')
      BY <2>1, <1>6
    <3> QED
      BY <3>1, <1>1, <1>9 DEF Answered
  <2>2. CASE w # first.write
    <3>1. outcome[w] = "rejected"
      BY <2>2, <1>2, <1>10
    <3> QED
      BY <3>1, <1>5, SettledParts
  <2> QED
    BY <2>1, <2>2
<1>11. ASSUME NEW w \in released'
       PROVE  \E u \in Users : w \in UpTo(accepted'[u], Answered(u)')
  <2>1. CASE w \in released
    BY <2>1, <1>5, SettledParts
  <2>2. CASE w \notin released
    <3>1. PICK x \in waits : x.id = first.id /\ w \in x.writes
      BY <2>2, <1>2
    <3>2. PICK i \in 1 .. Len(q) : q[i].id = x.id /\ x.writes \subseteq UpTo(accepted[currentUser], d + i)
      BY <1>7
    <3>3. i = 1
      BY <3>1, <3>2, <1>8
    <3>4. w \in UpTo(accepted'[currentUser], Answered(currentUser)')
      BY <3>1, <3>2, <3>3, <1>1, <1>4
    <3> QED
      BY <3>4, <1>1, <1>9 DEF Answered
  <2> QED
    BY <2>1, <2>2
<1>12. ASSUME NEW x \in waits'
       PROVE  \E i \in 1 .. Len(nq) : nq[i].id = x.id /\ x.writes \subseteq UpTo(accepted[currentUser], (d + 1) + i)
  <2>1. x \in waits /\ x.id # first.id
    BY <1>2
  <2>2. PICK i \in 1 .. Len(q) : q[i].id = x.id /\ x.writes \subseteq UpTo(accepted[currentUser], d + i)
    BY <2>1, <1>7
  <2>3. i # 1
    BY <2>1, <2>2 DEF first
  <2> DEFINE j == i - 1
  <2>4. j \in 1 .. Len(nq) /\ nq[j] = q[i] /\ (d + 1) + j = d + i
    BY <2>3, <1>i
  <2> HIDE DEF j
  <2> QED
    BY <2>2, <2>4
<1>13. ASSUME NEW u \in Users PROVE callbacks'[u] \subseteq Range(queue'[u])
  <2>1. CASE u # currentUser
    BY <2>1, <1>2, <1>3, <1>c, <1>t
  <2>2. CASE u = currentUser
    <3>1. callbacks'[u] = callbacks[u] \ {first}
      BY <2>2, <1>2, <1>t
    <3>2. ASSUME NEW c \in callbacks[u], c # first PROVE c \in Range(nq)
      <4>1. c \in Range(q)
        BY <2>2, <1>c DEF q
      <4>2. PICK i \in 1 .. Len(q) : q[i] = c
        BY <4>1, <1>t DEF Range
      <4>3. i # 1
        BY <4>2, <3>2 DEF first
      <4> DEFINE j == i - 1
      <4>4. j \in 1 .. Len(nq) /\ nq[j] = q[i]
        BY <4>3, <1>i
      <4> HIDE DEF j
      <4>5. DOMAIN nq = 1 .. Len(nq)
        BY <1>t
      <4> QED
        BY <4>2, <4>4, <4>5 DEF Range
    <3> QED
      BY <3>1, <3>2, <2>2 DEF nq
  <2> QED
    BY <2>1, <2>2
<1>14. \A x \in waits' : \E i \in 1 .. Len(queue'[currentUser']) :
          /\ queue'[currentUser'][i].id = x.id
          /\ x.writes \subseteq UpTo(accepted'[currentUser'], Answered(currentUser)' + i)
  BY <1>1, <1>4, <1>12 DEF nq
<1> QED
  BY <1>10, <1>11, <1>13, <1>14 DEF SettledInv

\* No step breaks what is known of the writes settled.
LEMMA SettledStep ==
    ASSUME IInv, [Next]_vars
    PROVE  SettledInv'
<1>1. CASE Internal \/ Drop
  BY <1>1, SettledKept DEF Internal, Drop, Kept
<1>2. CASE HandleCredentialChange
  <2>1. /\ UNCHANGED <<queue, accepted, outcome, released, callbacks>>
        /\ waits' = {} \/ UNCHANGED <<waits, currentUser>>
    BY <1>2 DEF HandleCredentialChange
  <2> QED
    BY <2>1, SettledKept
<1>3. CASE Kill \/ KillInAcknowledge
  <2>1. /\ UNCHANGED <<queue, accepted>> /\ waits' = {} /\ released' = {}
        /\ callbacks' = [u \in Users |-> {}]
    BY <1>3 DEF Kill, KillInAcknowledge, Restart
  <2>2. \A w \in Writes : outcome'[w] = "rejected" => outcome[w] = "rejected"
    <3>1. CASE outcome' = outcome
      BY <3>1
    <3>2. CASE KillInAcknowledge
      <4> DEFINE told(w) == [id |-> Head(remote.pipeline).id, write |-> w] \in callbacks[currentUser]
      <4>1. outcome' = [w \in Writes |-> IF told(w) THEN "ok" ELSE outcome[w]]
        BY <3>2 DEF KillInAcknowledge
      <4> HIDE DEF told
      <4> QED
        BY <4>1
    <3> QED
      BY <3>1, <3>2, <1>3 DEF Kill
  <2> QED
    BY <2>1, <2>2, SettledKept
<1>4. CASE ServerCommit \/ ServerRefuse
  BY <1>4, SettledKept DEF ServerCommit, ServerRefuse, store
<1>5. CASE Rejection
  BY <1>5, SettlingSteps, SettledSettling DEF Rejection
<1>6. CASE OnWriteStreamMutationResult
  BY <1>6, SettlingSteps, StreamMutationResult, SettledSettling
<1> QED
  BY <1>1, <1>2, <1>3, <1>4, <1>5, <1>6, StepKinds, SettledRegister, SettledWriteMutations

\* The first answer to be read is for the front of the queue.
LEMMA FirstAnswer ==
    ASSUME IInv, remote.handshake, remote.answers # <<>>
    PROVE  /\ 1 \in 1 .. Len(queue[currentUser])
           /\ queue[currentUser][1].write \in Range(log)
           /\ queue[currentUser][1].write \in Range(remote.answers) \ {Handshake}
           /\ remote.pipeline # <<>>
<1> DEFINE a == Len(remote.answers)
           t == Taken(remote)
           w == Len(remote.wire)
           q == Len(queue[currentUser])
           p == Len(remote.pipeline)
<1>1. /\ a \in Nat /\ t \in Nat /\ w \in Nat /\ q \in Nat /\ a <= t /\ t + w <= q /\ t + w = p
      /\ \A i \in 1 .. a : remote.answers[i] = queue[currentUser][i].write /\ remote.answers[i] # Handshake
  BY UnderWay
<1>2. remote.answers \in Seq(Wire) /\ remote.pipeline \in Seq(Batch)
  BY InvFacts DEF RemoteStore
<1>3. a > 0
  BY <1>1, <1>2
<1>4. remote.answers[1] \in Range(remote.answers)
  BY <1>1, <1>2, <1>3 DEF Range
<1>5. UnreadCommits = a
  BY DEF UnreadCommits
<1>6. p = 0 => t = 0
  <2> HIDE DEF t, w, q, p, a
  <2> QED
    BY <1>1
<1> HIDE DEF t, w, q, a, p
<1>7. 1 \in 1 .. a /\ 1 \in 1 .. q /\ p # 0
  BY <1>1, <1>3, <1>6
<1>8. remote.answers[1] \in Range(log)
  BY <1>5, <1>7, AppliedParts
<1>9. remote.pipeline # <<>>
  BY <1>7 DEF p
<1> QED
  BY <1>1, <1>4, <1>7, <1>8, <1>9 DEF q

\* Outcomes that were true stay true.
LEMMA TruthfulKept ==
    ASSUME IInv, UNCHANGED <<outcome, log>>, refused \subseteq refused', lost \subseteq lost'
    PROVE  TruthfulAnswers'
BY DEF IInv, TruthfulAnswers

\* The applied write is not one that a caller was told has failed.
LEMMA TruthfulServerCommit ==
    ASSUME IInv, ServerCommit
    PROVE  TruthfulAnswers'
<1> DEFINE x == Head(remote.wire)
           k == Len(remote.answers) + 1
<1>1. /\ log' = Append(log, x) /\ UNCHANGED <<outcome, lost, refused>>
  BY DEF ServerCommit
<1>2. /\ x = queue[currentUser][k].write
      /\ k \in 1 .. Len(queue[currentUser]) /\ x \in Writes
  BY ServerSteps
<1>3. log \in Seq(Writes)
  BY AppliedParts
<1> HIDE DEF x, k
<1>4. Range(log') = Range(log) \cup {x}
  BY <1>1, <1>2, <1>3, RangeFacts
<1>5. \A w \in Writes : outcome[w] = "rejected" => w # x
  BY <1>2, InvFacts, SettledParts, QueuedNotAnswered
<1>6. \A w \in Writes : /\ outcome[w] = "ok" => w \in Range(log)
                        /\ outcome[w] = "rejected" => w \in (refused \ Range(log)) \cup lost
  BY DEF IInv, TruthfulAnswers
<1> QED
  BY <1>1, <1>4, <1>5, <1>6 DEF TruthfulAnswers

\* A caller that hears of success is told the truth.
LEMMA TruthfulMutationResult ==
    ASSUME IInv, OnWriteStreamMutationResult
    PROVE  TruthfulAnswers'
<1> DEFINE first == queue[currentUser][1]
<1>1. /\ log' = log /\ lost' = lost /\ refused' = refused
  BY DEF OnWriteStreamMutationResult
<1>2. outcome' = [w \in Writes |-> IF first \in callbacks[currentUser] /\ w = first.write
                                   THEN "ok" ELSE outcome[w]]
  BY StreamMutationResult DEF Settles
<1>3. first.write \in Range(log)
  BY StreamMutationResult, FirstAnswer
<1>4. \A w \in Writes : /\ outcome[w] = "ok" => w \in Range(log)
                        /\ outcome[w] = "rejected" => w \in (refused \ Range(log)) \cup lost
  BY DEF IInv, TruthfulAnswers
<1> HIDE DEF first
<1>5. ASSUME NEW w \in Writes
      PROVE  /\ outcome'[w] = "ok" => w \in Range(log)
             /\ outcome'[w] = "rejected" => w \in (refused \ Range(log)) \cup lost
  <2>1. CASE outcome'[w] = outcome[w]
    BY <2>1, <1>4
  <2>2. CASE outcome'[w] # outcome[w]
    <3>1. w = first.write /\ outcome'[w] = "ok"
      BY <2>2, <1>2
    <3> QED
      BY <3>1, <1>3
  <2> QED
    BY <2>1, <2>2
<1> QED
  BY <1>1, <1>5 DEF TruthfulAnswers

\* The write a caller is told has failed was refused, or its answer is lost.
LEMMA TruthfulRejection ==
    ASSUME IInv, Rejection
    PROVE  TruthfulAnswers'
<1> DEFINE first == queue[currentUser][1]
           x == first.write
<1>1. /\ log' = log /\ refused' = refused /\ lost' = lost \cup (Range(remote.answers) \ {Handshake})
  BY DEF Rejection, Offline
<1>2. outcome' = [w \in Writes |-> IF first \in callbacks[currentUser] /\ w = x
                                   THEN "rejected" ELSE outcome[w]]
  BY DEF Rejection, Settles
<1>3. \A w \in Writes : /\ outcome[w] = "ok" => w \in Range(log)
                        /\ outcome[w] = "rejected" => w \in (refused \ Range(log)) \cup lost
  BY DEF IInv, TruthfulAnswers
<1>4. x \in (refused \ Range(log)) \cup lost'
  <2>1. CASE remote.answers = <<>>
    <3>1. x \in refused
      <4>1. Len(remote.answers) + 1 = 1
        BY <2>1
      <4> QED
        BY <4>1, AppliedParts DEF Rejection
    <3>2. x \in Range(log) => x \in lost'
      <4>1. 1 \in 1 .. Len(queue[currentUser])
        BY SettlingSteps, SettlingFacts
      <4> QED
        BY <4>1, InvFacts, AppliedOffline DEF Rejection
    <3> QED
      BY <3>1, <3>2
  <2>2. CASE remote.answers # <<>>
    BY <2>2, <1>1, FirstAnswer DEF Rejection
  <2> QED
    BY <2>1, <2>2
<1> HIDE DEF first, x
<1>5. ASSUME NEW w \in Writes
      PROVE  /\ outcome'[w] = "ok" => w \in Range(log)
             /\ outcome'[w] = "rejected" => w \in (refused \ Range(log)) \cup lost'
  <2>1. CASE outcome'[w] = outcome[w]
    BY <2>1, <1>1, <1>3
  <2>2. CASE outcome'[w] # outcome[w]
    <3>1. w = x /\ outcome'[w] = "rejected"
      BY <2>2, <1>2
    <3>2. outcome'[w] # "ok"
      BY <3>1
    <3> QED
      BY <3>1, <3>2, <1>4
  <2> QED
    BY <2>1, <2>2
<1> QED
  BY <1>1, <1>5 DEF TruthfulAnswers

\* Who was told before the application was killed was told of the front.
LEMMA TruthfulKillInAcknowledge ==
    ASSUME IInv, KillInAcknowledge
    PROVE  TruthfulAnswers'
<1> DEFINE q == queue[currentUser]
           first == q[1]
           told(w) == [id |-> first.id, write |-> w] \in callbacks[currentUser]
<1>1. /\ log' = log /\ refused' = refused /\ lost' = lost \cup (Range(remote.answers) \ {Handshake})
  BY DEF KillInAcknowledge, Restart, LoseAnswers
<1>2. remote.handshake /\ remote.answers # <<>>
  BY DEF KillInAcknowledge
<1>3. Head(remote.pipeline) = first
  BY <1>2, FirstAnswer, PipelineFront
<1>4. outcome' = [w \in Writes |-> IF told(w) THEN "ok" ELSE outcome[w]]
  BY <1>3 DEF KillInAcknowledge
<1>5. ASSUME NEW w \in Writes, told(w) PROVE w \in Range(log)
  <2> DEFINE c == [id |-> first.id, write |-> w]
  <2>1. q \in Seq(Batch) /\ Sorted(q) /\ c.id = first.id /\ c.write = w
    BY InvFacts
  <2>2. c \in Range(q)
    BY <1>5, InvFacts, SettledParts
  <2> HIDE DEF c
  <2>3. PICK i \in 1 .. Len(q) : c = q[i]
    BY <2>1, <2>2 DEF Range
  <2>4. 1 \in 1 .. Len(q) /\ q[1].id \in Nat /\ q[i].id \in Nat
    BY <2>1, <1>2, FirstAnswer, BatchFields
  <2>5. ~(1 < i)
    BY <2>1, <2>3, <2>4 DEF Sorted
  <2>6. i = 1
    BY <2>4, <2>5
  <2> QED
    BY <2>1, <2>3, <2>6, <1>2, FirstAnswer
<1>6. \A w \in Writes : /\ outcome[w] = "ok" => w \in Range(log)
                        /\ outcome[w] = "rejected" => w \in (refused \ Range(log)) \cup lost
  BY DEF IInv, TruthfulAnswers
<1> HIDE DEF told
<1>7. ASSUME NEW w \in Writes
      PROVE  /\ outcome'[w] = "ok" => w \in Range(log)
             /\ outcome'[w] = "rejected" => w \in (refused \ Range(log)) \cup lost'
  <2>1. CASE outcome'[w] = outcome[w]
    BY <2>1, <1>1, <1>6
  <2>2. CASE outcome'[w] # outcome[w]
    <3>1. told(w) /\ outcome'[w] = "ok"
      BY <2>2, <1>4
    <3>2. outcome'[w] # "rejected"
      BY <3>1
    <3> QED
      BY <3>1, <3>2, <1>5
  <2> QED
    BY <2>1, <2>2
<1> QED
  BY <1>1, <1>7 DEF TruthfulAnswers

\* No step tells a caller an untruth.
LEMMA TruthfulStep ==
    ASSUME IInv, [Next]_vars
    PROVE  TruthfulAnswers'
<1>1. CASE Internal \/ Drop
  BY <1>1, TruthfulKept DEF Internal, Drop, Kept, Offline
<1>2. CASE HandleCredentialChange /\ Offline
  BY <1>2, TruthfulKept DEF HandleCredentialChange, Offline
<1>3. CASE Kill /\ Offline
  BY <1>3, TruthfulKept DEF Kill, Offline
<1>4. CASE WriteMutations \/ RegisterPendingWritesCallback
  BY <1>4, TruthfulKept DEF WriteMutations, RegisterPendingWritesCallback, history
<1>5. CASE ServerRefuse
  BY <1>5, TruthfulKept DEF ServerRefuse
<1> QED
  BY <1>1, <1>2, <1>3, <1>4, <1>5, StepKinds, TruthfulServerCommit, TruthfulMutationResult,
     TruthfulRejection, TruthfulKillInAcknowledge

\* A step that applies nothing applies nothing twice.
LEMMA OnceKept ==
    ASSUME IInv, UNCHANGED log, lost \subseteq lost'
    PROVE  OnceUnlessLost'
BY DEF IInv, OnceUnlessLost

\* No step applies a write twice unless its answer was lost.
LEMMA OnceStep ==
    ASSUME IInv, [Next]_vars
    PROVE  OnceUnlessLost'
<1>1. CASE Internal \/ Drop \/ Rejection \/ Offline
  BY <1>1, OnceKept DEF Internal, Drop, Rejection, Offline
<1>2. CASE WriteMutations \/ RegisterPendingWritesCallback \/ ServerRefuse \/ OnWriteStreamMutationResult
  BY <1>2, OnceKept DEF WriteMutations, RegisterPendingWritesCallback, history, ServerRefuse,
                        OnWriteStreamMutationResult
<1> QED
  BY <1>1, <1>2, StepKinds, AppliedServerCommit

----------------------------------------------------------------------------
\* Types, step by step.

LEMMA FaultUsed ==
    ASSUME TypeOK, Fault
    PROVE  used' \in [changes : 0 .. MaxChanges, waits : 0 .. MaxWaits, faults : 0 .. MaxFaults]
<1>1. used.faults + 1 \in 0 .. MaxFaults
  BY BoundsAssumption DEF TypeOK, Fault
<1> QED
  BY <1>1 DEF TypeOK, Fault

\* The bounds are kept.
LEMMA UsedStep ==
    ASSUME TypeOK, [Next]_vars
    PROVE  used' \in [changes : 0 .. MaxChanges, waits : 0 .. MaxWaits, faults : 0 .. MaxFaults]
<1>1. CASE UNCHANGED used
  BY <1>1 DEF TypeOK
<1>2. CASE Fault
  BY <1>2, FaultUsed
<1>3. CASE WaitForPendingWrites
  <2>1. used.waits + 1 \in 0 .. MaxWaits
    BY <1>3, BoundsAssumption DEF TypeOK, WaitForPendingWrites
  <2> QED
    BY <1>3, <2>1 DEF TypeOK, WaitForPendingWrites
<1>4. CASE \E u \in Users : AuthStateChanges(u)
  <2>0. used.changes < MaxChanges /\ used' = [used EXCEPT !.changes = @ + 1]
    BY <1>4 DEF AuthStateChanges
  <2>1. used.changes + 1 \in 0 .. MaxChanges
    BY <2>0, BoundsAssumption DEF TypeOK
  <2> QED
    BY <2>0, <2>1 DEF TypeOK
<1>5. CASE Client
  BY <1>5, <1>1 DEF Client, WriteMutations, RegisterPendingWritesCallback, HandleCredentialChange,
     ResumeStartWithCredentials, BackoffElapses, OnWriteStreamHandshakeComplete,
     OnWriteStreamMutationResult, OnStreamFinish
<1>6. CASE Server
  BY <1>6, <1>1 DEF Server, ServerHandshake, ServerCommit, ServerRefuse
<1>7. CASE \/ ServerGivesUp \/ TokenFails \/ StreamBreaks \/ DisableNetwork \/ Kill \/ KillInAcknowledge
           \/ \E available \in BOOLEAN : ConnectivityChanges(available)
  BY <1>7, <1>2 DEF ServerGivesUp, TokenFails, StreamBreaks, DisableNetwork, Kill, KillInAcknowledge,
     Restart, ConnectivityChanges
<1>8. CASE IssueWrite \/ IdleTimeout \/ ReenableNetwork \/ \E fresh \in BOOLEAN : TokenArrives(fresh)
  BY <1>8, <1>1 DEF IssueWrite, IdleTimeout, ReenableNetwork, TokenArrives
<1>9. CASE UNCHANGED vars
  BY <1>9, <1>1 DEF vars
<1> QED
  BY <1>3, <1>4, <1>5, <1>6, <1>7, <1>8, <1>9 DEF Next, Device

\* Types of the tasks and users after a step.
LEMMA TaskTypes ==
    ASSUME IInv, [Next]_vars
    PROVE  /\ tasks' \in Seq(Task) /\ issued' \in Seq(Users) /\ authUser' \in Users
           /\ currentUser' \in Users
<1>1. tasks \in Seq(Task) /\ issued \in Seq(Users) /\ authUser \in Users /\ currentUser \in Users
  BY DEF IInv, TypeOK
<1>2. ASSUME NEW t, Posting(t)
      PROVE  tasks' \in Seq(Task) /\ issued' \in Seq(Users) /\ authUser' \in Users /\ currentUser' \in Users
  BY <1>1, <1>2, PostedTasks DEF Posting
<1>3. ASSUME NEW n, Running(n)
      PROVE  tasks' \in Seq(Task) /\ issued' \in Seq(Users) /\ authUser' \in Users /\ currentUser' \in Users
  <2>1. n = 1 /\ IsUserTask(tasks[1]) => tasks[1].user \in Users
    <3> SUFFICES ASSUME n = 1, IsUserTask(tasks[1]) PROVE tasks[1].user \in Users
      OBVIOUS
    <3>1. tasks[1] \in Task
      BY <1>3, HeadTask DEF Running
    <3> QED
      BY <3>1 DEF IsUserTask, Task
  <2> QED
    BY <1>1, <1>3, <2>1 DEF Running, Later
<1>4. CASE Kill \/ KillInAcknowledge
  <2>1. tasks' = <<>> /\ currentUser' = authUser /\ UNCHANGED <<authUser, issued>>
    BY <1>4 DEF Kill, KillInAcknowledge, Restart
  <2>2. <<>> \in Seq(Task)
    OBVIOUS
  <2> QED
    BY <1>1, <2>1, <2>2
<1> QED
  BY <1>2, <1>3, <1>4, TaskKinds

\* Types of queues, callbacks and waits after a step.
LEMMA StoreTypes ==
    ASSUME IInv, [Next]_vars
    PROVE  /\ queue' \in [Users -> Seq(Batch)] /\ accepted' \in [Users -> Seq(Writes)]
           /\ callbacks' \in [Users -> SUBSET Batch]
           /\ waits' \in SUBSET [id : Nat, writes : SUBSET Writes]
<1>1. /\ queue \in [Users -> Seq(Batch)] /\ accepted \in [Users -> Seq(Writes)]
      /\ callbacks \in [Users -> SUBSET Batch]
      /\ waits \in SUBSET [id : Nat, writes : SUBSET Writes] /\ currentUser \in Users
  BY DEF IInv, TypeOK
<1>2. CASE Internal \/ Drop \/ HandleCredentialChange \/ Kill \/ KillInAcknowledge
           \/ ServerCommit \/ ServerRefuse
  <2>1. /\ UNCHANGED <<queue, accepted>>
        /\ callbacks' = callbacks \/ callbacks' = [u \in Users |-> {}]
        /\ waits' = waits \/ waits' = {}
    BY <1>2 DEF Internal, Drop, Kept, HandleCredentialChange, Kill, KillInAcknowledge, Restart,
       ServerCommit, ServerRefuse, store
  <2>2. callbacks' \in [Users -> SUBSET Batch]
    BY <1>1, <2>1
  <2> QED
    BY <1>1, <2>1, <2>2
<1>3. CASE WriteMutations
  <2> DEFINE w == Head(tasks).write
             b == [id |-> nextBatchId, write |-> w]
  <2>1. /\ b \in Batch /\ w \in Writes
        /\ queue' = [queue EXCEPT ![currentUser] = Append(queue[currentUser], b)]
        /\ accepted' = [accepted EXCEPT ![currentUser] = Append(accepted[currentUser], w)]
    BY <1>3, NewBatch
  <2>2. /\ waits' = waits
        /\ \/ callbacks' = [callbacks EXCEPT ![currentUser] = @]
           \/ callbacks' = [callbacks EXCEPT ![currentUser] = @ \cup {b}]
    BY <1>3 DEF WriteMutations
  <2> HIDE DEF w, b
  <2>3. callbacks' \in [Users -> SUBSET Batch]
    BY <1>1, <2>1, <2>2
  <2> QED
    BY <1>1, <2>1, <2>2, <2>3
<1>4. CASE RegisterPendingWritesCallback
  <2> DEFINE q == queue[currentUser]
             n == Last(q).id
             p == Pending(currentUser)
  <2>1. UNCHANGED <<queue, accepted, callbacks>>
    BY <1>4 DEF RegisterPendingWritesCallback, history
  <2>2. waits' = waits \/ (q # <<>> /\ waits' = waits \cup {[id |-> n, writes |-> p]})
    BY <1>4 DEF RegisterPendingWritesCallback
  <2>3. q # <<>> => n \in Nat
    <3> SUFFICES ASSUME q # <<>> PROVE q[Len(q)].id \in Nat
      BY DEF Last
    <3>1. q \in Seq(Batch) /\ Len(q) \in 1 .. Len(q)
      BY <1>1
    <3> QED
      BY <3>1, BatchFields
  <2>4. p \in SUBSET Writes
    <3>1. q \in Seq(Batch) /\ DOMAIN q = 1 .. Len(q) /\ \A i \in 1 .. Len(q) : q[i].write \in Writes
      BY <1>1, BatchFields
    <3>2. p = Range([j \in DOMAIN q |-> q[j].write])
      BY DEF Pending, WriteOf
    <3> HIDE DEF q
    <3> QED
      BY <3>1, <3>2 DEF Range
  <2> HIDE DEF n, p
  <2> QED
    BY <1>1, <2>1, <2>2, <2>3, <2>4
<1>5. CASE Rejection \/ OnWriteStreamMutationResult
  <2> DEFINE q == queue[currentUser]
  <2>1. Settling /\ \E result : Settles(result)
    BY <1>5, SettlingSteps, StreamMutationResult DEF Rejection
  <2>2. /\ queue' = [queue EXCEPT ![currentUser] = Tail(q)]
        /\ callbacks' = [callbacks EXCEPT ![currentUser] = callbacks[currentUser] \ {q[1]}]
        /\ waits' = {x \in waits : x.id # q[1].id} /\ accepted' = accepted
    BY <2>1 DEF Settling, Settles
  <2>3. Tail(q) \in Seq(Batch)
    <3>1. q \in Seq(Batch) /\ q # <<>>
      BY <1>1, <2>1 DEF Settling
    <3> QED
      BY <3>1, TailFacts
  <2>4. callbacks' \in [Users -> SUBSET Batch]
    BY <1>1, <2>2
  <2> HIDE DEF q
  <2> QED
    BY <1>1, <2>2, <2>3, <2>4
<1> QED
  BY <1>2, <1>3, <1>4, <1>5, StepKinds

\* Types of outcomes and history after a step.
LEMMA HistoryTypes ==
    ASSUME IInv, [Next]_vars
    PROVE  /\ outcome' \in [Writes -> {"none", "ok", "rejected"}]
           /\ log' \in Seq(Writes) /\ refused' \subseteq Writes
           /\ lost' \subseteq Writes /\ released' \subseteq Writes
<1>1. /\ outcome \in [Writes -> {"none", "ok", "rejected"}]
      /\ log \in Seq(Writes) /\ refused \subseteq Writes
      /\ lost \subseteq Writes /\ released \subseteq Writes
      /\ waits \in SUBSET [id : Nat, writes : SUBSET Writes]
      /\ remote.answers \in Seq(Wire)
  BY DEF IInv, TypeOK, RemoteStore
<1>2. Range(remote.answers) \ {Handshake} \subseteq Writes
  <2>1. \A i \in DOMAIN remote.answers : remote.answers[i] \in Wire
    BY <1>1
  <2> QED
    BY <2>1 DEF Range, Wire
<1>3. CASE Internal
  BY <1>1, <1>3 DEF Internal, Kept
<1>4. CASE Drop \/ (HandleCredentialChange /\ Offline)
  BY <1>1, <1>2, <1>4 DEF Drop, Kept, Offline, HandleCredentialChange
<1>5. CASE (Kill \/ KillInAcknowledge) /\ Offline
  <2>1. /\ log' = log /\ refused' = refused /\ lost' = lost \cup (Range(remote.answers) \ {Handshake})
        /\ released' = {}
    BY <1>5 DEF Kill, KillInAcknowledge, Restart, Offline
  <2>2. outcome' \in [Writes -> {"none", "ok", "rejected"}]
    <3>1. CASE Kill
      BY <3>1, <1>1 DEF Kill
    <3>2. CASE KillInAcknowledge
      <4> DEFINE told(w) == [id |-> Head(remote.pipeline).id, write |-> w] \in callbacks[currentUser]
      <4>1. outcome' = [w \in Writes |-> IF told(w) THEN "ok" ELSE outcome[w]]
        BY <3>2 DEF KillInAcknowledge
      <4> HIDE DEF told
      <4> QED
        BY <4>1, <1>1
    <3> QED
      BY <3>1, <3>2, <1>5
  <2> QED
    BY <1>1, <1>2, <2>1, <2>2
<1>6. CASE WriteMutations \/ RegisterPendingWritesCallback
  BY <1>1, <1>6 DEF WriteMutations, RegisterPendingWritesCallback, history
<1>7. CASE ServerCommit
  <2>1. log' = Append(log, Head(remote.wire)) /\ UNCHANGED <<outcome, refused, lost, released>>
    BY <1>7 DEF ServerCommit
  <2>2. Head(remote.wire) \in Writes
    BY <1>7, ServerSteps
  <2> QED
    BY <1>1, <2>1, <2>2
<1>8. CASE ServerRefuse
  <2>1. refused' = refused \cup {Head(remote.wire)} /\ UNCHANGED <<outcome, log, lost, released>>
    BY <1>8 DEF ServerRefuse
  <2>2. Head(remote.wire) \in Writes
    BY <1>8, ServerSteps
  <2> QED
    BY <1>1, <2>1, <2>2
<1>9. CASE Rejection \/ OnWriteStreamMutationResult
  <2>1. /\ log' = log /\ refused' = refused
        /\ lost' = lost \/ lost' = lost \cup (Range(remote.answers) \ {Handshake})
    BY <1>9 DEF Rejection, Offline, OnWriteStreamMutationResult
  <2>2. PICK result \in {"ok", "rejected"} : Settles(result)
    BY <1>9, StreamMutationResult DEF Rejection
  <2> DEFINE told(w) == queue[currentUser][1] \in callbacks[currentUser] /\ w = queue[currentUser][1].write
  <2>3. /\ outcome' = [w \in Writes |-> IF told(w) THEN result ELSE outcome[w]]
        /\ released' = released \cup UNION {x.writes : x \in waits \ waits'}
    BY <2>2 DEF Settles
  <2> HIDE DEF told
  <2>4. outcome' \in [Writes -> {"none", "ok", "rejected"}]
    BY <1>1, <2>2, <2>3
  <2>5. released' \subseteq Writes
    BY <1>1, <2>3
  <2> QED
    BY <1>1, <1>2, <2>1, <2>4, <2>5
<1> QED
  BY <1>3, <1>4, <1>5, <1>6, <1>7, <1>8, <1>9, StepKinds

\* Every step preserves the types.
LEMMA TypeStep ==
    ASSUME IInv, [Next]_vars
    PROVE  TypeOK'
<1>1. TypeOK
  BY DEF IInv
<1>2. /\ nextBatchId' \in Nat \ {0} /\ remote' \in RemoteStore
  BY QueueStep, StepKinds DEF StreamKept
<1> QED
  BY <1>1, <1>2, UsedStep, TaskTypes, StoreTypes, HistoryTypes DEF TypeOK

----------------------------------------------------------------------------
\* The inductive invariant.

\* The first batch gets number 1.
LEMMA FirstBatchId ==
    ASSUME Init
    PROVE  nextBatchId = 1
<1>1. {v \in Users : queue[v] # <<>>} = {}
  BY DEF Init
<1>2. {0} \cup {Last(queue[u]).id : u \in {v \in Users : queue[v] # <<>>}} = {0}
  BY <1>1
<1>3. Max({0}) = 0
  <2>1. \A x \in {0} : (\A y \in {0} : x >= y) => x = 0
    OBVIOUS
  <2>2. \A y \in {0} : 0 >= y
    OBVIOUS
  <2> QED
    BY <2>1, <2>2 DEF Max
<1>4. LoadNextBatchIdFromDb(queue) = Max({0}) + 1
  BY <1>2 DEF LoadNextBatchIdFromDb
<1> QED
  BY <1>3, <1>4 DEF Init

\* Nothing is queued, sent or answered at the start.
LEMMA InitInv ==
    ASSUME Init
    PROVE  IInv
<1>1. /\ authUser \in Users /\ currentUser = authUser
      /\ queue = [u \in Users |-> <<>>] /\ accepted = [u \in Users |-> <<>>]
      /\ callbacks = [u \in Users |-> {}] /\ waits = {} /\ tasks = <<>> /\ issued = <<>>
      /\ outcome = [w \in Writes |-> "none"] /\ log = <<>>
      /\ refused = {} /\ lost = {} /\ released = {}
  BY DEF Init
<1>2. /\ remote.enabled /\ remote.pipeline = <<>> /\ remote.state = "Initial"
      /\ remote.handshake = FALSE /\ remote.idle = FALSE /\ remote.asked = {}
      /\ remote.wire = <<>> /\ remote.answers = <<>> /\ remote.status = "none"
  BY DEF Init, Fresh
<1>3. \A u \in Users : queue[u] = <<>> /\ accepted[u] = <<>> /\ callbacks[u] = {}
  BY <1>1
<1>4. remote \in RemoteStore
  BY <1>1 DEF Init, Fresh, RemoteStore
<1>5. TypeOK
  <2>1. used \in [changes : 0 .. MaxChanges, waits : 0 .. MaxWaits, faults : 0 .. MaxFaults]
    BY BoundsAssumption DEF Init
  <2>2. nextBatchId \in Nat \ {0}
    BY FirstBatchId
  <2> QED
    BY <1>1, <1>4, <2>1, <2>2 DEF TypeOK
<1>6. QueueInv /\ AcceptedOnce
  <2>1. \A u \in Users : Len(queue[u]) = 0 /\ Len(accepted[u]) = 0
    BY <1>3
  <2>2. ASSUME NEW u \in Users PROVE QueueOf(queue[u], accepted[u], nextBatchId)
    <3>1. Len(queue[u]) <= Len(accepted[u])
      BY <2>1
    <3>2. 1 .. Len(queue[u]) = {}
      BY <2>1
    <3> QED
      BY <3>1, <3>2 DEF QueueOf, Sorted
  <2>3. AcceptedOnce
    BY <2>1 DEF AcceptedOnce
  <2> QED
    BY <2>2, <2>3 DEF QueueInv
<1>7. StreamInv(remote, queue[currentUser])
  <2>1. Held(queue[currentUser]) = 0
    BY <1>1, <1>3, MaxPendingWritesAssumption DEF Held
  <2>2. HoldsFirst(remote, queue[currentUser], 0)
    BY <1>2 DEF HoldsFirst
  <2>3. StreamShape(remote)
    BY <1>2 DEF StreamShape, IsStarted, IsOpen, Quiet
  <2> QED
    BY <2>1, <2>2, <2>3 DEF StreamInv
<1>8. RequestInv /\ WriteTaskInv
  BY <1>1 DEF RequestInv, WriteTaskInv
<1>9. TaskInv
  <2> DEFINE s == [i \in 1 .. Len(tasks) + 1 |-> authUser]
  <2>1. Len(tasks) = 0 /\ s[1] = authUser /\ s \in [1 .. Len(tasks) + 1 -> Users]
    BY <1>1
  <2> HIDE DEF s
  <2>2. RunsAs(s, tasks, currentUser, authUser, issued)
    BY <2>1, <1>1 DEF RunsAs
  <2>3. ~IsOpen(remote)
    BY <1>2 DEF IsOpen
  <2>4. \A u \in Users : 1 .. Len(accepted[u]) = {}
    BY <1>3
  <2> QED
    BY <2>1, <2>2, <2>3, <2>4 DEF TaskInv
<1>10. AppliedInv
  <2>1. UnreadCommits = 0
    BY <1>2 DEF UnreadCommits
  <2> QED
    BY <2>1, <1>1, <1>2, <1>3 DEF AppliedInv
<1>11. SettledInv /\ TruthfulAnswers /\ OnceUnlessLost
  <2>1. \A w \in Writes : outcome[w] = "none"
    BY <1>1
  <2> QED
    BY <2>1, <1>1, <1>3 DEF SettledInv, TruthfulAnswers, OnceUnlessLost
<1> QED
  BY <1>5, <1>6, <1>7, <1>8, <1>9, <1>10, <1>11 DEF IInv

\* Every step keeps it.
LEMMA NextInv ==
    ASSUME IInv, [Next]_vars
    PROVE  IInv'
<1>1. StreamInv(remote, queue[currentUser])'
  BY StepKinds DEF StreamKept
<1> QED
  BY <1>1, TypeStep, QueueStep, AcceptedStep, RequestStep, TaskStep, WriteTaskStep, AppliedStep,
     SettledStep, TruthfulStep, OnceStep DEF IInv

\* The inductive invariant holds in every reachable state.
LEMMA Inductive == Spec => []IInv
BY InitInv, NextInv, PTL DEF Spec

----------------------------------------------------------------------------
\* The properties the runs check.

\* The types of WritePipeline are kept by every task of the worker queue,
\* every step of the backend, and whatever happens to the device.
THEOREM PipelineTypeCorrect == Spec => []TypeOK
<1>1. IInv => TypeOK
  BY DEF IInv
<1> QED
  BY <1>1, Inductive, PTL

\* For any number of users and writes and any kMaxPendingWrites, the pipeline
\* of RemoteStore is the front of the signed-in user's mutation queue, and
\* IdleTimeout never stops a stream that is still needed.
THEOREM PipelineIsFrontHolds == Spec => []PipelineIsFront
<1>1. ASSUME IInv PROVE PipelineIsFront
  <2> DEFINE q == queue[currentUser]
             p == remote.pipeline
             n == Min({MaxPendingWrites, Len(q)})
  <2>1. p \in Seq(Batch) /\ q \in Seq(Batch) /\ Len(q) \in Nat /\ Len(p) \in Nat
    BY <1>1, InvFacts DEF RemoteStore
  <2>2. HoldsFirst(remote, q, IF remote.enabled THEN Held(q) ELSE 0) /\ StreamShape(remote)
    BY <1>1, InvFacts DEF StreamInv
  <2>3. Len(p) = (IF remote.enabled THEN Held(q) ELSE 0) /\ \A i \in 1 .. Len(p) : p[i] = q[i]
    BY <2>2 DEF HoldsFirst
  <2>4. n = Held(q) /\ n \in Nat /\ n <= Len(q)
    <3>1. n = IF MaxPendingWrites < Len(q) THEN MaxPendingWrites ELSE Len(q)
      BY <2>1, MaxPendingWritesAssumption, MinOfTwo
    <3> HIDE DEF n, q
    <3> QED
      BY <2>1, <3>1, MaxPendingWritesAssumption DEF Held
  <2>5. remote.enabled => p = SubSeq(q, 1, n)
    <3> SUFFICES ASSUME remote.enabled PROVE p = SubSeq(q, 1, n)
      OBVIOUS
    <3> HIDE DEF n, q, p
    <3> DEFINE f == SubSeq(q, 1, n)
    <3>1. f \in Seq(Batch) /\ Len(f) = n - 1 + 1 /\ \A i \in 1 .. n - 1 + 1 : f[i] = q[1 + i - 1]
      BY <2>1, <2>4, SubSeqFacts
    <3>2. Len(p) = n
      BY <2>3, <2>4
    <3> HIDE DEF f
    <3>3. Len(f) = n /\ \A i \in 1 .. n : f[i] = q[i]
      BY <2>4, <3>1
    <3>4. p = f
      BY <2>1, <2>3, <3>1, <3>2, <3>3, SeqsEqual
    <3> QED
      BY <3>4 DEF f
  <2>6. ~remote.enabled => p = <<>>
    BY <2>1, <2>3
  <2>7. remote.idle => IsOpen(remote) /\ p = <<>>
    <3>1. remote.idle => IsOpen(remote) /\ Len(p) = 0
      BY <2>2 DEF StreamShape
    <3> QED
      BY <3>1, <2>1
  <2> QED
    BY <2>5, <2>6, <2>7 DEF PipelineIsFront
<1> QED
  BY <1>1, Inductive, PTL

\* The last elements of t, in the order of Reverse.
LEMMA SuffixFacts ==
    ASSUME NEW S, NEW s \in Seq(S), NEW t \in Seq(S), Len(s) <= Len(t),
           \A i \in 1 .. Len(s) : s[i] = t[(Len(t) - Len(s)) + i]
    PROVE  IsSuffix(s, t)
<1> DEFINE m == Len(s)
           n == Len(t)
           rs == Reverse(s)
           rt == Reverse(t)
<1>1. m \in Nat /\ n \in Nat /\ m <= n /\ \A i \in 1 .. m : s[i] = t[(n - m) + i]
  OBVIOUS
<1>2. rs = [i \in 1 .. m |-> s[(m - i) + 1]] /\ rt = [i \in 1 .. n |-> t[(n - i) + 1]]
  BY DEF Reverse
<1>3. (\A i \in 1 .. m : s[i] \in S) /\ (\A i \in 1 .. n : t[i] \in S)
  OBVIOUS
<1> HIDE DEF m, n, rs, rt
<1>4. rs \in [1 .. m -> S] /\ rt \in [1 .. n -> S]
  <2>1. (\A i \in 1 .. m : (m - i) + 1 \in 1 .. m) /\ (\A i \in 1 .. n : (n - i) + 1 \in 1 .. n)
    BY <1>1
  <2> QED
    BY <2>1, <1>2, <1>3
<1>5. rs \in Seq(S) /\ Len(rs) = m /\ rt \in Seq(S) /\ Len(rt) = n
  BY <1>1, <1>4, FunctionIsSeq
<1>6. \A i \in 1 .. m : rs[i] = rt[i]
  <2> SUFFICES ASSUME NEW i \in 1 .. m PROVE rs[i] = rt[i]
    OBVIOUS
  <2>1. i \in 1 .. n /\ (m - i) + 1 \in 1 .. m /\ (n - m) + ((m - i) + 1) = (n - i) + 1
    BY <1>1
  <2>2. rs[i] = s[(m - i) + 1] /\ rt[i] = t[(n - i) + 1]
    BY <2>1, <1>2
  <2> DEFINE j == (m - i) + 1
  <2>3. j \in 1 .. m /\ (n - m) + j = (n - i) + 1 /\ rs[i] = s[j]
    BY <2>1, <2>2
  <2> HIDE DEF j
  <2> QED
    BY <2>2, <2>3, <1>1
<1> DEFINE fs == SubSeq(rs, 1, m)
           ft == SubSeq(rt, 1, m)
<1>7. /\ fs \in Seq(S) /\ Len(fs) = m - 1 + 1 /\ \A i \in 1 .. m - 1 + 1 : fs[i] = rs[1 + i - 1]
      /\ ft \in Seq(S) /\ Len(ft) = m - 1 + 1 /\ \A i \in 1 .. m - 1 + 1 : ft[i] = rt[1 + i - 1]
  BY <1>1, <1>5, SubSeqFacts
<1> HIDE DEF fs, ft
<1>8. /\ Len(fs) = m /\ Len(ft) = m
      /\ \A i \in 1 .. m : fs[i] = rs[i] /\ ft[i] = rt[i]
  BY <1>1, <1>7
<1>9. fs = ft
  BY <1>6, <1>7, <1>8, SeqsEqual
<1> QED
  BY <1>1, <1>5, <1>9 DEF IsSuffix, IsPrefix, fs, ft, rs, rt

\* A sequence that agrees with the front of another is a prefix of it.
LEMMA PrefixFacts ==
    ASSUME NEW S, NEW s \in Seq(S), NEW t \in Seq(S), Len(s) <= Len(t),
           \A i \in 1 .. Len(s) : s[i] = t[i]
    PROVE  IsPrefix(s, t)
<1> DEFINE m == Len(s)
           fs == SubSeq(s, 1, m)
           ft == SubSeq(t, 1, m)
<1>1. m \in Nat /\ m <= Len(t) /\ m <= Len(s)
  OBVIOUS
<1>2. /\ fs \in Seq(S) /\ Len(fs) = m - 1 + 1 /\ \A i \in 1 .. m - 1 + 1 : fs[i] = s[1 + i - 1]
      /\ ft \in Seq(S) /\ Len(ft) = m - 1 + 1 /\ \A i \in 1 .. m - 1 + 1 : ft[i] = t[1 + i - 1]
  BY <1>1, SubSeqFacts
<1>3. \A i \in 1 .. m : s[i] = t[i]
  OBVIOUS
<1> HIDE DEF fs, ft, m
<1>4. /\ Len(fs) = m /\ Len(ft) = m
      /\ \A i \in 1 .. m : fs[i] = s[i] /\ ft[i] = t[i]
  BY <1>1, <1>2
<1>5. fs = ft
  BY <1>2, <1>3, <1>4, SeqsEqual
<1> QED
  BY <1>1, <1>5 DEF IsPrefix, fs, ft, m

\* The answers not yet read are for the front of the pipeline, and what the
\* backend has not taken is its end: OnWriteStreamMutationResult may take each
\* answer for the front of the pipeline.
THEOREM AnswersLineUpHolds == Spec => []AnswersLineUp
<1>1. ASSUME IInv PROVE AnswersLineUp
  <2> SUFFICES ASSUME IsOpen(remote), remote.handshake
               PROVE  LET sent == WriteOf(remote.pipeline)
                          gone == IF remote.status = "none" THEN 0 ELSE 1
                      IN  /\ IsPrefix(remote.answers, sent)
                          /\ IsSuffix(remote.wire, sent)
                          /\ Len(remote.answers) + gone + Len(remote.wire) = Len(sent)
    BY DEF AnswersLineUp
  <2> DEFINE sent == WriteOf(remote.pipeline)
             gone == IF remote.status = "none" THEN 0 ELSE 1
             a == remote.answers
             w == remote.wire
             p == remote.pipeline
             t == Taken(remote)
  <2>1. a \in Seq(Wire) /\ w \in Seq(Wire) /\ p \in Seq(Batch)
    BY <1>1, InvFacts DEF RemoteStore
  <2>2. /\ t + Len(w) = Len(p)
        /\ \A i \in 1 .. Len(a) : a[i] = p[i].write
        /\ \A i \in 1 .. Len(w) : w[i] = p[t + i].write
    BY <1>1, InvFacts DEF StreamShape, LinedUp
  <2>3. Len(a) \in Nat /\ Len(w) \in Nat /\ Len(p) \in Nat /\ gone \in {0, 1} /\ t = Len(a) + gone
    BY <2>1 DEF Taken
  <2>4. sent \in Seq(Wire) /\ Len(sent) = Len(p) /\ \A i \in 1 .. Len(p) : sent[i] = p[i].write
    <3>1. sent = [i \in 1 .. Len(p) |-> p[i].write]
      BY <2>1 DEF WriteOf
    <3>2. \A i \in 1 .. Len(p) : p[i].write \in Wire
      BY <2>1, BatchFields DEF Wire
    <3> HIDE DEF sent, p
    <3>3. sent \in [1 .. Len(p) -> Wire]
      BY <3>1, <3>2
    <3> QED
      BY <2>3, <3>1, <3>3, FunctionIsSeq
  <2> HIDE DEF sent, gone, a, w, p, t
  <2>5. IsPrefix(a, sent)
    <3>1. Len(a) <= Len(sent) /\ \A i \in 1 .. Len(a) : i \in 1 .. Len(p)
      BY <2>2, <2>3, <2>4
    <3>2. \A i \in 1 .. Len(a) : a[i] = sent[i]
      BY <2>2, <2>4, <3>1
    <3> QED
      BY <2>1, <2>4, <3>1, <3>2, PrefixFacts
  <2>6. IsSuffix(w, sent)
    <3>1. Len(w) <= Len(sent) /\ Len(sent) - Len(w) = t /\ \A i \in 1 .. Len(w) : t + i \in 1 .. Len(p)
      BY <2>2, <2>3, <2>4
    <3>2. \A i \in 1 .. Len(w) : w[i] = sent[(Len(sent) - Len(w)) + i]
      BY <2>2, <2>4, <3>1
    <3> QED
      BY <2>1, <2>4, <3>1, <3>2, SuffixFacts
  <2>7. Len(a) + gone + Len(w) = Len(sent)
    BY <2>2, <2>3, <2>4
  <2> QED
    BY <2>5, <2>6, <2>7 DEF sent, gone, a, w, p
<1> QED
  BY <1>1, Inductive, PTL

\* The writes of a queue, as a set.
LEMMA PendingWrites ==
    ASSUME IInv, NEW u \in Users, NEW w \in Pending(u)
    PROVE  \E n \in 1 .. Len(queue[u]) : w = queue[u][n].write
<1> DEFINE q == queue[u]
<1>1. DOMAIN q = 1 .. Len(q)
  BY DEF IInv, TypeOK
<1>2. w \in Range([j \in DOMAIN q |-> q[j].write])
  BY DEF Pending, WriteOf
<1> HIDE DEF q
<1>3. w \in {q[j].write : j \in DOMAIN q}
  BY <1>2 DEF Range
<1> QED
  BY <1>1, <1>3 DEF q

\* A stream carries a token of the user whose queue it sends, and every batch
\* lies in the queue of the user who was signed in when it was issued.
THEOREM OwnNameHolds == Spec => []OwnName
<1>1. ASSUME IInv PROVE OwnName
  <2>1. /\ IsOpen(remote) => remote.token = currentUser
        /\ \A u \in Users : \A i \in 1 .. Len(accepted[u]) : issued[accepted[u][i]] = u
    BY <1>1, Zenon DEF IInv, TaskInv
  <2>2. ASSUME NEW u \in Users, NEW w \in Pending(u) PROVE issued[w] = u
    <3>1. PICK n \in 1 .. Len(queue[u]) : w = queue[u][n].write
      BY <1>1, PendingWrites
    <3> DEFINE k == Answered(u) + n
    <3>2. k \in 1 .. Len(accepted[u]) /\ w = accepted[u][k]
      BY <1>1, <3>1, QueueWrites
    <3> HIDE DEF k
    <3> QED
      BY <3>2, <2>1
  <2> QED
    BY <2>1, <2>2 DEF OwnName
<1> QED
  BY <1>1, Inductive, PTL

\* Ids grow along every queue, callbacks are for batches still queued, and no
\* wait answers for a write that is still in a queue.
THEOREM CallbacksMatchHolds == Spec => []CallbacksMatch
<1>1. ASSUME IInv PROVE CallbacksMatch
  <2>1. ASSUME NEW u \in Users
        PROVE  \A i, j \in DOMAIN queue[u] : i < j => queue[u][i].id < queue[u][j].id
    <3>1. queue[u] \in Seq(Batch) /\ Sorted(queue[u])
      BY <1>1, InvFacts
    <3>2. DOMAIN queue[u] = 1 .. Len(queue[u])
      BY <3>1
    <3> QED
      BY <3>1, <3>2 DEF Sorted
  <2>2. \A u \in Users : callbacks[u] \subseteq Range(queue[u])
    BY <1>1, SettledParts
  <2>3. ASSUME NEW u \in Users PROVE Pending(u) \cap released = {}
    <3> SUFFICES ASSUME NEW w \in Pending(u), w \in released PROVE FALSE
      OBVIOUS
    <3>1. PICK n \in 1 .. Len(queue[u]) : w = queue[u][n].write
      BY <1>1, PendingWrites
    <3>2. PICK v \in Users : w \in UpTo(accepted[v], Answered(v))
      BY <1>1, SettledParts
    <3> QED
      BY <1>1, <3>1, <3>2, QueuedNotAnswered
  <2>4. ASSUME NEW x \in waits PROVE x.id \in {b.id : b \in Range(queue[currentUser])}
    <3>1. PICK i \in 1 .. Len(queue[currentUser]) : queue[currentUser][i].id = x.id
      BY <1>1, SettledParts
    <3>2. DOMAIN queue[currentUser] = 1 .. Len(queue[currentUser])
      BY <1>1, InvFacts
    <3>3. queue[currentUser][i] \in Range(queue[currentUser])
      BY <3>2 DEF Range
    <3> QED
      BY <3>1, <3>3
  <2> QED
    BY <2>1, <2>2, <2>3, <2>4 DEF CallbacksMatch
<1> QED
  BY <1>1, Inductive, PTL

\* A caller is told of success only for a write that was applied, and of a
\* failure only for one that was refused, or whose answer was lost.
THEOREM TruthfulAnswersHolds == Spec => []TruthfulAnswers
<1>1. IInv => TruthfulAnswers
  BY DEF IInv
<1> QED
  BY <1>1, Inductive, PTL

\* A write is applied twice only when the answer to it was lost.
THEOREM OnceUnlessLostHolds == Spec => []OnceUnlessLost
<1>1. IInv => OnceUnlessLost
  BY DEF IInv
<1> QED
  BY <1>1, Inductive, PTL

----------------------------------------------------------------------------
\* The refinement of WriteLog.

\* The writes of each user that are answered, and those the server has got
\* through.
Done == [u \in Users |-> Answered(u)]
Got == [u \in Users |-> Answered(u) + IF u = currentUser THEN UnreadCommits ELSE 0]

\* The counts of WriteLog, in terms of the queue and the answers.
LEMMA Counts ==
    ASSUME IInv
    PROVE  /\ UnreadCommits \in Nat /\ currentUser \in Users
           /\ \A u \in Users : Answered(u) \in Nat /\ Done[u] = Answered(u)
           /\ \A u \in Users : u # currentUser => Got[u] = Answered(u)
           /\ Got[currentUser] = Answered(currentUser) + UnreadCommits
<1>1. UnreadCommits \in Nat /\ currentUser \in Users
  BY InvFacts DEF UnreadCommits, RemoteStore
<1>2. \A u \in Users : Answered(u) \in Nat
  BY QueueWrites
<1> QED
  BY <1>1, <1>2 DEF Done, Got

\* No step of WriteLog: what is under way is the same.
LEMMA CountsKept ==
    ASSUME IInv, UNCHANGED <<queue, accepted, currentUser, log>>, UnreadCommits' = UnreadCommits
    PROVE  UNCHANGED <<accepted, Done, Got, log>>
<1>1. \A u \in Users : Answered(u)' = Answered(u)
  BY DEF Answered
<1>2. Done' = [u \in Users |-> Answered(u)']
  BY DEF Done
<1>3. Got' = [u \in Users |-> Answered(u)' + IF u = currentUser' THEN UnreadCommits' ELSE 0]
  BY DEF Got
<1>4. Done' = Done
  BY <1>1, <1>2 DEF Done
<1>5. Got' = Got
  BY <1>1, <1>3 DEF Got
<1> QED
  BY <1>4, <1>5

\* The answers under way are lost: the server goes back to the first write
\* without an answer, whoever is signed in afterwards.
LEMMA CountsRewound ==
    ASSUME IInv, Offline, UNCHANGED <<queue, accepted, log>>
    PROVE  Got' = [Got EXCEPT ![currentUser] = Done[currentUser]] /\ UNCHANGED <<accepted, Done, log>>
<1>1. \A u \in Users : Answered(u)' = Answered(u)
  BY DEF Answered
<1>2. ~remote'.handshake
  BY DEF Offline, StreamInv, StreamShape
<1>3. UnreadCommits' = 0
  BY <1>2 DEF UnreadCommits
<1>4. Done' = Done
  <2>1. Done' = [u \in Users |-> Answered(u)']
    BY DEF Done
  <2> QED
    BY <1>1, <2>1 DEF Done
<1>5. Got' = [u \in Users |-> Answered(u)]
  <2>1. Got' = [u \in Users |-> Answered(u)' + IF u = currentUser' THEN UnreadCommits' ELSE 0]
    BY DEF Got
  <2>2. \A u \in Users : Answered(u)' + (IF u = currentUser' THEN UnreadCommits' ELSE 0) = Answered(u)
    BY <1>1, <1>3, Counts
  <2> QED
    BY <2>1, <2>2
<1>6. DOMAIN Got = Users
  BY DEF Got
<1> DEFINE g == [Got EXCEPT ![currentUser] = Done[currentUser]]
<1>7. DOMAIN g = Users /\ \A u \in Users : g[u] = Answered(u)
  BY <1>6, Counts
<1>8. g = [u \in Users |-> g[u]]
  BY <1>7
<1> HIDE DEF g
<1>9. Got' = g
  BY <1>5, <1>7, <1>8
<1> QED
  BY <1>4, <1>9 DEF g

\* A new write is issued behind those the server has not got through.
LEMMA CountsAccepted ==
    ASSUME IInv, WriteMutations
    PROVE  /\ \E w \in Writes : accepted' = [accepted EXCEPT ![currentUser] = Append(@, w)]
           /\ UNCHANGED <<Done, Got, log>>
<1>1. /\ \E w \in Writes : accepted' = [accepted EXCEPT ![currentUser] = Append(@, w)]
  BY NewBatch
<1>2. currentUser' = currentUser /\ log' = log
  BY DEF WriteMutations
<1>3. UnreadCommits' = UnreadCommits
  BY StreamWriteMutations DEF SameCall, UnreadCommits
<1>4. \A u \in Users : Answered(u)' = Answered(u)
  BY AnsweredWriteMutations
<1>5. Done' = Done
  <2>1. Done' = [u \in Users |-> Answered(u)']
    BY DEF Done
  <2> QED
    BY <1>4, <2>1 DEF Done
<1>6. Got' = Got
  <2>1. Got' = [u \in Users |-> Answered(u)' + IF u = currentUser' THEN UnreadCommits' ELSE 0]
    BY DEF Got
  <2> QED
    BY <1>2, <1>3, <1>4, <2>1 DEF Got
<1> QED
  BY <1>1, <1>2, <1>5, <1>6

\* What the server applies is the next write of the user it got through to.
LEMMA CountsApplied ==
    ASSUME IInv, ServerCommit
    PROVE  /\ Got[currentUser] < Len(accepted[currentUser])
           /\ log' = Append(log, accepted[currentUser][Got[currentUser] + 1])
           /\ Got' = [Got EXCEPT ![currentUser] = @ + 1]
           /\ UNCHANGED <<accepted, Done>>
<1> DEFINE a == Len(remote.answers)
           k == a + 1
           q == queue[currentUser]
           d == Answered(currentUser)
           l == Len(accepted[currentUser])
<1>1. log' = Append(log, Head(remote.wire)) /\ UNCHANGED <<queue, accepted, currentUser>>
  BY DEF ServerCommit, store
<1>2. /\ remote.handshake /\ remote'.handshake /\ Head(remote.wire) = q[k].write
      /\ k \in 1 .. Len(q) /\ Head(remote.wire) \in Wire
      /\ remote'.answers = Append(remote.answers, Head(remote.wire))
  BY ServerSteps DEF Wire
<1>3. a \in Nat /\ Len(remote'.answers) = a + 1
  <2>1. remote.answers \in Seq(Wire)
    BY InvFacts DEF RemoteStore
  <2> QED
    BY <2>1, <1>2, AppendFacts
<1>4. UnreadCommits = a /\ UnreadCommits' = a + 1
  BY <1>2, <1>3 DEF UnreadCommits
<1> HIDE DEF k
<1>5. d \in Nat /\ l \in Nat /\ d + k \in 1 .. l /\ q[k].write = accepted[currentUser][d + k]
  BY <1>2, InvFacts, QueueWrites
<1>6. Got[currentUser] = d + a
  BY <1>4, Counts
<1> HIDE DEF a, d, l
<1>7. d + a < l /\ (d + a) + 1 = d + k
  BY <1>3, <1>5 DEF k
<1>8. \A u \in Users : Answered(u)' = Answered(u)
  BY <1>1 DEF Answered
<1>9. Done' = Done
  <2>1. Done' = [u \in Users |-> Answered(u)']
    BY DEF Done
  <2> QED
    BY <1>8, <2>1 DEF Done
<1>10. Got' = [Got EXCEPT ![currentUser] = @ + 1]
  <2>1. Got' = [u \in Users |-> Answered(u)' + IF u = currentUser' THEN UnreadCommits' ELSE 0]
    BY DEF Got
  <2> DEFINE e(u) == Answered(u) + IF u = currentUser THEN a + 1 ELSE 0
  <2>2. Got' = [u \in Users |-> e(u)]
    BY <2>1, <1>1, <1>4, <1>8
  <2>3. \A u \in Users : u # currentUser => e(u) = Got[u]
    BY Counts
  <2>4. e(currentUser) = Got[currentUser] + 1
    <3>1. e(currentUser) = d + (a + 1)
      BY DEF d
    <3> QED
      BY <3>1, <1>3, <1>5, <1>6
  <2> HIDE DEF e
  <2>5. DOMAIN Got = Users /\ currentUser \in Users
    BY InvFacts DEF Got
  <2> DEFINE g == [Got EXCEPT ![currentUser] = @ + 1]
  <2>6. DOMAIN g = Users /\ \A u \in Users : g[u] = e(u)
    BY <2>3, <2>4, <2>5
  <2>7. g = [u \in Users |-> g[u]]
    BY <2>6
  <2> HIDE DEF g
  <2>8. Got' = g
    BY <2>2, <2>6, <2>7
  <2> QED
    BY <2>8 DEF g
<1> QED
  BY <1>1, <1>2, <1>5, <1>6, <1>7, <1>9, <1>10 DEF l

\* One more write is answered.
LEMMA CountsSettled ==
    ASSUME IInv, Settling
    PROVE  /\ Done' = [Done EXCEPT ![currentUser] = @ + 1]
           /\ Got' = [u \in Users |-> IF u = currentUser
                                      THEN (Answered(currentUser) + 1) + UnreadCommits' ELSE Got[u]]
<1>1. /\ currentUser' = currentUser /\ accepted' = accepted
      /\ \A u \in Users : u # currentUser => queue'[u] = queue[u]
  BY SettlingFacts DEF Settling
<1>2. Answered(currentUser)' = Answered(currentUser) + 1
  BY SettlingAnswers
<1>3. \A u \in Users : u # currentUser => Answered(u)' = Answered(u)
  BY <1>1 DEF Answered
<1>4. \A u \in Users : u = currentUser => Answered(u)' = Answered(currentUser) + 1
  <2> SUFFICES ASSUME NEW u \in Users, u = currentUser PROVE Answered(u)' = Answered(currentUser)'
    BY <1>2
  <2> QED
    BY <1>1 DEF Answered
<1>5. Done' = [Done EXCEPT ![currentUser] = @ + 1]
  <2>1. Done' = [u \in Users |-> Answered(u)']
    BY DEF Done
  <2> DEFINE g == [Done EXCEPT ![currentUser] = @ + 1]
  <2>2. DOMAIN g = Users /\ \A u \in Users : g[u] = Answered(u)'
    <3>1. DOMAIN Done = Users
      BY DEF Done
    <3> QED
      BY <3>1, <1>3, <1>4, Counts
  <2>3. g = [u \in Users |-> g[u]]
    BY <2>2
  <2> HIDE DEF g
  <2>4. Done' = g
    BY <2>1, <2>2, <2>3
  <2> QED
    BY <2>4 DEF g
<1>6. Got' = [u \in Users |-> IF u = currentUser
                              THEN (Answered(currentUser) + 1) + UnreadCommits' ELSE Got[u]]
  <2>1. Got' = [u \in Users |-> Answered(u)' + IF u = currentUser' THEN UnreadCommits' ELSE 0]
    BY DEF Got
  <2>2. \A u \in Users : Answered(u)' + (IF u = currentUser' THEN UnreadCommits' ELSE 0)
           = IF u = currentUser THEN (Answered(currentUser) + 1) + UnreadCommits' ELSE Got[u]
    BY <1>1, <1>3, <1>4, Counts
  <2> QED
    BY <2>1, <2>2
<1> QED
  BY <1>5, <1>6

\* An answer is read: the server got through to the same place.
LEMMA CountsAnswered ==
    ASSUME IInv, OnWriteStreamMutationResult
    PROVE  /\ Done[currentUser] < Got[currentUser]
           /\ Done' = [Done EXCEPT ![currentUser] = @ + 1]
           /\ UNCHANGED <<accepted, Got, log>>
<1> DEFINE a == Len(remote.answers)
           d == Answered(currentUser)
<1>1. accepted' = accepted /\ log' = log /\ Settling
  BY SettlingSteps DEF OnWriteStreamMutationResult
<1>2. /\ remote.handshake /\ remote'.handshake /\ remote'.answers = Tail(remote.answers)
      /\ remote.answers # <<>>
  BY StreamMutationResult
<1>3. a \in Nat /\ a > 0 /\ Len(remote'.answers) = a - 1
  BY <1>2, InvFacts, TailFacts DEF RemoteStore
<1>4. UnreadCommits = a /\ UnreadCommits' = a - 1
  BY <1>2, <1>3 DEF UnreadCommits
<1>5. Done[currentUser] = d /\ Got[currentUser] = d + a /\ d \in Nat /\ currentUser \in Users
  BY <1>4, Counts
<1>6. Got' = [u \in Users |-> IF u = currentUser THEN (d + 1) + UnreadCommits' ELSE Got[u]]
  BY <1>1, CountsSettled
<1> HIDE DEF a, d
<1>7. d < d + a /\ (d + 1) + (a - 1) = d + a
  BY <1>3, <1>5
<1>8. Got' = Got
  <2>1. Got = [u \in Users |-> Got[u]]
    BY DEF Got
  <2>2. \A u \in Users : (IF u = currentUser THEN (d + 1) + UnreadCommits' ELSE Got[u]) = Got[u]
    BY <1>4, <1>5, <1>7
  <2> QED
    BY <2>1, <2>2, <1>6
<1> QED
  BY <1>1, <1>5, <1>7, <1>8, CountsSettled

\* A write is refused: the server is past it, and all other answers are lost.
LEMMA CountsRefused ==
    ASSUME IInv, Rejection
    PROVE  /\ Done[currentUser] < Len(accepted[currentUser])
           /\ Done' = [Done EXCEPT ![currentUser] = @ + 1]
           /\ Got' = [Got EXCEPT ![currentUser] = Done[currentUser] + 1]
           /\ UNCHANGED <<accepted, log>>
<1> DEFINE d == Answered(currentUser)
           q == Len(queue[currentUser])
           l == Len(accepted[currentUser])
<1>1. accepted' = accepted /\ log' = log /\ Settling
  BY SettlingSteps DEF Rejection, Offline
<1>2. ~remote'.handshake
  BY DEF Rejection, Offline, StreamInv, StreamShape
<1>3. UnreadCommits' = 0
  BY <1>2 DEF UnreadCommits
<1>4. Done[currentUser] = d /\ d \in Nat /\ currentUser \in Users
  BY Counts
<1>5. d + q = l /\ q \in Nat /\ q > 0
  BY <1>1, InvFacts, QueueWrites DEF Settling
<1>6. Got' = [u \in Users |-> IF u = currentUser THEN (d + 1) + UnreadCommits' ELSE Got[u]]
  BY <1>1, CountsSettled
<1> HIDE DEF d, q, l
<1>7. d < l /\ (d + 1) + 0 = d + 1
  BY <1>4, <1>5
<1>8. Got' = [Got EXCEPT ![currentUser] = Done[currentUser] + 1]
  <2> DEFINE g == [Got EXCEPT ![currentUser] = Done[currentUser] + 1]
  <2>1. DOMAIN g = Users /\ \A u \in Users : g[u] = IF u = currentUser THEN d + 1 ELSE Got[u]
    <3>1. DOMAIN Got = Users
      BY DEF Got
    <3> QED
      BY <3>1, <1>4
  <2>2. g = [u \in Users |-> g[u]]
    BY <2>1
  <2>3. Got' = [u \in Users |-> IF u = currentUser THEN d + 1 ELSE Got[u]]
    BY <1>3, <1>6, <1>7
  <2> HIDE DEF g
  <2>4. Got' = g
    BY <2>1, <2>2, <2>3
  <2> QED
    BY <2>4 DEF g
<1> QED
  BY <1>1, <1>4, <1>7, <1>8, CountsSettled DEF l

\* Every step is one of WriteLog, or none.
LEMMA PromiseStep ==
    ASSUME IInv, [Next]_vars
    PROVE  [Promise!Next]_(Promise!vars)
<1>0. PICK me \in Users : me = currentUser
  BY InvFacts
<1>1. ASSUME UNCHANGED <<accepted, Done, Got, log>> PROVE UNCHANGED Promise!vars
  BY <1>1 DEF Promise!vars, Done, Got
<1>2. CASE Internal
  BY <1>1, <1>2, CountsKept DEF Internal, Kept, CallKept
<1>3. CASE RegisterPendingWritesCallback
  <2>1. UNCHANGED <<queue, accepted, currentUser, log, remote>>
    BY <1>3 DEF RegisterPendingWritesCallback, history
  <2>2. UnreadCommits' = UnreadCommits
    BY <2>1 DEF UnreadCommits
  <2> QED
    BY <1>1, <2>1, <2>2, CountsKept
<1>4. CASE ServerRefuse
  <2>1. UNCHANGED <<queue, accepted, currentUser, log>>
    BY <1>4 DEF ServerRefuse, store
  <2>2. UnreadCommits' = UnreadCommits
    BY <1>4, ServerSteps DEF UnreadCommits
  <2> QED
    BY <1>1, <2>1, <2>2, CountsKept
<1>5. CASE Offline /\ UNCHANGED <<queue, accepted, log>>
  <2>1. Promise!Rewind(me)
    BY <1>0, <1>5, CountsRewound DEF Promise!Rewind, Done, Got
  <2> QED
    BY <2>1 DEF Promise!Next
<1>6. CASE WriteMutations
  <2>1. \E w \in Writes : Promise!Accept(me, w)
    BY <1>0, <1>6, CountsAccepted DEF Promise!Accept, Done, Got
  <2> QED
    BY <2>1 DEF Promise!Next
<1>7. CASE ServerCommit
  <2>1. Promise!Apply(me)
    BY <1>0, <1>7, CountsApplied DEF Promise!Apply, Done, Got
  <2> QED
    BY <2>1 DEF Promise!Next
<1>8. CASE OnWriteStreamMutationResult
  <2>1. Promise!Settle(me)
    BY <1>0, <1>8, CountsAnswered DEF Promise!Settle, Done, Got
  <2> QED
    BY <2>1 DEF Promise!Next
<1>9. CASE Rejection
  <2>1. Promise!Refuse(me)
    BY <1>0, <1>9, CountsRefused DEF Promise!Refuse, Done, Got
  <2> QED
    BY <2>1 DEF Promise!Next
<1>10. CASE Drop \/ (HandleCredentialChange /\ Offline) \/ ((Kill \/ KillInAcknowledge) /\ Offline)
  BY <1>5, <1>10 DEF Drop, Kept, HandleCredentialChange, Kill, KillInAcknowledge, Restart, Offline
<1> QED
  BY <1>2, <1>3, <1>4, <1>6, <1>7, <1>8, <1>9, <1>10, StepKinds

\* For every user, the writes are applied and answered in the order in which
\* they were issued, and only a lost answer takes the server back.
THEOREM PipelineKeepsOrder == Spec => KeepsOrder
<1>1. Init => Promise!Init
  <2> SUFFICES ASSUME Init PROVE Promise!Init
    OBVIOUS
  <2>1. /\ queue = [u \in Users |-> <<>>] /\ accepted = [u \in Users |-> <<>>] /\ log = <<>>
        /\ ~remote.handshake
    BY DEF Init, Fresh
  <2>2. UnreadCommits = 0 /\ \A u \in Users : Answered(u) = 0
    BY <2>1 DEF UnreadCommits, Answered
  <2>3. /\ [u \in Users |-> Answered(u)] = [u \in Users |-> 0]
        /\ [u \in Users |-> Answered(u) + IF u = currentUser THEN UnreadCommits ELSE 0] = [u \in Users |-> 0]
    BY <2>2
  <2> QED
    BY <2>1, <2>3 DEF Promise!Init
<1>2. IInv /\ [Next]_vars => [Promise!Next]_(Promise!vars)
  BY PromiseStep
<1> QED
  BY <1>1, <1>2, Inductive, PTL DEF Spec, KeepsOrder, Promise!Spec

=============================================================================
